--------------------------- MODULE MCCommandUplink ---------------------------
(***************************************************************************)
(* TLC instance of CommandUplink.                                          *)
(***************************************************************************)
EXTENDS CommandUplink
=============================================================================
