----------------------------- MODULE MCSendRecv -----------------------------
(***************************************************************************)
(* TLC instance of SendRecv: two frames, a bare beacon and another frame,  *)
(* each of which TCP may cut in two.                                       *)
(***************************************************************************)
EXTENDS SendRecv

MCKind == <<"frame", "frame", "bare", "frame">>
=============================================================================
