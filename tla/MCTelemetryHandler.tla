------------------------- MODULE MCTelemetryHandler -------------------------
(***************************************************************************)
(* TLC instance of TelemetryHandler.  The sizes are scaled down, in the    *)
(* order they have in the code (CSP header and tail < secondary header <   *)
(* image data < beacon < report), so that every frame length and every     *)
(* position occurs, and a buffer holds up to three frames.                 *)
(***************************************************************************)
EXTENDS TelemetryHandler

MCFrameLengths == 0 .. 20
=============================================================================
