--------------------------- MODULE MCImageExtract ---------------------------
(***************************************************************************)
(* TLC instance of ImageExtract: calls over up to three packets, sequence  *)
(* counts with gaps, two seconds; writing, renaming, copying and removing  *)
(* may fail.                                                               *)
(***************************************************************************)
EXTENDS ImageExtract
=============================================================================
