----------------------------- MODULE MCBitstream -----------------------------
(***************************************************************************)
(* TLC instance of Bitstream: two fragments and two seconds; making the    *)
(* directory, opening a file and renaming it may fail.                     *)
(***************************************************************************)
EXTENDS Bitstream
=============================================================================
