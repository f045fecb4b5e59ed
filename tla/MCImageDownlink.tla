--------------------------- MODULE MCImageDownlink ---------------------------
(***************************************************************************)
(* TLC instance of ImageDownlink: three images of two, one and two packets *)
(* that end within two seconds, up to two packets per payload.             *)
(***************************************************************************)
EXTENDS ImageDownlink

MCDownlink ==
    << [image |-> 1, number |-> 1, last |-> FALSE],
       [image |-> 1, number |-> 2, last |-> TRUE],
       [image |-> 2, number |-> 1, last |-> TRUE],
       [image |-> 3, number |-> 1, last |-> FALSE],
       [image |-> 3, number |-> 2, last |-> TRUE] >>
=============================================================================
