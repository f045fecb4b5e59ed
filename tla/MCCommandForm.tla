---------------------------- MODULE MCCommandForm ----------------------------
(***************************************************************************)
(* TLC instance of CommandForm: of three commands, two share a parameter   *)
(* and one has none.                                                       *)
(***************************************************************************)
EXTENDS CommandForm

CONSTANTS noop, capture, transfer

MCCommands == {noop, capture, transfer}

MCParamsOf == [c \in MCCommands |-> IF c = noop THEN {} ELSE {"index"}]
=============================================================================
