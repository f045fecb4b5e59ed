--------------------------- MODULE MCTelemetryStore ---------------------------
(***************************************************************************)
(* TLC instance of TelemetryStore: a beacon with two applications, and a   *)
(* request that writes a value of one of them.                             *)
(***************************************************************************)
EXTENDS TelemetryStore

MCWork ==
    [beacon |-> <<[app |-> "EPS", part |-> "SRL", names |-> <<"count">>],
                  [app |-> "FSW", part |-> "SRL", names |-> <<"count", "errors">>]>>,
     ingest |-> <<[app |-> "EPS", part |-> "SRL", names |-> <<"count">>]>>]
=============================================================================
