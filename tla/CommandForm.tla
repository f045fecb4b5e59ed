----------------------------- MODULE CommandForm -----------------------------
(***************************************************************************)
(* The command page (front/app/dashboard/command/GS_CommandSelector.tsx)   *)
(* with the routes it calls, cmdmeta and tc-log: selecting a command, the  *)
(* metadata that arrive later, picking a row of the history, sending, and  *)
(* logging what was sent.                                                  *)
(*                                                                         *)
(* An action is one event handler with the effects that React runs for the *)
(* state it sets (for a click or a change it runs them at once).  The list *)
(* of parameters is represented by the command it belongs to, the values   *)
(* of the input fields by the command of the history row they come from,   *)
(* if any; address, port and typing are left out.  The history the menu    *)
(* offers also holds rows of earlier days, so any command may be picked.   *)
(*                                                                         *)
(* A name that ends in "Mutant" is no part of the model.                   *)
(***************************************************************************)
EXTENDS Naturals, Sequences

CONSTANTS
    Commands,       \* the rows of the table command
    ParamsOf,       \* the names of each command's parameters
    None,           \* no command
    MaxSends,       \* bounds the commands sent
    MaxVisits       \* bounds the times the page is loaded

ASSUME FormAssumption ==
    /\ None \notin Commands
    /\ DOMAIN ParamsOf = Commands
    /\ MaxSends \in Nat /\ MaxVisits \in Nat \ {0}

VARIABLES
    sel,        \* the selected command
    shown,      \* parameters: the command whose parameters are shown, None if no list
    filled,     \* paramValues: the command whose history row they come from
    live,       \* the command whose metadata the current effect waits for
    stale,      \* the commands whose metadata are awaited by effects cleaned up since
    pending,    \* pendingParamsRef
    picked,     \* history: the selection was last made by picking a row
    ws,         \* the page's WebSocket: "new", "open" or "closed"
    phase,      \* handleSendCommand: "idle", "log", "history" or "logError"
    visit,      \* the number of this load of the page
    sent,       \* history: the commands sent, as [visit, named]
    rows        \* tc_command_log: pairs of a command sent and its send_result

choice   == <<sel, live, stale>>
fields   == <<shown, filled, pending>>
sending  == <<phase, sent, rows>>
vars     == <<choice, fields, picked, ws, sending, visit>>

Init ==
    /\ sel = None /\ live = None /\ stale = {}
    /\ shown = None /\ filled = None /\ pending = None
    /\ picked = FALSE
    /\ ws = "new"
    /\ phase = "idle"
    /\ visit = 1
    /\ sent = <<>>
    /\ rows = {}

-----------------------------------------------------------------------------
(***************************************************************************)
(* Selecting.                                                              *)
(***************************************************************************)

\* The selection becomes c.  If that changes it, the effect that asks for the
\* metadata is cleaned up and runs again.
Select(c) ==
    /\ sel' = c
    /\ IF c = sel
       THEN UNCHANGED <<live, stale>>
       ELSE live' = c /\ stale' = stale \cup ({live} \ {None})

\* The commands have been loaded and nothing is selected: the effect takes the
\* first NOOP or the first command.
AutoSelect(c) ==
    /\ sel = None
    /\ Select(c)
    /\ UNCHANGED <<fields, picked, ws, sending, visit>>

\* handleCommandChange.
Choose(c) ==
    /\ Select(c)
    /\ picked' = FALSE
    /\ UNCHANGED <<fields, ws, sending, visit>>

\* A tab is clicked: its NOOP or first command, and no values from a history row.
ClickTab(c) ==
    /\ Select(c)
    /\ pending' = None
    /\ picked' = FALSE
    /\ UNCHANGED <<shown, filled, ws, sending, visit>>

\* A row picked while another waits for its metadata is forgotten.
PickRowOnceMutant(c) ==
    /\ Select(c)
    /\ pending' = IF pending = None THEN c ELSE pending
    /\ picked' = TRUE
    /\ UNCHANGED <<shown, filled, ws, sending, visit>>

\* applyHistoryRow: the row's values wait for the metadata.
PickRow(c) ==
    /\ Select(c)
    /\ pending' = c
    /\ picked' = TRUE
    /\ UNCHANGED <<shown, filled, ws, sending, visit>>

\* The metadata of the selected command arrive; the fields are empty, or filled
\* from the row that waits where it has a parameter of the same name.
MetaArrives ==
    /\ live # None
    /\ shown' = live
    /\ filled' = IF pending # None /\ ParamsOf[live] \cap ParamsOf[pending] # {}
                 THEN pending ELSE None
    /\ pending' = None
    /\ live' = None
    /\ UNCHANGED <<sel, stale, picked, ws, sending, visit>>

\* cmdmeta answers with an error, which normalizeParams takes for an empty list, or
\* the request fails.
MetaFails ==
    /\ live # None
    /\ shown' = None
    /\ filled' = None
    /\ pending' \in {None, pending}
    /\ live' = None
    /\ UNCHANGED <<sel, stale, picked, ws, sending, visit>>

\* The effect does not look whether it has been cleaned up.
StaleMetaAppliedMutant(c) ==
    /\ c \in stale
    /\ stale' = stale \ {c}
    /\ shown' = c
    /\ UNCHANGED <<sel, live, filled, pending, picked, ws, sending, visit>>

\* The answer to an effect that has been cleaned up is not used.
StaleMeta(c) ==
    /\ c \in stale
    /\ stale' = stale \ {c}
    /\ UNCHANGED <<sel, live, fields, picked, ws, sending, visit>>

-----------------------------------------------------------------------------
(***************************************************************************)
(* Sending and logging.                                                    *)
(***************************************************************************)

Current == Len(sent)

\* handleSendCommand up to the first await; without an open WebSocket it returns.
Send ==
    /\ phase = "idle" /\ ws = "open"
    /\ Len(sent) < MaxSends
    /\ sent' = Append(sent, [visit |-> visit, named |-> sel # None])
    /\ phase' = "log"
    /\ UNCHANGED <<choice, fields, picked, ws, rows, visit>>

\* The row is given the next command's number.
InsertedNextMutant(result) ==
    {rows} \cup IF sent[Current].named THEN {rows \cup {<<Current + 1, result>>}} ELSE {}

\* What POST /api/tc-log may have inserted: nothing, or a row if the command has a
\* name.
Inserted(result) ==
    {rows} \cup IF sent[Current].named THEN {rows \cup {<<Current, result>>}} ELSE {}

LogAnswered ==
    /\ phase = "log"
    /\ sent[Current].named
    /\ rows' = rows \cup {<<Current, "ok">>}
    /\ phase' = "history"
    /\ UNCHANGED <<choice, fields, picked, ws, sent, visit>>

\* The route answers with an error, or its answer is lost.
LogFails ==
    /\ phase = "log"
    /\ rows' \in Inserted("ok")
    /\ phase' = "logError"
    /\ UNCHANGED <<choice, fields, picked, ws, sent, visit>>

\* loadHistory, which handles its own errors.
HistoryLoaded ==
    /\ phase = "history"
    /\ phase' = "idle"
    /\ UNCHANGED <<choice, fields, picked, ws, sent, rows, visit>>

\* The first row is tried again after the second.
ErrorLoggedRetriesMutant ==
    /\ phase = "logError"
    /\ rows' \in Inserted("error")
    /\ phase' = "log"
    /\ UNCHANGED <<choice, fields, picked, ws, sent, visit>>

\* The second row, whose own failure is ignored.
ErrorLogged ==
    /\ phase = "logError"
    /\ rows' \in Inserted("error")
    /\ phase' = "idle"
    /\ UNCHANGED <<choice, fields, picked, ws, sent, visit>>

\* The page is left and loaded again; a request on its way may still be served.
Reload ==
    /\ visit < MaxVisits
    /\ visit' = visit + 1
    /\ sel' = None /\ live' = None /\ stale' = {}
    /\ shown' = None /\ filled' = None /\ pending' = None
    /\ picked' = FALSE
    /\ ws' = "new"
    /\ phase' = "idle"
    /\ rows' \in CASE phase = "log"      -> Inserted("ok")
                   [] phase = "logError" -> Inserted("error")
                   [] OTHER              -> {rows}
    /\ UNCHANGED sent

\* The WebSocket of this visit opens or fails to, and closes for good.
WebSocketOpens ==
    /\ ws = "new"
    /\ ws' \in {"open", "closed"}
    /\ UNCHANGED <<choice, fields, picked, sending, visit>>

WebSocketCloses ==
    /\ ws = "open"
    /\ ws' = "closed"
    /\ UNCHANGED <<choice, fields, picked, sending, visit>>

Next ==
    \/ \E c \in Commands :
          AutoSelect(c) \/ Choose(c) \/ ClickTab(c) \/ PickRow(c) \/ StaleMeta(c)
    \/ MetaArrives \/ MetaFails
    \/ Send \/ LogAnswered \/ LogFails \/ HistoryLoaded \/ ErrorLogged
    \/ WebSocketOpens \/ WebSocketCloses \/ Reload

Spec == Init /\ [][Next]_vars

-----------------------------------------------------------------------------
(***************************************************************************)
(* Properties.                                                             *)
(***************************************************************************)

Results == {"ok", "error"}
Option  == Commands \cup {None}

TypeOK ==
    /\ sel \in Option /\ live \in Option /\ stale \subseteq Commands
    /\ shown \in Option /\ filled \in Option /\ pending \in Option
    /\ picked \in BOOLEAN
    /\ ws \in {"new", "open", "closed"}
    /\ phase \in {"idle", "log", "history", "logError"}
    /\ visit \in 1 .. MaxVisits
    /\ sent \in Seq([visit : 1 .. MaxVisits, named : BOOLEAN])
    /\ rows \subseteq (1 .. MaxSends) \X Results

\* The parameters shown, and so those sent with the selected command's ids, are
\* those of the selected command unless its own metadata are still awaited: answers
\* that come late or out of order never bring back another command's parameters.
ShownIsSelected ==
    IF live = None THEN shown \in {sel, None} ELSE live = sel

\* When the operator picks a row of the history of another command and its values
\* are put in, they are the values of that row's command: no row picked earlier
\* takes its place.  A row of the command already selected waits for an effect that
\* does not run; nothing is stated of it while it waits.
RowFillsItsCommand ==
    picked /\ live = None /\ pending = None => filled \in {sel, None}

\* The log and the WebSocket agree as far as the code can make them: a row stands
\* for a command that was handed to the WebSocket, whatever its send_result says,
\* and the row that says "error" is only written when the first was not confirmed.
LogTells ==
    /\ \A r \in rows : r[1] \in 1 .. Len(sent) /\ sent[r[1]].named
    /\ phase \in {"log", "history"} => <<Current, "error">> \notin rows
    /\ phase = "history" => <<Current, "ok">> \in rows
=============================================================================
