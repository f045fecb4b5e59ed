---------------------------- MODULE TelemetryStore ----------------------------
(***************************************************************************)
(* The telemetry tables of the database with the two programs that write   *)
(* them and the page that shows them: BeaconHandler::Save2DB of            *)
(* back/sgs/ros, POST of front/app/api/ingest, and the polling of          *)
(* front/app/dashboard/telemetry with GET of front/app/api/beacon.         *)
(*                                                                         *)
(* A call writes groups of values.  For each group it looks up the         *)
(* application and the part, then for each value the definition, creating  *)
(* what is missing, and inserts the value.  Each statement is a step of    *)
(* its own, and no call uses a transaction.  The tables applications,      *)
(* parts and telemetry_def are the three levels of one tree of rows; a row *)
(* id is a position in the sequence "rows", a value id one in "values".    *)
(* Whether an index refuses a second row of one name is not known here: an *)
(* insertion may succeed or fail.                                          *)
(*                                                                         *)
(* A name that ends in "Mutant" is no part of the model.                   *)
(***************************************************************************)
EXTENDS Naturals, Sequences, SequencesExt

CONSTANTS
    Calls,          \* the calls of Save2DB and of the ingest route
    Beacons,        \* those of them that are calls of Save2DB
    Work,           \* what each call writes: groups [app, part, names]
    MaxPolls,       \* bounds the requests of the page on their way
    NoTable         \* the page has no table yet

ASSUME StoreAssumption ==
    /\ Beacons \subseteq Calls
    /\ DOMAIN Work = Calls
    /\ \A c \in Calls :
          /\ Work[c] \in Seq([app : STRING, part : STRING, names : Seq(STRING)])
          /\ Len(Work[c]) > 0
          /\ \A g \in 1 .. Len(Work[c]) : Len(Work[c][g].names) > 0
    /\ MaxPolls \in Nat
    /\ NoTable \notin Nat

VARIABLES
    rows,           \* applications, parts, telemetry_def: [level, parent, name]
    values,         \* telemetry_value: [def, call, g, k]
    pc,             \* where each call is
    at,             \* the group and the value a call is writing: [g, k]
    level,          \* what a call looks up: 1 application, 2 part, 3 definition
    ids,            \* app_id, part_id and telemetry_id of a call
    disturbed,      \* history: two calls overlapped, or a SELECT failed
    polls,          \* the page's unanswered requests, oldest first: the values each saw
    shown           \* the values the table on the page saw, NoTable at first

calls    == <<pc, at, level, ids, disturbed>>
database == <<rows, values>>
page     == <<polls, shown>>
vars     == <<database, calls, page>>

\* The local variables of a call that has found nothing yet.
NoIds == [l \in 1 .. 3 |-> 0]

Init ==
    /\ rows = <<>> /\ values = <<>>
    /\ pc = [c \in Calls |-> "idle"]
    /\ at = [c \in Calls |-> [g |-> 1, k |-> 1]]
    /\ level = [c \in Calls |-> 1]
    /\ ids = [c \in Calls |-> NoIds]
    /\ disturbed = FALSE
    /\ polls = <<>>
    /\ shown = NoTable

-----------------------------------------------------------------------------
(***************************************************************************)
(* The calls.                                                              *)
(***************************************************************************)

Group(c) == Work[c][at[c].g]

Active(c) == pc[c] \in {"select", "insert", "value"}

\* What a call looks up now, as a row.
Wanted(c) ==
    [level  |-> level[c],
     parent |-> IF level[c] = 1 THEN 0 ELSE ids[c][level[c] - 1],
     name   |-> CASE level[c] = 1 -> Group(c).app
                  [] level[c] = 2 -> Group(c).part
                  [] level[c] = 3 -> Group(c).names[at[c].k]]

\* Save2DB runs in the receive thread, one call after the other; the route serves
\* requests at the same time.
Begin(c) ==
    /\ pc[c] = "idle"
    /\ c \in Beacons => \A b \in Beacons : ~Active(b)
    /\ pc' = [pc EXCEPT ![c] = "select"]
    /\ disturbed' = (disturbed \/ \E b \in Calls : Active(b))
    /\ UNCHANGED <<database, at, level, ids, page>>

\* The row of the level is r: look up the next level, or insert the value.
GoOn(c, r) ==
    /\ ids' = [ids EXCEPT ![c][level[c]] = r]
    /\ IF level[c] = 3
       THEN pc' = [pc EXCEPT ![c] = "value"] /\ UNCHANGED level
       ELSE /\ pc' = [pc EXCEPT ![c] = "select"]
            /\ level' = [level EXCEPT ![c] = @ + 1]
    /\ UNCHANGED at

\* SELECT ... LIMIT 1: any row that matches, or none.  The queries ask for code or
\* label; both programs insert the name as both, so a row of theirs has one name.
SelectFinds(c) ==
    /\ pc[c] = "select"
    /\ \E r \in 1 .. Len(rows) : rows[r] = Wanted(c) /\ GoOn(c, r)
    /\ UNCHANGED <<database, disturbed, page>>

\* The row is inserted without looking.
SelectFindsNoneBlindMutant(c) ==
    /\ pc[c] = "select"
    /\ pc' = [pc EXCEPT ![c] = "insert"]
    /\ UNCHANGED <<database, at, level, ids, disturbed, page>>

SelectFindsNone(c) ==
    /\ pc[c] = "select"
    /\ \A r \in 1 .. Len(rows) : rows[r] # Wanted(c)
    /\ pc' = [pc EXCEPT ![c] = "insert"]
    /\ UNCHANGED <<database, at, level, ids, disturbed, page>>

\* A failed SELECT: ensure_app_id and its like go on as if nothing had been found.
SelectFails(c) ==
    /\ pc[c] = "select"
    /\ c \in Beacons
    /\ pc' = [pc EXCEPT ![c] = "insert"]
    /\ disturbed' = TRUE
    /\ UNCHANGED <<database, at, level, ids, page>>

Insert(c) ==
    /\ pc[c] = "insert"
    /\ rows' = Append(rows, Wanted(c))
    /\ GoOn(c, Len(rows) + 1)
    /\ UNCHANGED <<values, disturbed, page>>

\* The call returns; its local variables are gone, but for how far it came.
Return(c, result) ==
    /\ pc' = [pc EXCEPT ![c] = result]
    /\ level' = [level EXCEPT ![c] = 1]
    /\ ids' = [ids EXCEPT ![c] = NoIds]
    /\ UNCHANGED at

LastValue(c) == at[c].k = Len(Group(c).names)
LastGroup(c) == at[c].g = Len(Work[c])

\* The next group is looked up from its part on: the application is kept.
AfterValueMutant(c) ==
    IF LastValue(c) /\ LastGroup(c)
    THEN Return(c, "ok")
    ELSE /\ pc' = [pc EXCEPT ![c] = "select"]
         /\ at' = [at EXCEPT ![c] = IF LastValue(c) THEN [g |-> @.g + 1, k |-> 1]
                                                    ELSE [g |-> @.g, k |-> @.k + 1]]
         /\ UNCHANGED ids
         /\ level' = [level EXCEPT ![c] = IF LastValue(c) THEN 2 ELSE 3]

\* The last value of a group is written again for the next one.
AfterValueLateMutant(c) ==
    IF LastValue(c) /\ LastGroup(c)
    THEN Return(c, "ok")
    ELSE /\ pc' = [pc EXCEPT ![c] = "select"]
         /\ at' = [at EXCEPT ![c] = [g |-> @.g, k |-> @.k + 1]]
         /\ UNCHANGED ids
         /\ level' = [level EXCEPT ![c] = 3]

\* The next value of the group, the next group from its application on, or the end.
AfterValue(c) ==
    IF LastValue(c) /\ LastGroup(c)
    THEN Return(c, "ok")
    ELSE /\ pc' = [pc EXCEPT ![c] = "select"]
         /\ at' = [at EXCEPT ![c] = IF LastValue(c) THEN [g |-> @.g + 1, k |-> 1]
                                                    ELSE [g |-> @.g, k |-> @.k + 1]]
         /\ UNCHANGED ids
         /\ level' = [level EXCEPT ![c] = IF LastValue(c) THEN 1 ELSE 3]

InsertValue(c) ==
    /\ pc[c] = "value"
    /\ values' = Append(values, [def |-> ids[c][3], call |-> c, g |-> at[c].g, k |-> at[c].k])
    /\ AfterValue(c)
    /\ UNCHANGED <<rows, disturbed, page>>

\* A value that cannot be stored is passed over.
FailPassesOverMutant(c) ==
    /\ Active(c)
    /\ IF pc[c] = "value" THEN AfterValue(c) ELSE Return(c, "failed")
    /\ UNCHANGED <<database, disturbed, page>>

\* A statement fails, or the process ends: what has been written stays.
Fail(c) ==
    /\ Active(c)
    /\ Return(c, "failed")
    /\ UNCHANGED <<database, disturbed, page>>

Step(c) ==
    \/ SelectFinds(c) \/ SelectFindsNone(c) \/ SelectFails(c)
    \/ Insert(c) \/ InsertValue(c) \/ Fail(c)

-----------------------------------------------------------------------------
(***************************************************************************)
(* The page.                                                               *)
(***************************************************************************)

\* For every definition the value with the least id.
DisplayedOldestMutant(n) ==
    {i \in 1 .. n : \A j \in 1 .. n : values[j].def = values[i].def => i <= j}

\* GET of /api/beacon: for every definition the value with the greatest id, of the
\* values there were.
Displayed(n) ==
    {i \in 1 .. n : \A j \in 1 .. n : values[j].def = values[i].def => j <= i}

\* setInterval(load, 2000): a request, whether or not earlier ones were answered,
\* which GET of /api/beacon answers with one SELECT over all tables.
Load ==
    /\ Len(polls) < MaxPolls
    /\ polls' = Append(polls, Len(values))
    /\ UNCHANGED <<database, calls, shown>>

\* setRows, in the order the answers come.
Answer(i) ==
    /\ i <= Len(polls)
    /\ shown' = polls[i]
    /\ polls' = RemoveAt(polls, i)
    /\ UNCHANGED <<database, calls>>

\* The request fails: the table stays as it is.
LoadFails(i) ==
    /\ i <= Len(polls)
    /\ polls' = RemoveAt(polls, i)
    /\ UNCHANGED <<database, calls, shown>>

Next ==
    \/ \E c \in Calls : Begin(c) \/ Step(c)
    \/ Load
    \/ \E i \in 1 .. MaxPolls : Answer(i) \/ LoadFails(i)

\* A call that has begun goes on; the page, one visit of it, polls on, and its
\* requests do not fail for ever.
Spec ==
    /\ Init /\ [][Next]_vars
    /\ \A c \in Calls : WF_vars(Step(c))
    /\ WF_vars(Load) /\ SF_vars(Answer(1))

-----------------------------------------------------------------------------
(***************************************************************************)
(* Properties.                                                             *)
(***************************************************************************)

\* The types of the variables.
TypeOK ==
    /\ rows \in Seq([level : 1 .. 3, parent : Nat, name : STRING])
    /\ values \in Seq([def : Nat, call : Calls, g : Nat, k : Nat])
    /\ pc \in [Calls -> {"idle", "select", "insert", "value", "ok", "failed"}]
    /\ at \in [Calls -> [g : Nat \ {0}, k : Nat \ {0}]]
    /\ \A c \in Calls : at[c].g <= Len(Work[c]) /\ at[c].k <= Len(Group(c).names)
    /\ level \in [Calls -> 1 .. 3]
    /\ ids \in [Calls -> [1 .. 3 -> Nat]]
    /\ disturbed \in BOOLEAN
    /\ polls \in Seq(0 .. Len(values)) /\ Len(polls) <= MaxPolls
    /\ shown \in {NoTable} \cup (0 .. Len(values))

\* The path of names that leads to the row of a definition.
IsPath(d, app, part, name) ==
    /\ d \in 1 .. Len(rows)
    /\ rows[d].level = 3 /\ rows[d].name = name
    /\ rows[d].parent \in 1 .. Len(rows)
    /\ LET p == rows[rows[d].parent] IN
          /\ p.level = 2 /\ p.name = part
          /\ p.parent \in 1 .. Len(rows)
          /\ rows[p.parent].level = 1 /\ rows[p.parent].name = app

\* However the calls interleave and whichever statements fail, a value is stored
\* under a definition whose part and application exist and are those it was meant
\* for: the page's joins find it, and under the right name.
ValuesInPlace ==
    \A i \in 1 .. Len(values) :
        LET v == values[i] IN
        LET group == Work[v.call][v.g] IN
            IsPath(v.def, group.app, group.part, group.names[v.k])

\* A name has two rows only if two calls overlapped or a SELECT failed.
OneRowPerName ==
    ~disturbed => \A r, s \in 1 .. Len(rows) : rows[r] = rows[s] => r = s

Before(x, y) == x.g < y.g \/ (x.g = y.g /\ x.k < y.k)

\* A call stores a prefix of what it was given, each value once and in order, and
\* says that it succeeded only if it has stored everything.
StoresPrefix ==
    \A c \in Calls :
        LET mine == {i \in 1 .. Len(values) : values[i].call = c} IN
           /\ \A i, j \in mine : i < j => Before(values[i], values[j])
           /\ \A g \in 1 .. Len(Work[c]) : \A k \in 1 .. Len(Work[c][g].names) :
                 (\E i \in mine : values[i].g = g /\ values[i].k = k)
                    <=> pc[c] = "ok" \/ Before([g |-> g, k |-> k], at[c])

SamePath(v, w) ==
    /\ Work[v.call][v.g].app = Work[w.call][w.g].app
    /\ Work[v.call][v.g].part = Work[w.call][w.g].part
    /\ Work[v.call][v.g].names[v.k] = Work[w.call][w.g].names[w.k]

\* When the calls have ended, the page comes to show the newest value of every name
\* for good, although answers overtake one another and may bring older values back
\* for a while, and although a name may have two rows.
PageCatchesUp ==
    <>[](/\ shown # NoTable
         /\ \A i \in 1 .. Len(values) :
               (\A j \in i + 1 .. Len(values) : ~SamePath(values[i], values[j]))
                   => i \in Displayed(shown))
=============================================================================
