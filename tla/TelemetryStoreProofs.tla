------------------------- MODULE TelemetryStoreProofs -------------------------
(***************************************************************************)
(* Proofs about TelemetryStore for any number of calls, whatever each      *)
(* writes, and every order and failure of their statements: a value is     *)
(* always found under the names it was written for, and a name gets a      *)
(* second row only when calls overlap or a SELECT fails.                   *)
(*                                                                         *)
(* Both rest on what a call holds in its variables between statements: the *)
(* path of rows it has looked up so far (HoldsPath), which later rows do   *)
(* not disturb because rows are only added, and, while nothing disturbs    *)
(* it, the knowledge that the row it is about to insert is not there yet   *)
(* (Missing), which no other call can make false (Alone).                  *)
(***************************************************************************)
EXTENDS TelemetryStore, TLAPS

Row   == [level : 1 .. 3, parent : Nat, name : STRING]
Value == [def : Nat, call : Calls, g : Nat, k : Nat]

CallTypes ==
    /\ rows \in Seq(Row)
    /\ values \in Seq(Value)
    /\ pc \in [Calls -> {"idle", "select", "insert", "value", "ok", "failed"}]
    /\ at \in [Calls -> [g : Nat \ {0}, k : Nat \ {0}]]
    /\ \A c \in Calls : at[c].g <= Len(Work[c]) /\ at[c].k <= Len(Group(c).names)
    /\ level \in [Calls -> 1 .. 3]
    /\ ids \in [Calls -> [1 .. 3 -> Nat]]
    /\ disturbed \in BOOLEAN

\* The row i of R is that of the application, of its part, of the part's definition.
IsApp(R, i, app) == i \in 1 .. Len(R) /\ R[i].level = 1 /\ R[i].name = app

IsPart(R, i, app, part) ==
    /\ i \in 1 .. Len(R) /\ R[i].level = 2 /\ R[i].name = part
    /\ IsApp(R, R[i].parent, app)

IsDef(R, i, app, part, name) ==
    /\ i \in 1 .. Len(R) /\ R[i].level = 3 /\ R[i].name = name
    /\ IsPart(R, R[i].parent, app, part)

\* What a call has looked up so far.
Path(c) ==
    /\ ~Active(c) => level[c] = 1
    /\ Active(c) =>
        /\ level[c] >= 2 => IsApp(rows, ids[c][1], Group(c).app)
        /\ level[c] = 3 => IsPart(rows, ids[c][2], Group(c).app, Group(c).part)
        /\ pc[c] = "value" =>
              /\ level[c] = 3
              /\ IsDef(rows, ids[c][3], Group(c).app, Group(c).part, Group(c).names[at[c].k])

HoldsPath == \A c \in Calls : Path(c)

Alone == ~disturbed => \A c, d \in Calls : Active(c) /\ Active(d) => c = d

Missing ==
    ~disturbed => \A c \in Calls : pc[c] = "insert" =>
                      \A r \in 1 .. Len(rows) : rows[r] # Wanted(c)

IInv == CallTypes /\ HoldsPath /\ ValuesInPlace /\ Alone /\ Missing /\ OneRowPerName

-----------------------------------------------------------------------------
(***************************************************************************)
(* Rows and groups.                                                        *)
(***************************************************************************)

\* Adding a row disturbs no path.
LEMMA PathKept ==
    ASSUME NEW R \in Seq(Row), NEW row \in Row, NEW i, NEW app, NEW part, NEW name
    PROVE  /\ IsApp(R, i, app) => IsApp(Append(R, row), i, app)
           /\ IsPart(R, i, app, part) => IsPart(Append(R, row), i, app, part)
           /\ IsDef(R, i, app, part, name) => IsDef(Append(R, row), i, app, part, name)
<1>1. /\ Len(Append(R, row)) = Len(R) + 1 /\ Len(R) \in Nat
      /\ \A j \in 1 .. Len(R) : j \in 1 .. Len(Append(R, row)) /\ Append(R, row)[j] = R[j]
  OBVIOUS
<1>2. ASSUME NEW j, IsApp(R, j, app) PROVE IsApp(Append(R, row), j, app)
  BY <1>1, <1>2 DEF IsApp
<1>3. ASSUME NEW j, IsPart(R, j, app, part) PROVE IsPart(Append(R, row), j, app, part)
  BY <1>1, <1>2, <1>3 DEF IsPart
<1>4. ASSUME IsDef(R, i, app, part, name) PROVE IsDef(Append(R, row), i, app, part, name)
  BY <1>1, <1>3, <1>4 DEF IsDef
<1>5. QED
  BY <1>2, <1>3, <1>4

\* What a call is given: groups of a part's names.
LEMMA Groups ==
    ASSUME NEW c \in Calls
    PROVE  /\ Len(Work[c]) \in Nat \ {0}
           /\ \A g \in 1 .. Len(Work[c]) :
                 /\ Work[c][g] \in [app : STRING, part : STRING, names : Seq(STRING)]
                 /\ Len(Work[c][g].names) \in Nat \ {0}
<1>1. Work[c] \in Seq([app : STRING, part : STRING, names : Seq(STRING)])
  BY StoreAssumption
<1>2. ASSUME NEW T, NEW q \in Seq(T), NEW i \in 1 .. Len(q) PROVE q[i] \in T
  OBVIOUS
<1>3. ASSUME NEW g \in 1 .. Len(Work[c])
      PROVE  /\ Work[c][g] \in [app : STRING, part : STRING, names : Seq(STRING)]
             /\ Len(Work[c][g].names) \in Nat \ {0}
  <2>1. Work[c][g] \in [app : STRING, part : STRING, names : Seq(STRING)]
    BY <1>1, <1>2
  <2>2. Len(Work[c][g].names) > 0
    BY StoreAssumption
  <2>3. QED
    BY <2>1, <2>2
<1>4. Len(Work[c]) \in Nat \ {0}
  BY <1>1, StoreAssumption
<1>5. QED
  BY <1>3, <1>4

\* The group a call is writing, and what it looks up.
LEMMA Lookup ==
    ASSUME CallTypes, NEW c \in Calls
    PROVE  /\ Group(c) \in [app : STRING, part : STRING, names : Seq(STRING)]
           /\ Group(c).names[at[c].k] \in STRING
           /\ Wanted(c) \in Row
           /\ Wanted(c).level = level[c]
           /\ level[c] \in 1 .. 3
           /\ level[c] > 1 => Wanted(c).parent = ids[c][level[c] - 1]
           /\ level[c] = 1 => Wanted(c).name = Group(c).app
           /\ level[c] = 2 => Wanted(c).name = Group(c).part
           /\ level[c] = 3 => Wanted(c).name = Group(c).names[at[c].k]
<1>1. at[c].g \in Nat \ {0} /\ at[c].k \in Nat \ {0}
  BY DEF CallTypes
<1>2. Group(c) \in [app : STRING, part : STRING, names : Seq(STRING)]
  <2>1. at[c].g \in 1 .. Len(Work[c])
    BY <1>1, Groups DEF CallTypes
  <2>2. QED
    BY <2>1, Groups DEF Group
<1>3. Group(c).names[at[c].k] \in STRING
  BY <1>1, <1>2 DEF CallTypes
<1>4. level[c] \in 1 .. 3 /\ ids[c] \in [1 .. 3 -> Nat]
  BY DEF CallTypes
<1>5. level[c] = 1 \/ level[c] = 2 \/ level[c] = 3
  BY <1>4
<1>6. /\ Wanted(c).level = level[c]
      /\ level[c] > 1 => Wanted(c).parent = ids[c][level[c] - 1]
      /\ level[c] = 1 => Wanted(c).parent = 0
      /\ level[c] = 1 => Wanted(c).name = Group(c).app
      /\ level[c] = 2 => Wanted(c).name = Group(c).part
      /\ level[c] = 3 => Wanted(c).name = Group(c).names[at[c].k]
  BY <1>5 DEF Wanted
<1>7. Wanted(c).parent \in Nat /\ Wanted(c).name \in STRING
  BY <1>2, <1>3, <1>4, <1>5, <1>6
<1>8. Wanted(c) \in Row
  BY <1>4, <1>6, <1>7 DEF Wanted, Row
<1>9. QED
  BY <1>2, <1>3, <1>4, <1>6, <1>8

RowsGrow == rows' = rows \/ \E row \in Row : rows' = Append(rows, row)

\* What a path is among the rows, it is among the rows and more.
LEMMA GrowKeeps ==
    ASSUME CallTypes, RowsGrow, NEW i, NEW app, NEW part, NEW name
    PROVE  /\ IsApp(rows, i, app) => IsApp(rows', i, app)
           /\ IsPart(rows, i, app, part) => IsPart(rows', i, app, part)
           /\ IsDef(rows, i, app, part, name) => IsDef(rows', i, app, part, name)
<1>1. CASE rows' = rows
  BY <1>1
<1>2. ASSUME NEW row \in Row, rows' = Append(rows, row)
      PROVE  /\ IsApp(rows, i, app) => IsApp(rows', i, app)
             /\ IsPart(rows, i, app, part) => IsPart(rows', i, app, part)
             /\ IsDef(rows, i, app, part, name) => IsDef(rows', i, app, part, name)
  <2>1. rows \in Seq(Row)
    BY DEF CallTypes
  <2>2. QED
    BY <1>2, <2>1, PathKept
<1>3. QED
  BY <1>1, <1>2 DEF RowsGrow

\* A call keeps its path while others add rows.
LEMMA PathStays ==
    ASSUME CallTypes, RowsGrow, NEW c \in Calls, Path(c),
           pc'[c] = pc[c], at'[c] = at[c], level'[c] = level[c], ids'[c] = ids[c]
    PROVE  Path(c)'
<1>1. Active(c)' = Active(c) /\ Group(c)' = Group(c)
  BY DEF Active, Group
<1>2. QED
  BY <1>1, GrowKeeps DEF Path

\* So do the values that are there.
LEMMA ValuesStay ==
    ASSUME CallTypes, RowsGrow, ValuesInPlace, values' = values
    PROVE  ValuesInPlace'
<1> SUFFICES ASSUME NEW i \in 1 .. Len(values)
             PROVE  IsDef(rows', values[i].def, Work[values[i].call][values[i].g].app,
                          Work[values[i].call][values[i].g].part,
                          Work[values[i].call][values[i].g].names[values[i].k])
  BY DEF ValuesInPlace, IsPath, IsDef, IsPart, IsApp
<1>1. IsDef(rows, values[i].def, Work[values[i].call][values[i].g].app,
            Work[values[i].call][values[i].g].part,
            Work[values[i].call][values[i].g].names[values[i].k])
  BY DEF ValuesInPlace, IsPath, IsDef, IsPart, IsApp
<1>2. QED
  BY <1>1, GrowKeeps

-----------------------------------------------------------------------------
(***************************************************************************)
(* The steps of a call.                                                    *)
(***************************************************************************)

\* Going on with the row of the level extends the path.
LEMMA GoOnStep ==
    ASSUME CallTypes, RowsGrow, NEW c \in Calls, Path(c), pc[c] \in {"select", "insert"},
           NEW r \in 1 .. Len(rows'), rows'[r] = Wanted(c), GoOn(c, r), rows' \in Seq(Row)
    PROVE  /\ Path(c)'
           /\ pc' \in [Calls -> {"idle", "select", "insert", "value", "ok", "failed"}]
           /\ level' \in [Calls -> 1 .. 3] /\ ids' \in [Calls -> [1 .. 3 -> Nat]]
           /\ at' = at /\ pc'[c] \in {"select", "value"}
           /\ \A d \in Calls \ {c} :
                 pc'[d] = pc[d] /\ level'[d] = level[d] /\ ids'[d] = ids[d]
<1>1. /\ level[c] \in 1 .. 3 /\ ids[c] \in [1 .. 3 -> Nat] /\ r \in Nat
      /\ level \in [Calls -> 1 .. 3] /\ ids \in [Calls -> [1 .. 3 -> Nat]]
      /\ pc \in [Calls -> {"idle", "select", "insert", "value", "ok", "failed"}]
  BY DEF CallTypes
<1>2. /\ ids' = [ids EXCEPT ![c][level[c]] = r] /\ at' = at
      /\ level[c] = 3 => pc' = [pc EXCEPT ![c] = "value"] /\ level' = level
      /\ level[c] # 3 => /\ pc' = [pc EXCEPT ![c] = "select"]
                         /\ level' = [level EXCEPT ![c] = @ + 1]
  BY DEF GoOn
<1>3. /\ ids' \in [Calls -> [1 .. 3 -> Nat]] /\ ids'[c][level[c]] = r
      /\ \A l \in 1 .. 3 : l # level[c] => ids'[c][l] = ids[c][l]
  BY <1>1, <1>2
<1>4. /\ level' \in [Calls -> 1 .. 3]
      /\ pc' \in [Calls -> {"idle", "select", "insert", "value", "ok", "failed"}]
      /\ level'[c] = IF level[c] = 3 THEN 3 ELSE level[c] + 1
      /\ pc'[c] = IF level[c] = 3 THEN "value" ELSE "select"
  <2>1. CASE level[c] = 3
    BY <1>1, <1>2, <2>1
  <2>2. CASE level[c] # 3
    <3>1. level[c] + 1 \in 1 .. 3
      BY <1>1, <2>2
    <3>2. QED
      BY <1>1, <1>2, <2>2, <3>1
  <2>3. QED
    BY <2>1, <2>2
<1>5. \A d \in Calls \ {c} : pc'[d] = pc[d] /\ level'[d] = level[d] /\ ids'[d] = ids[d]
  BY <1>1, <1>2
<1>6. /\ rows'[r].level = level[c]
      /\ level[c] > 1 => rows'[r].parent = ids[c][level[c] - 1]
      /\ level[c] = 1 => rows'[r].name = Group(c).app
      /\ level[c] = 2 => rows'[r].name = Group(c).part
      /\ level[c] = 3 => rows'[r].name = Group(c).names[at[c].k]
  BY Lookup
<1>7. /\ level[c] >= 2 => IsApp(rows', ids[c][1], Group(c).app)
      /\ level[c] = 3 => IsPart(rows', ids[c][2], Group(c).app, Group(c).part)
  <2>1. /\ level[c] >= 2 => IsApp(rows, ids[c][1], Group(c).app)
        /\ level[c] = 3 => IsPart(rows, ids[c][2], Group(c).app, Group(c).part)
    BY DEF Path, Active
  <2>2. QED
    BY <2>1, GrowKeeps
<1>8. Group(c)' = Group(c) /\ at'[c].k = at[c].k
  BY <1>2 DEF Group
<1>9. Path(c)'
  <2>1. CASE level[c] = 1
    <3>1. IsApp(rows', r, Group(c).app)
      BY <1>6, <2>1 DEF IsApp
    <3>2. level'[c] = 2 /\ pc'[c] = "select" /\ ids'[c][1] = r
      BY <1>3, <1>4, <2>1
    <3>3. QED
      BY <1>8, <3>1, <3>2 DEF Path, Active
  <2>2. CASE level[c] = 2
    <3>1. IsPart(rows', r, Group(c).app, Group(c).part)
      BY <1>6, <1>7, <2>2 DEF IsPart
    <3>2. level'[c] = 3 /\ pc'[c] = "select" /\ ids'[c][2] = r /\ ids'[c][1] = ids[c][1]
      BY <1>3, <1>4, <2>2
    <3>3. QED
      BY <1>7, <1>8, <2>2, <3>1, <3>2 DEF Path, Active
  <2>3. CASE level[c] = 3
    <3>1. IsDef(rows', r, Group(c).app, Group(c).part, Group(c).names[at[c].k])
      BY <1>6, <1>7, <2>3 DEF IsDef
    <3>2. /\ level'[c] = 3 /\ pc'[c] = "value" /\ ids'[c][3] = r
          /\ ids'[c][1] = ids[c][1] /\ ids'[c][2] = ids[c][2]
      BY <1>3, <1>4, <2>3
    <3>3. QED
      BY <1>7, <1>8, <2>3, <3>1, <3>2 DEF Path, Active
  <2>4. QED
    BY <1>1, <2>1, <2>2, <2>3
<1>10. QED
  BY <1>2, <1>3, <1>4, <1>5, <1>9

\* A call stays where it is in its work.
LEMMA AtKept ==
    ASSUME CallTypes, at' = at
    PROVE  /\ at' \in [Calls -> [g : Nat \ {0}, k : Nat \ {0}]]
           /\ \A c \in Calls : at'[c].g <= Len(Work[c]) /\ at'[c].k <= Len(Group(c)'.names)
           /\ \A c \in Calls : Group(c)' = Group(c)
  BY DEF CallTypes, Group

\* A call about to insert while nothing disturbs it is the only one.
LEMMA OnlyOne ==
    ASSUME IInv, ~disturbed, NEW c \in Calls, Active(c), NEW d \in Calls, d # c
    PROVE  ~Active(d)
  BY DEF IInv, Alone

\* A SELECT that finds a row.
LEMMA FindsStep == ASSUME IInv, NEW c \in Calls, SelectFinds(c) PROVE IInv'
<1>1. PICK r \in 1 .. Len(rows) : rows[r] = Wanted(c) /\ GoOn(c, r)
  BY DEF SelectFinds
<1>2. UNCHANGED <<rows, values, disturbed>> /\ pc[c] = "select"
  BY DEF SelectFinds, database
<1>3. CallTypes /\ RowsGrow /\ Path(c) /\ rows' \in Seq(Row)
  BY <1>2 DEF IInv, HoldsPath, RowsGrow, CallTypes
<1>4. /\ Path(c)'
      /\ pc' \in [Calls -> {"idle", "select", "insert", "value", "ok", "failed"}]
      /\ level' \in [Calls -> 1 .. 3] /\ ids' \in [Calls -> [1 .. 3 -> Nat]]
      /\ at' = at /\ pc'[c] \in {"select", "value"}
      /\ \A d \in Calls \ {c} : pc'[d] = pc[d] /\ level'[d] = level[d] /\ ids'[d] = ids[d]
  BY <1>1, <1>2, <1>3, GoOnStep
<1>5. CallTypes'
  BY <1>2, <1>3, <1>4, AtKept DEF CallTypes
<1>6. HoldsPath'
  BY <1>3, <1>4, PathStays DEF IInv, HoldsPath
<1>7. ValuesInPlace'
  BY <1>2, <1>3, ValuesStay DEF IInv
<1>8. \A d \in Calls : Active(d)' => Active(d)
  BY <1>2, <1>4 DEF Active
<1>9. Alone'
  BY <1>2, <1>8 DEF IInv, Alone
<1>10. Missing'
  <2> SUFFICES ASSUME ~disturbed, NEW d \in Calls, pc'[d] = "insert", NEW j \in 1 .. Len(rows)
               PROVE  rows[j] # Wanted(d)'
    BY <1>2 DEF Missing
  <2>1. d # c /\ pc[d] = "insert" /\ level'[d] = level[d] /\ ids'[d] = ids[d]
    BY <1>4
  <2>2. Wanted(d)' = Wanted(d)
    BY <1>3, <1>4, <2>1, AtKept DEF Wanted
  <2>3. QED
    BY <2>1, <2>2 DEF IInv, Missing
<1>11. OneRowPerName'
  BY <1>2 DEF IInv, OneRowPerName
<1>12. QED
  BY <1>5, <1>6, <1>7, <1>9, <1>10, <1>11 DEF IInv

\* A SELECT that finds nothing, or fails.
LEMMA FindsNothingStep ==
    ASSUME IInv, NEW c \in Calls, SelectFindsNone(c) \/ SelectFails(c)
    PROVE  IInv'
<1>1. /\ UNCHANGED <<rows, values, at, level, ids>> /\ pc[c] = "select"
      /\ pc' = [pc EXCEPT ![c] = "insert"]
  BY DEF SelectFindsNone, SelectFails, database
<1>2. disturbed' = disturbed \/ disturbed' = TRUE
  BY DEF SelectFindsNone, SelectFails
<1>3. CallTypes /\ RowsGrow
  BY <1>1 DEF IInv, RowsGrow
<1>4. /\ pc' \in [Calls -> {"idle", "select", "insert", "value", "ok", "failed"}]
      /\ pc'[c] = "insert" /\ \A d \in Calls \ {c} : pc'[d] = pc[d]
  BY <1>1, <1>3 DEF CallTypes
<1>5. CallTypes'
  BY <1>1, <1>2, <1>3, <1>4, AtKept DEF CallTypes
<1>6. Group(c)' = Group(c) /\ \A d \in Calls : Wanted(d)' = Wanted(d)
  BY <1>1 DEF Group, Wanted
<1>7. Path(c)'
  BY <1>1, <1>4, <1>6 DEF IInv, HoldsPath, Path, Active
<1>8. HoldsPath'
  BY <1>1, <1>3, <1>4, <1>7, PathStays DEF IInv, HoldsPath
<1>9. ValuesInPlace'
  BY <1>1, <1>3, ValuesStay DEF IInv
<1>10. Alone'
  BY <1>1, <1>2, <1>4 DEF IInv, Alone, Active
<1>11. Missing'
  <2> SUFFICES ASSUME ~disturbed', NEW d \in Calls, pc'[d] = "insert", NEW j \in 1 .. Len(rows)
               PROVE  rows[j] # Wanted(d)
    BY <1>1, <1>6 DEF Missing
  <2>1. ~disturbed /\ SelectFindsNone(c)
    BY <1>2 DEF SelectFails
  <2>2. CASE d = c
    BY <2>1, <2>2 DEF SelectFindsNone
  <2>3. CASE d # c
    BY <1>4, <2>1, <2>3 DEF IInv, Missing
  <2>4. QED
    BY <2>2, <2>3
<1>12. OneRowPerName'
  BY <1>1, <1>2 DEF IInv, OneRowPerName
<1>13. QED
  BY <1>5, <1>8, <1>9, <1>10, <1>11, <1>12 DEF IInv

\* An INSERT of a row.
LEMMA InsertStep == ASSUME IInv, NEW c \in Calls, Insert(c) PROVE IInv'
<1>1. /\ UNCHANGED <<values, disturbed>> /\ pc[c] = "insert"
      /\ rows' = Append(rows, Wanted(c)) /\ GoOn(c, Len(rows) + 1)
  BY DEF Insert
<1>2. CallTypes /\ Path(c) /\ Wanted(c) \in Row /\ rows \in Seq(Row)
  BY Lookup DEF IInv, HoldsPath, CallTypes
<1>3. /\ rows' \in Seq(Row) /\ Len(rows') = Len(rows) + 1 /\ Len(rows) \in Nat
      /\ rows'[Len(rows) + 1] = Wanted(c)
      /\ \A j \in 1 .. Len(rows) : rows'[j] = rows[j]
  BY <1>1, <1>2
<1>4. RowsGrow /\ Len(rows) + 1 \in 1 .. Len(rows')
  BY <1>1, <1>2, <1>3 DEF RowsGrow
<1>5. /\ Path(c)'
      /\ pc' \in [Calls -> {"idle", "select", "insert", "value", "ok", "failed"}]
      /\ level' \in [Calls -> 1 .. 3] /\ ids' \in [Calls -> [1 .. 3 -> Nat]]
      /\ at' = at /\ pc'[c] \in {"select", "value"}
      /\ \A d \in Calls \ {c} : pc'[d] = pc[d] /\ level'[d] = level[d] /\ ids'[d] = ids[d]
  BY <1>1, <1>2, <1>3, <1>4, GoOnStep
<1>6. CallTypes'
  BY <1>1, <1>2, <1>3, <1>5, AtKept DEF CallTypes
<1>7. HoldsPath'
  BY <1>2, <1>4, <1>5, PathStays DEF IInv, HoldsPath
<1>8. ValuesInPlace'
  BY <1>1, <1>2, <1>4, ValuesStay DEF IInv
<1>9. Active(c) /\ \A d \in Calls : Active(d)' => Active(d)
  BY <1>1, <1>5 DEF Active
<1>10. Alone'
  BY <1>1, <1>9 DEF IInv, Alone
<1>11. Missing'
  <2> SUFFICES ASSUME ~disturbed, NEW d \in Calls, pc'[d] = "insert" PROVE FALSE
    BY <1>1 DEF Missing
  <2>1. d # c /\ Active(d)
    BY <1>5 DEF Active
  <2>2. QED
    BY <1>9, <2>1, OnlyOne
<1>12. OneRowPerName'
  <2> SUFFICES ASSUME ~disturbed, NEW i \in 1 .. Len(rows'), NEW j \in 1 .. Len(rows'),
                      rows'[i] = rows'[j]
               PROVE  i = j
    BY <1>1 DEF OneRowPerName
  <2>1. \A n \in 1 .. Len(rows) : rows[n] # Wanted(c)
    BY <1>1 DEF IInv, Missing
  <2>2. (i = Len(rows) + 1 \/ i \in 1 .. Len(rows)) /\ (j = Len(rows) + 1 \/ j \in 1 .. Len(rows))
    BY <1>3
  <2>3. QED
    BY <1>3, <2>1, <2>2 DEF IInv, OneRowPerName
<1>13. QED
  BY <1>6, <1>7, <1>8, <1>10, <1>11, <1>12 DEF IInv

\* A call begins.
LEMMA BeginStep == ASSUME IInv, NEW c \in Calls, Begin(c) PROVE IInv'
<1>1. /\ UNCHANGED <<rows, values, at, level, ids>> /\ pc[c] = "idle"
      /\ pc' = [pc EXCEPT ![c] = "select"]
      /\ disturbed' = (disturbed \/ \E b \in Calls : Active(b))
  BY DEF Begin, database
<1>2. CallTypes /\ RowsGrow
  BY <1>1 DEF IInv, RowsGrow
<1>3. /\ pc' \in [Calls -> {"idle", "select", "insert", "value", "ok", "failed"}]
      /\ pc'[c] = "select" /\ \A d \in Calls \ {c} : pc'[d] = pc[d]
  BY <1>1, <1>2 DEF CallTypes
<1>4. disturbed' \in BOOLEAN
  BY <1>1
<1>5. CallTypes'
  BY <1>1, <1>2, <1>3, <1>4, AtKept DEF CallTypes
<1>6. Path(c)'
  BY <1>1, <1>3 DEF IInv, HoldsPath, Path, Active
<1>7. HoldsPath'
  BY <1>1, <1>2, <1>3, <1>6, PathStays DEF IInv, HoldsPath
<1>8. ValuesInPlace'
  BY <1>1, <1>2, ValuesStay DEF IInv
<1>9. ~disturbed' => ~disturbed /\ \A b \in Calls : ~Active(b)
  BY <1>1
<1>10. Alone'
  BY <1>3, <1>9 DEF Alone, Active
<1>11. Missing'
  BY <1>3, <1>9 DEF Missing, Active
<1>12. OneRowPerName'
  BY <1>1, <1>9 DEF IInv, OneRowPerName
<1>13. QED
  BY <1>5, <1>7, <1>8, <1>10, <1>11, <1>12 DEF IInv

\* When a call moves on without adding a row, only its own path is in question.
LEMMA MovesOn ==
    ASSUME IInv, NEW c \in Calls, Active(c), UNCHANGED <<rows, disturbed>>,
           CallTypes', ValuesInPlace', Path(c)', pc'[c] # "insert",
           \A d \in Calls \ {c} :
              /\ pc'[d] = pc[d] /\ at'[d] = at[d]
              /\ level'[d] = level[d] /\ ids'[d] = ids[d]
    PROVE  IInv'
<1>1. CallTypes /\ RowsGrow
  BY DEF IInv, RowsGrow
<1>2. HoldsPath'
  BY <1>1, PathStays DEF IInv, HoldsPath
<1>3. \A d \in Calls : Active(d)' => Active(d)
  BY DEF Active
<1>4. Alone'
  BY <1>3 DEF IInv, Alone
<1>5. Missing'
  <2> SUFFICES ASSUME ~disturbed, NEW d \in Calls, pc'[d] = "insert" PROVE FALSE
    BY DEF Missing
  <2>1. d # c /\ Active(d)
    BY DEF Active
  <2>2. QED
    BY <2>1, OnlyOne
<1>6. OneRowPerName'
  BY DEF IInv, OneRowPerName
<1>7. QED
  BY <1>2, <1>4, <1>5, <1>6 DEF IInv

\* What a return leaves.
LEMMA Returned ==
    ASSUME CallTypes, NEW c \in Calls, NEW result \in {"ok", "failed"}, Return(c, result)
    PROVE  /\ pc' \in [Calls -> {"idle", "select", "insert", "value", "ok", "failed"}]
           /\ level' \in [Calls -> 1 .. 3] /\ ids' \in [Calls -> [1 .. 3 -> Nat]]
           /\ at' = at /\ Path(c)' /\ pc'[c] # "insert"
           /\ \A d \in Calls \ {c} :
                 pc'[d] = pc[d] /\ level'[d] = level[d] /\ ids'[d] = ids[d]
<1>1. NoIds \in [1 .. 3 -> Nat]
  BY DEF NoIds
<1>2. /\ pc' = [pc EXCEPT ![c] = result] /\ level' = [level EXCEPT ![c] = 1]
      /\ ids' = [ids EXCEPT ![c] = NoIds] /\ at' = at
  BY DEF Return
<1>3. pc'[c] = result /\ level'[c] = 1
  BY <1>2 DEF CallTypes
<1>4. Path(c)'
  BY <1>3 DEF Path, Active
<1>5. QED
  BY <1>1, <1>2, <1>3, <1>4 DEF CallTypes

\* A call fails.
LEMMA FailStep == ASSUME IInv, NEW c \in Calls, Fail(c) PROVE IInv'
<1>1. Active(c) /\ Return(c, "failed") /\ UNCHANGED <<rows, values, disturbed>>
  BY DEF Fail, database
<1>2. CallTypes /\ RowsGrow
  BY <1>1 DEF IInv, RowsGrow
<1>3. /\ pc' \in [Calls -> {"idle", "select", "insert", "value", "ok", "failed"}]
      /\ level' \in [Calls -> 1 .. 3] /\ ids' \in [Calls -> [1 .. 3 -> Nat]]
      /\ at' = at /\ Path(c)' /\ pc'[c] # "insert"
      /\ \A d \in Calls \ {c} : pc'[d] = pc[d] /\ level'[d] = level[d] /\ ids'[d] = ids[d]
  BY <1>1, <1>2, Returned
<1>4. CallTypes'
  BY <1>1, <1>2, <1>3, AtKept DEF CallTypes
<1>5. ValuesInPlace'
  BY <1>1, <1>2, ValuesStay DEF IInv
<1>6. QED
  BY <1>1, <1>3, <1>4, <1>5, MovesOn

\* After a value: where the call goes on, and that its path is the one it needs there.
LEMMA WritesOn ==
    ASSUME IInv, NEW c \in Calls, pc[c] = "value", AfterValue(c), rows' = rows
    PROVE  /\ pc' \in [Calls -> {"idle", "select", "insert", "value", "ok", "failed"}]
           /\ at' \in [Calls -> [g : Nat \ {0}, k : Nat \ {0}]]
           /\ \A d \in Calls : at'[d].g <= Len(Work[d]) /\ at'[d].k <= Len(Group(d)'.names)
           /\ level' \in [Calls -> 1 .. 3] /\ ids' \in [Calls -> [1 .. 3 -> Nat]]
           /\ Path(c)' /\ pc'[c] # "insert"
           /\ \A d \in Calls \ {c} :
                 /\ pc'[d] = pc[d] /\ at'[d] = at[d]
                 /\ level'[d] = level[d] /\ ids'[d] = ids[d]
<1>1. CallTypes
  BY DEF IInv
<1>2. CASE LastValue(c) /\ LastGroup(c)
  <2>1. Return(c, "ok")
    BY <1>2 DEF AfterValue
  <2>2. QED
    BY <1>1, <2>1, Returned, AtKept
<1>3. CASE ~(LastValue(c) /\ LastGroup(c))
  <2> DEFINE next == IF LastValue(c) THEN [g |-> at[c].g + 1, k |-> 1]
                                     ELSE [g |-> at[c].g, k |-> at[c].k + 1]
             lev  == IF LastValue(c) THEN 1 ELSE 3
  <2>1. /\ pc' = [pc EXCEPT ![c] = "select"] /\ at' = [at EXCEPT ![c] = next]
        /\ ids' = ids /\ level' = [level EXCEPT ![c] = lev]
    BY <1>3 DEF AfterValue
  <2>2. /\ at[c] \in [g : Nat \ {0}, k : Nat \ {0}]
        /\ at[c].g <= Len(Work[c]) /\ at[c].k <= Len(Work[c][at[c].g].names)
        /\ Group(c) = Work[c][at[c].g]
    BY <1>1 DEF CallTypes, Group
  <2>3. Len(Work[c]) \in Nat
    BY Groups
  <2>4. /\ next \in [g : Nat \ {0}, k : Nat \ {0}]
        /\ next.g <= Len(Work[c]) /\ next.k <= Len(Work[c][next.g].names)
    <3>1. CASE LastValue(c)
      <4>1. at[c].g # Len(Work[c]) /\ next = [g |-> at[c].g + 1, k |-> 1]
        BY <1>3, <3>1 DEF LastGroup
      <4>2. at[c].g + 1 \in 1 .. Len(Work[c])
        BY <2>2, <2>3, <4>1
      <4>3. Len(Work[c][at[c].g + 1].names) \in Nat \ {0}
        BY <4>2, Groups
      <4>4. QED
        BY <2>2, <2>3, <4>1, <4>2, <4>3
    <3>2. CASE ~LastValue(c)
      <4>1. /\ at[c].k # Len(Work[c][at[c].g].names)
            /\ next = [g |-> at[c].g, k |-> at[c].k + 1]
        BY <2>2, <3>2 DEF LastValue
      <4>2. next.g = at[c].g /\ next.k = at[c].k + 1
            /\ next \in [g : Nat \ {0}, k : Nat \ {0}]
        BY <2>2, <4>1
      <4>3. at[c].g \in 1 .. Len(Work[c])
        BY <2>2, <2>3
      <4>4. Len(Work[c][at[c].g].names) \in Nat
        BY <4>3, Groups
      <4>5. next.k <= Len(Work[c][at[c].g].names)
        BY <2>2, <4>1, <4>2, <4>4
      <4>6. QED
        BY <2>2, <4>2, <4>5
    <3>3. QED
      BY <3>1, <3>2
  <2>5. /\ at' \in [Calls -> [g : Nat \ {0}, k : Nat \ {0}]] /\ at'[c] = next
        /\ level' \in [Calls -> 1 .. 3] /\ level'[c] = lev
        /\ pc' \in [Calls -> {"idle", "select", "insert", "value", "ok", "failed"}]
        /\ pc'[c] = "select" /\ ids' \in [Calls -> [1 .. 3 -> Nat]]
        /\ \A d \in Calls \ {c} :
              pc'[d] = pc[d] /\ at'[d] = at[d] /\ level'[d] = level[d] /\ ids'[d] = ids[d]
    <3>1. lev \in 1 .. 3
      OBVIOUS
    <3> HIDE DEF next, lev
    <3>2. QED
      BY <1>1, <2>1, <2>4, <3>1 DEF CallTypes
  <2> HIDE DEF next
  <2>6. \A d \in Calls : at'[d].g <= Len(Work[d]) /\ at'[d].k <= Len(Group(d)'.names)
    BY <1>1, <2>4, <2>5 DEF CallTypes, Group
  <2>7. Path(c)'
    <3>1. CASE LastValue(c)
      BY <2>5, <3>1 DEF Path, Active
    <3>2. CASE ~LastValue(c)
      <4>1. level[c] = 3 /\ IsApp(rows, ids[c][1], Group(c).app)
            /\ IsPart(rows, ids[c][2], Group(c).app, Group(c).part)
        <5>1. Path(c) /\ Active(c) /\ level[c] \in 1 .. 3
          BY <1>1 DEF IInv, HoldsPath, Active, CallTypes
        <5>2. QED
          BY <5>1 DEF Path
      <4>2. next.g = at[c].g
        BY <3>2, <2>2 DEF next
      <4>3. Group(c)' = Group(c) /\ ids'[c] = ids[c]
        BY <2>1, <2>5, <4>2 DEF Group
      <4>4. QED
        BY <2>5, <4>1, <4>3 DEF Path, Active
    <3>3. QED
      BY <3>1, <3>2
  <2>8. QED
    BY <2>5, <2>6, <2>7
<1>4. QED
  BY <1>2, <1>3

\* A value is inserted.
LEMMA ValueStep == ASSUME IInv, NEW c \in Calls, InsertValue(c) PROVE IInv'
<1> DEFINE new == [def |-> ids[c][3], call |-> c, g |-> at[c].g, k |-> at[c].k]
<1>1. /\ pc[c] = "value" /\ values' = Append(values, new) /\ AfterValue(c)
      /\ UNCHANGED <<rows, disturbed>>
  BY DEF InsertValue
<1>2. CallTypes /\ Path(c) /\ Active(c)
  BY <1>1 DEF IInv, HoldsPath, Active
<1>3. /\ pc' \in [Calls -> {"idle", "select", "insert", "value", "ok", "failed"}]
      /\ at' \in [Calls -> [g : Nat \ {0}, k : Nat \ {0}]]
      /\ \A d \in Calls : at'[d].g <= Len(Work[d]) /\ at'[d].k <= Len(Group(d)'.names)
      /\ level' \in [Calls -> 1 .. 3] /\ ids' \in [Calls -> [1 .. 3 -> Nat]]
      /\ Path(c)' /\ pc'[c] # "insert"
      /\ \A d \in Calls \ {c} :
            /\ pc'[d] = pc[d] /\ at'[d] = at[d]
            /\ level'[d] = level[d] /\ ids'[d] = ids[d]
  BY <1>1, WritesOn
<1>4. new \in Value /\ values \in Seq(Value)
  BY <1>2 DEF CallTypes, Value
<1> HIDE DEF new
<1>5. /\ values' \in Seq(Value) /\ Len(values) \in Nat /\ Len(values') = Len(values) + 1
      /\ values'[Len(values) + 1] = new
      /\ \A i \in 1 .. Len(values) : values'[i] = values[i]
  BY <1>1, <1>4
<1>6. CallTypes'
  BY <1>1, <1>2, <1>3, <1>5 DEF CallTypes
<1>7. IsDef(rows, ids[c][3], Group(c).app, Group(c).part, Group(c).names[at[c].k])
  BY <1>1, <1>2 DEF Path
<1>8. IsPath(ids[c][3], Group(c).app, Group(c).part, Group(c).names[at[c].k])
  BY <1>7 DEF IsPath, IsDef, IsPart, IsApp
<1>9. ValuesInPlace'
  <2> SUFFICES ASSUME NEW i \in 1 .. Len(values')
               PROVE  IsPath(values'[i].def, Work[values'[i].call][values'[i].g].app,
                             Work[values'[i].call][values'[i].g].part,
                             Work[values'[i].call][values'[i].g].names[values'[i].k])
    BY <1>1 DEF ValuesInPlace, IsPath
  <2>1. CASE i = Len(values) + 1
    <3>1. values'[i] = new
      BY <1>5, <2>1
    <3>2. /\ values'[i].def = ids[c][3] /\ values'[i].call = c
          /\ values'[i].g = at[c].g /\ values'[i].k = at[c].k
      BY <3>1 DEF new
    <3>3. Group(c) = Work[c][at[c].g]
      BY DEF Group
    <3>4. QED
      BY <1>8, <3>2, <3>3
  <2>2. CASE i \in 1 .. Len(values)
    BY <1>5, <2>2 DEF IInv, ValuesInPlace
  <2>3. QED
    BY <1>5, <2>1, <2>2
<1>10. QED
  BY <1>1, <1>2, <1>3, <1>6, <1>9, MovesOn

-----------------------------------------------------------------------------
(***************************************************************************)
(* The specification.                                                      *)
(***************************************************************************)

LEMMA Start == ASSUME Init PROVE IInv
<1>1. /\ rows = <<>> /\ values = <<>> /\ disturbed = FALSE
      /\ pc = [c \in Calls |-> "idle"] /\ level = [c \in Calls |-> 1]
      /\ at = [c \in Calls |-> [g |-> 1, k |-> 1]] /\ ids = [c \in Calls |-> NoIds]
  BY DEF Init
<1>2. NoIds \in [1 .. 3 -> Nat]
  BY DEF NoIds
<1>3. \A c \in Calls : at[c].g <= Len(Work[c]) /\ at[c].k <= Len(Group(c).names)
  <2> SUFFICES ASSUME NEW c \in Calls PROVE 1 <= Len(Work[c]) /\ 1 <= Len(Work[c][1].names)
    BY <1>1 DEF Group
  <2>1. Len(Work[c]) \in Nat \ {0}
    BY Groups
  <2>2. 1 \in 1 .. Len(Work[c])
    BY <2>1
  <2>3. Len(Work[c][1].names) \in Nat \ {0}
    BY <2>2, Groups
  <2>4. QED
    BY <2>1, <2>3
<1>4. CallTypes
  <2>1. rows \in Seq(Row) /\ values \in Seq(Value)
    BY <1>1
  <2>2. /\ pc \in [Calls -> {"idle", "select", "insert", "value", "ok", "failed"}]
        /\ at \in [Calls -> [g : Nat \ {0}, k : Nat \ {0}]]
        /\ level \in [Calls -> 1 .. 3] /\ ids \in [Calls -> [1 .. 3 -> Nat]]
    BY <1>1, <1>2
  <2>3. QED
    BY <1>1, <1>3, <2>1, <2>2 DEF CallTypes
<1>5. HoldsPath /\ Alone /\ Missing
  BY <1>1 DEF HoldsPath, Path, Alone, Missing, Active
<1>6. ValuesInPlace /\ OneRowPerName
  BY <1>1 DEF ValuesInPlace, OneRowPerName
<1>7. QED
  BY <1>4, <1>5, <1>6 DEF IInv

\* The page changes nothing of this.
LEMMA PageStep ==
    ASSUME IInv, UNCHANGED <<rows, values, pc, at, level, ids, disturbed>>
    PROVE  IInv'
<1>1. CallTypes' /\ ValuesInPlace' /\ OneRowPerName'
  BY DEF IInv, CallTypes, Group, ValuesInPlace, IsPath, OneRowPerName
<1>2. RowsGrow
  BY DEF RowsGrow
<1>3. HoldsPath'
  BY <1>2, PathStays DEF IInv, HoldsPath
<1>4. Alone' /\ Missing'
  BY DEF IInv, Alone, Missing, Active, Group, Wanted
<1>5. QED
  BY <1>1, <1>3, <1>4 DEF IInv

\* The invariant holds in every reachable state.
THEOREM Invariance == Spec => []IInv
<1>1. Init => IInv
  BY Start
<1>2. IInv /\ [Next]_vars => IInv'
  <2> SUFFICES ASSUME IInv, [Next]_vars PROVE IInv'
    OBVIOUS
  <2>1. ASSUME NEW c \in Calls, Begin(c) PROVE IInv'
    BY <2>1, BeginStep
  <2>2. ASSUME NEW c \in Calls, Step(c) PROVE IInv'
    BY <2>2, FindsStep, FindsNothingStep, InsertStep, ValueStep, FailStep DEF Step
  <2>3. CASE Load
    BY <2>3, PageStep DEF Load, database, calls
  <2>4. ASSUME NEW i \in 1 .. MaxPolls, Answer(i) \/ LoadFails(i) PROVE IInv'
    BY <2>4, PageStep DEF Answer, LoadFails, database, calls
  <2>5. CASE UNCHANGED vars
    BY <2>5, PageStep DEF vars, database, calls
  <2>6. QED
    BY <2>1, <2>2, <2>3, <2>4, <2>5 DEF Next
<1>3. QED
  BY <1>1, <1>2, PTL DEF Spec

\* Save2DB and the ingest route: every value is stored under the names it was meant
\* for, for any calls, any interleaving of their statements and any failures.
THEOREM StoredInPlace == Spec => []ValuesInPlace
<1>1. IInv => ValuesInPlace
  BY DEF IInv
<1>2. QED
  BY <1>1, Invariance, PTL

\* The select-then-insert of Save2DB and of the ingest route gives a name one row as
\* long as no two calls overlap and no SELECT fails.
THEOREM OneRow == Spec => []OneRowPerName
<1>1. IInv => OneRowPerName
  BY DEF IInv
<1>2. QED
  BY <1>1, Invariance, PTL

-----------------------------------------------------------------------------
(***************************************************************************)
(* What a call has stored.                                                 *)
(***************************************************************************)

\* A value is one of those its call was given.
InRange ==
    \A i \in 1 .. Len(values) :
        /\ values[i].g \in 1 .. Len(Work[values[i].call])
        /\ values[i].k \in 1 .. Len(Work[values[i].call][values[i].g].names)

\* c has stored the value k of its group g; it is past it.
Stored(c, g, k) ==
    \E i \in 1 .. Len(values) : values[i].call = c /\ values[i].g = g /\ values[i].k = k

Past(c, g, k) == pc[c] = "ok" \/ Before([g |-> g, k |-> k], at[c])

\* The two halves of StoresPrefix.
InOrder ==
    \A i, j \in 1 .. Len(values) :
        values[i].call = values[j].call /\ i < j => Before(values[i], values[j])

StoredIsPast ==
    \A c \in Calls : \A g \in 1 .. Len(Work[c]) : \A k \in 1 .. Len(Work[c][g].names) :
        Stored(c, g, k) <=> Past(c, g, k)

PrefixInv == InRange /\ InOrder /\ StoredIsPast

\* Where c goes after the value at[c]: past it, and past no other that it was not past.
LEMMA PastOneMore ==
    ASSUME CallTypes, NEW c \in Calls, pc[c] = "value", AfterValue(c),
           NEW g \in 1 .. Len(Work[c]), NEW k \in 1 .. Len(Work[c][g].names)
    PROVE  Past(c, g, k)' <=> Past(c, g, k) \/ (g = at[c].g /\ k = at[c].k)
<1>1. /\ at[c].g \in 1 .. Len(Work[c]) /\ at[c].k \in 1 .. Len(Work[c][at[c].g].names)
      /\ Len(Work[c]) \in Nat /\ Len(Work[c][g].names) \in Nat
      /\ Len(Work[c][at[c].g].names) \in Nat
  <2>1. at[c].g \in Nat \ {0} /\ at[c].k \in Nat \ {0} /\ Len(Work[c]) \in Nat \ {0}
    BY Groups DEF CallTypes
  <2>2. at[c].g \in 1 .. Len(Work[c])
    BY <2>1 DEF CallTypes
  <2>3. Len(Work[c][at[c].g].names) \in Nat \ {0} /\ Len(Work[c][g].names) \in Nat \ {0}
    BY <2>2, Groups
  <2>4. at[c].k <= Len(Work[c][at[c].g].names)
    BY DEF CallTypes, Group
  <2>5. QED
    BY <2>1, <2>2, <2>3, <2>4
<1>2. Past(c, g, k) <=> g < at[c].g \/ (g = at[c].g /\ k < at[c].k)
  BY DEF Past, Before
<1>3. CASE LastValue(c) /\ LastGroup(c)
  <2>1. pc'[c] = "ok"
    BY <1>3 DEF AfterValue, Return, CallTypes
  <2>2. at[c].k = Len(Work[c][at[c].g].names) /\ at[c].g = Len(Work[c])
    BY <1>3 DEF LastValue, LastGroup, Group
  <2>3. QED
    BY <1>1, <1>2, <2>1, <2>2 DEF Past
<1>4. CASE ~(LastValue(c) /\ LastGroup(c))
  <2>1. /\ pc'[c] = "select"
        /\ at'[c] = IF LastValue(c) THEN [g |-> at[c].g + 1, k |-> 1]
                                    ELSE [g |-> at[c].g, k |-> at[c].k + 1]
    BY <1>4 DEF AfterValue, CallTypes
  <2>2. Past(c, g, k)' <=> g < at'[c].g \/ (g = at'[c].g /\ k < at'[c].k)
    BY <2>1 DEF Past, Before
  <2>3. CASE LastValue(c)
    <3>1. at[c].k = Len(Work[c][at[c].g].names)
      BY <2>3 DEF LastValue, Group
    <3>2. at'[c].g = at[c].g + 1 /\ at'[c].k = 1
      BY <2>1, <2>3
    <3>3. QED
      BY <1>1, <1>2, <2>2, <3>1, <3>2
  <2>4. CASE ~LastValue(c)
    <3>1. at'[c].g = at[c].g /\ at'[c].k = at[c].k + 1
      BY <2>1, <2>4
    <3>2. QED
      BY <1>1, <1>2, <2>2, <3>1
  <2>5. QED
    BY <2>3, <2>4
<1>5. QED
  BY <1>3, <1>4

\* A step that inserts no value takes no call past one.
LEMMA PrefixStays ==
    ASSUME PrefixInv, values' = values, at' = at,
           \A c \in Calls : pc'[c] = "ok" <=> pc[c] = "ok"
    PROVE  PrefixInv'
<1>1. InRange' /\ InOrder'
  BY DEF PrefixInv, InRange, InOrder, Before
<1>2. \A c \in Calls : \A g, k : (Past(c, g, k)' <=> Past(c, g, k)) /\ (Stored(c, g, k)' <=> Stored(c, g, k))
  BY DEF Past, Stored, Before
<1>3. StoredIsPast'
  BY <1>2 DEF PrefixInv, StoredIsPast
<1>4. QED
  BY <1>1, <1>3 DEF PrefixInv

\* Inserting a value takes its call past that value.
LEMMA PrefixGrows ==
    ASSUME IInv, PrefixInv, NEW c \in Calls, InsertValue(c)
    PROVE  PrefixInv'
<1> DEFINE new == [def |-> ids[c][3], call |-> c, g |-> at[c].g, k |-> at[c].k]
<1>1. CallTypes /\ pc[c] = "value" /\ values' = Append(values, new) /\ AfterValue(c)
  BY DEF InsertValue, IInv
<1>2. new \in Value /\ values \in Seq(Value)
  BY <1>1 DEF CallTypes, Value
<1>3. new.call = c /\ new.g = at[c].g /\ new.k = at[c].k
  OBVIOUS
<1> HIDE DEF new
<1>4. /\ Len(values) \in Nat /\ Len(values') = Len(values) + 1
      /\ values'[Len(values) + 1] = new
      /\ \A i \in 1 .. Len(values) : values'[i] = values[i]
  BY <1>1, <1>2
<1>5. at[c].g \in 1 .. Len(Work[c]) /\ at[c].k \in 1 .. Len(Work[c][at[c].g].names)
  <2>1. at[c].g \in Nat \ {0} /\ at[c].k \in Nat \ {0} /\ Len(Work[c]) \in Nat \ {0}
    BY <1>1, Groups DEF CallTypes
  <2>2. at[c].g \in 1 .. Len(Work[c])
    BY <1>1, <2>1 DEF CallTypes
  <2>3. Len(Work[c][at[c].g].names) \in Nat \ {0}
    BY <2>2, Groups
  <2>4. QED
    BY <1>1, <2>1, <2>2, <2>3 DEF CallTypes, Group
<1>6. \A d \in Calls \ {c} : pc'[d] = pc[d] /\ at'[d] = at[d]
  BY <1>1 DEF AfterValue, Return, CallTypes
<1>7. InRange'
  <2> SUFFICES ASSUME NEW i \in 1 .. Len(values')
               PROVE  /\ values'[i].g \in 1 .. Len(Work[values'[i].call])
                      /\ values'[i].k \in 1 .. Len(Work[values'[i].call][values'[i].g].names)
    BY DEF InRange
  <2>1. i \in 1 .. Len(values) \/ i = Len(values) + 1
    BY <1>4
  <2>2. QED
    BY <1>3, <1>4, <1>5, <2>1 DEF PrefixInv, InRange
<1>8. \A d \in Calls : \A g, k :
         Stored(d, g, k)' <=> Stored(d, g, k) \/ (d = c /\ g = at[c].g /\ k = at[c].k)
  <2> SUFFICES ASSUME NEW d \in Calls, NEW g, NEW k
               PROVE  Stored(d, g, k)' <=> Stored(d, g, k) \/ (d = c /\ g = at[c].g /\ k = at[c].k)
    OBVIOUS
  <2>1. ASSUME Stored(d, g, k)'
        PROVE  Stored(d, g, k) \/ (d = c /\ g = at[c].g /\ k = at[c].k)
    <3>1. PICK i \in 1 .. Len(values') :
             values'[i].call = d /\ values'[i].g = g /\ values'[i].k = k
      BY <2>1 DEF Stored
    <3>2. i \in 1 .. Len(values) \/ i = Len(values) + 1
      BY <1>4
    <3>3. QED
      BY <1>3, <1>4, <3>1, <3>2 DEF Stored
  <2>2. ASSUME Stored(d, g, k) PROVE Stored(d, g, k)'
    <3>1. PICK i \in 1 .. Len(values) :
             values[i].call = d /\ values[i].g = g /\ values[i].k = k
      BY <2>2 DEF Stored
    <3>2. i \in 1 .. Len(values') /\ values'[i] = values[i]
      BY <1>4
    <3>3. QED
      BY <3>1, <3>2 DEF Stored
  <2>3. ASSUME d = c, g = at[c].g, k = at[c].k PROVE Stored(d, g, k)'
    <3>1. Len(values) + 1 \in 1 .. Len(values')
      BY <1>4
    <3>2. QED
      BY <1>3, <1>4, <2>3, <3>1 DEF Stored
  <2>4. QED
    BY <2>1, <2>2, <2>3
<1>9. StoredIsPast'
  <2> SUFFICES ASSUME NEW d \in Calls, NEW g \in 1 .. Len(Work[d]),
                      NEW k \in 1 .. Len(Work[d][g].names)
               PROVE  Stored(d, g, k)' <=> Past(d, g, k)'
    BY DEF StoredIsPast
  <2>1. Stored(d, g, k) <=> Past(d, g, k)
    BY DEF PrefixInv, StoredIsPast
  <2>2. CASE d = c
    BY <1>1, <1>8, <2>1, <2>2, PastOneMore
  <2>3. CASE d # c
    <3>1. Past(d, g, k)' <=> Past(d, g, k)
      BY <1>6, <2>3 DEF Past, Before
    <3>2. QED
      BY <1>8, <2>1, <2>3, <3>1
  <2>4. QED
    BY <2>2, <2>3
<1>10. InOrder'
  <2> SUFFICES ASSUME NEW i \in 1 .. Len(values'), NEW j \in 1 .. Len(values'),
                      values'[i].call = values'[j].call, i < j
               PROVE  Before(values'[i], values'[j])
    BY DEF InOrder
  <2>1. i \in 1 .. Len(values) /\ values'[i] = values[i]
    BY <1>4
  <2>2. CASE j \in 1 .. Len(values)
    <3>1. values'[j] = values[j]
      BY <1>4, <2>2
    <3>2. QED
      BY <2>1, <2>2, <3>1 DEF PrefixInv, InOrder
  <2>3. CASE j = Len(values) + 1
    <3>1. values'[j] = new /\ values[i].call = c
      BY <1>3, <1>4, <2>1, <2>3
    <3>2. values[i].g \in 1 .. Len(Work[c]) /\ values[i].k \in 1 .. Len(Work[c][values[i].g].names)
      BY <2>1, <3>1 DEF PrefixInv, InRange
    <3>3. Stored(c, values[i].g, values[i].k)
      BY <2>1, <3>1 DEF Stored
    <3>4. Past(c, values[i].g, values[i].k)
      BY <3>2, <3>3 DEF PrefixInv, StoredIsPast
    <3>5. Before(values[i], new)
      BY <1>1, <1>3, <3>4 DEF Past, Before
    <3>6. QED
      BY <2>1, <3>1, <3>5
  <2>4. QED
    BY <1>4, <2>2, <2>3
<1>11. QED
  BY <1>7, <1>9, <1>10 DEF PrefixInv

\* Save2DB and the ingest route: a call stores a prefix of its values, each once and
\* in order, and returns success only after the last, whatever fails and interleaves.
THEOREM Prefix == Spec => []StoresPrefix
<1>1. Init => PrefixInv
  <2> SUFFICES ASSUME Init PROVE PrefixInv
    OBVIOUS
  <2>1. /\ values = <<>> /\ pc = [c \in Calls |-> "idle"]
        /\ at = [c \in Calls |-> [g |-> 1, k |-> 1]]
    BY DEF Init
  <2>2. InRange /\ InOrder
    BY <2>1 DEF InRange, InOrder
  <2>3. StoredIsPast
    <3> SUFFICES ASSUME NEW c \in Calls, NEW g \in 1 .. Len(Work[c]),
                        NEW k \in 1 .. Len(Work[c][g].names)
                 PROVE  ~Stored(c, g, k) /\ ~Past(c, g, k)
      BY DEF StoredIsPast
    <3>1. ~Stored(c, g, k)
      BY <2>1 DEF Stored
    <3>2. g \in Nat \ {0} /\ k \in Nat \ {0}
      BY Groups
    <3>3. QED
      BY <2>1, <3>1, <3>2 DEF Past, Before
  <2>4. QED
    BY <2>2, <2>3 DEF PrefixInv
<1>2. IInv /\ PrefixInv /\ [Next]_vars => PrefixInv'
  <2> SUFFICES ASSUME IInv, PrefixInv, [Next]_vars PROVE PrefixInv'
    OBVIOUS
  <2> USE DEF IInv, CallTypes
  <2>1. ASSUME NEW c \in Calls, Begin(c) PROVE PrefixInv'
    BY <2>1, PrefixStays DEF Begin, database
  <2>2. ASSUME NEW c \in Calls, SelectFinds(c) PROVE PrefixInv'
    BY <2>2, PrefixStays DEF SelectFinds, GoOn, database
  <2>3. ASSUME NEW c \in Calls, SelectFindsNone(c) \/ SelectFails(c) PROVE PrefixInv'
    BY <2>3, PrefixStays DEF SelectFindsNone, SelectFails, database
  <2>4. ASSUME NEW c \in Calls, Insert(c) PROVE PrefixInv'
    BY <2>4, PrefixStays DEF Insert, GoOn
  <2>5. ASSUME NEW c \in Calls, InsertValue(c) PROVE PrefixInv'
    BY <2>5, PrefixGrows
  <2>6. ASSUME NEW c \in Calls, Fail(c) PROVE PrefixInv'
    BY <2>6, PrefixStays DEF Fail, Return, Active, database
  <2>7. CASE Load
    BY <2>7, PrefixStays DEF Load, database, calls
  <2>8. ASSUME NEW i \in 1 .. MaxPolls, Answer(i) \/ LoadFails(i) PROVE PrefixInv'
    BY <2>8, PrefixStays DEF Answer, LoadFails, database, calls
  <2>9. CASE UNCHANGED vars
    BY <2>9, PrefixStays DEF vars, database, calls
  <2>10. QED
    BY <2>1, <2>2, <2>3, <2>4, <2>5, <2>6, <2>7, <2>8, <2>9 DEF Next, Step
<1>3. IInv /\ PrefixInv => StoresPrefix
  <2> SUFFICES ASSUME IInv, PrefixInv, NEW c \in Calls
               PROVE  LET mine == {i \in 1 .. Len(values) : values[i].call = c} IN
                        /\ \A i, j \in mine : i < j => Before(values[i], values[j])
                        /\ \A g \in 1 .. Len(Work[c]) : \A k \in 1 .. Len(Work[c][g].names) :
                             (\E i \in mine : values[i].g = g /\ values[i].k = k)
                                <=> pc[c] = "ok" \/ Before([g |-> g, k |-> k], at[c])
    BY DEF StoresPrefix
  <2>1. \A i, j \in 1 .. Len(values) :
           values[i].call = c /\ values[j].call = c /\ i < j => Before(values[i], values[j])
    BY DEF PrefixInv, InOrder
  <2>2. \A g \in 1 .. Len(Work[c]) : \A k \in 1 .. Len(Work[c][g].names) :
           Stored(c, g, k) <=> Past(c, g, k)
    BY DEF PrefixInv, StoredIsPast
  <2>3. QED
    BY <2>1, <2>2 DEF Stored, Past
<1>4. QED
  BY <1>1, <1>2, <1>3, Invariance, PTL DEF Spec

-----------------------------------------------------------------------------
(***************************************************************************)
(* The page.                                                               *)
(***************************************************************************)

PageTypes ==
    /\ polls \in Seq(0 .. Len(values)) /\ Len(polls) <= MaxPolls
    /\ shown \in {NoTable} \cup (0 .. Len(values))

\* The values only grow: what a request saw is still there.
LEMMA PageKept ==
    ASSUME PageTypes, UNCHANGED <<polls, shown>>, Len(values) \in Nat, Len(values') \in Nat,
           Len(values') >= Len(values)
    PROVE  PageTypes'
<1>1. 0 .. Len(values) \subseteq 0 .. Len(values')
  OBVIOUS
<1>2. polls \in Seq(0 .. Len(values'))
  BY <1>1 DEF PageTypes
<1>3. QED
  BY <1>1, <1>2 DEF PageTypes

\* An answered or failed request is taken out of the list.
LEMMA Removed ==
    ASSUME NEW T, NEW q \in Seq(T), NEW i \in 1 .. Len(q)
    PROVE  RemoveAt(q, i) \in Seq(T) /\ Len(RemoveAt(q, i)) = Len(q) - 1
<1>1. SubSeq(q, 1, i - 1) \in Seq(T) /\ Len(SubSeq(q, 1, i - 1)) = i - 1
  OBVIOUS
<1>2. SubSeq(q, i + 1, Len(q)) \in Seq(T) /\ Len(SubSeq(q, i + 1, Len(q))) = Len(q) - i
  OBVIOUS
<1>3. ASSUME NEW x \in Seq(T), NEW y \in Seq(T)
      PROVE  x \o y \in Seq(T) /\ Len(x \o y) = Len(x) + Len(y)
  OBVIOUS
<1>4. RemoveAt(q, i) = SubSeq(q, 1, i - 1) \o SubSeq(q, i + 1, Len(q))
  BY DEF RemoveAt
<1>5. /\ RemoveAt(q, i) \in Seq(T)
      /\ Len(RemoveAt(q, i)) = Len(SubSeq(q, 1, i - 1)) + Len(SubSeq(q, i + 1, Len(q)))
  BY <1>1, <1>2, <1>3, <1>4
<1>6. Len(q) \in Nat /\ i \in Nat
  OBVIOUS
<1>7. Len(RemoveAt(q, i)) = (i - 1) + (Len(q) - i)
  BY Zenon, <1>1, <1>2, <1>5
<1>8. (i - 1) + (Len(q) - i) = Len(q) - 1
  BY <1>6
<1>9. QED
  BY Zenon, <1>5, <1>7, <1>8

\* The types of the variables.
THEOREM TypeCorrect == Spec => []TypeOK
<1>1. Init => PageTypes
  BY StoreAssumption DEF Init, PageTypes
<1>2. IInv /\ PageTypes /\ [Next]_vars => PageTypes'
  <2> SUFFICES ASSUME IInv, PageTypes, [Next]_vars PROVE PageTypes'
    OBVIOUS
  <2>1. values \in Seq(Value) /\ Len(values) \in Nat /\ MaxPolls \in Nat
    BY StoreAssumption DEF IInv, CallTypes
  <2>2. ASSUME NEW c \in Calls, Begin(c) PROVE PageTypes'
    BY <2>1, <2>2, PageKept DEF Begin, database, page
  <2>3. ASSUME NEW c \in Calls, Step(c) PROVE PageTypes'
    <3>1. UNCHANGED <<polls, shown>> /\ (values' = values \/ \E v : values' = Append(values, v))
      BY <2>3 DEF Step, SelectFinds, SelectFindsNone, SelectFails, Insert, InsertValue, Fail,
                  database, page
    <3>2. Len(values') \in Nat /\ Len(values') >= Len(values)
      BY <2>1, <3>1
    <3>3. QED
      BY <2>1, <3>1, <3>2, PageKept
  <2>4. CASE Load
    <3>1. /\ polls' = Append(polls, Len(values)) /\ Len(polls) < MaxPolls
          /\ values' = values /\ shown' = shown
      BY <2>4 DEF Load, database
    <3>2. polls \in Seq(0 .. Len(values)) /\ Len(values) \in 0 .. Len(values)
      BY <2>1 DEF PageTypes
    <3>3. polls' \in Seq(0 .. Len(values)) /\ Len(polls') <= MaxPolls
      BY <2>1, <3>1, <3>2
    <3>4. QED
      BY <3>1, <3>3 DEF PageTypes
  <2>5. ASSUME NEW i \in 1 .. MaxPolls, Answer(i) \/ LoadFails(i) PROVE PageTypes'
    <3>1. /\ i <= Len(polls) /\ polls' = RemoveAt(polls, i) /\ values' = values
          /\ shown' = polls[i] \/ shown' = shown
      BY <2>5 DEF Answer, LoadFails, database
    <3>2. polls \in Seq(0 .. Len(values)) /\ i \in 1 .. Len(polls) /\ Len(polls) <= MaxPolls
      BY <2>1, <3>1 DEF PageTypes
    <3>3. polls' \in Seq(0 .. Len(values)) /\ Len(polls') = Len(polls) - 1
      BY <3>1, <3>2, Removed
    <3>4. polls[i] \in 0 .. Len(values)
      BY <3>2
    <3>5. QED
      BY <2>1, <3>1, <3>2, <3>3, <3>4 DEF PageTypes
  <2>6. CASE UNCHANGED vars
    BY <2>6 DEF vars, database, page, PageTypes
  <2>7. QED
    BY <2>2, <2>3, <2>4, <2>5, <2>6 DEF Next
<1>3. IInv /\ PageTypes => TypeOK
  BY DEF IInv, CallTypes, PageTypes, TypeOK, Row, Value
<1>4. QED
  BY <1>1, <1>2, <1>3, Invariance, PTL DEF Spec
=============================================================================
