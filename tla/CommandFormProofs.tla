-------------------------- MODULE CommandFormProofs --------------------------
(***************************************************************************)
(* Proofs about CommandForm for every set of commands, whatever parameters *)
(* they have, and any number of commands sent and of visits.               *)
(*                                                                         *)
(* ShownIsSelected is inductive.  The other two are not: that a picked row *)
(* fills its own command rests on what the reference holds while it waits  *)
(* (PickedWaits), and what the log tells rests on there being a command    *)
(* whenever handleSendCommand is under way (SendingIsSent).                *)
(***************************************************************************)
EXTENDS CommandForm, TLAPS

\* After a pick the row that waits is the selected command's; when none waits any
\* more, the metadata have come.
PickedWaits ==
    picked => /\ sel # None
              /\ IF pending = None THEN live = None /\ filled \in {sel, None}
                                   ELSE pending = sel

SendingIsSent == Len(sent) <= MaxSends /\ (phase # "idle" => Len(sent) > 0)

IInv == TypeOK /\ ShownIsSelected /\ PickedWaits /\ SendingIsSent /\ LogTells

-----------------------------------------------------------------------------
(***************************************************************************)
(* Selecting.                                                              *)
(***************************************************************************)

\* The effect of a selection on what it concerns.
LEMMA SelectEffect ==
    ASSUME IInv, NEW c \in Commands, Select(c)
    PROVE  /\ sel' = c /\ live' \in Option /\ stale' \subseteq Commands
           /\ (live' = None /\ sel = c /\ live = None) \/ live' = c
<1>1. CASE c = sel
  BY <1>1 DEF Select, IInv, TypeOK, ShownIsSelected
<1>2. CASE c # sel
  BY <1>2 DEF Select, IInv, TypeOK, Option
<1>3. QED
  BY <1>1, <1>2

\* The actions that leave the log and the sending alone.
LEMMA SendingKept ==
    ASSUME IInv, UNCHANGED <<sending, visit>>
    PROVE  /\ (sent \in Seq([visit : 1 .. MaxVisits, named : BOOLEAN]))'
           /\ SendingIsSent' /\ LogTells'
           /\ (phase \in {"idle", "log", "history", "logError"})'
           /\ (visit \in 1 .. MaxVisits)' /\ (rows \subseteq (1 .. MaxSends) \X Results)'
  BY DEF IInv, TypeOK, sending, SendingIsSent, LogTells, Current

\* Selecting by any of the four ways keeps the invariant.
LEMMA SelectStep ==
    ASSUME IInv, NEW c \in Commands,
           AutoSelect(c) \/ Choose(c) \/ ClickTab(c) \/ PickRow(c)
    PROVE  IInv'
<1>1. Select(c) /\ UNCHANGED <<shown, filled, ws, sending, visit>>
  BY DEF AutoSelect, Choose, ClickTab, PickRow, fields
<1>2. /\ sel' = c /\ live' \in Option /\ stale' \subseteq Commands
      /\ (live' = None /\ sel = c /\ live = None) \/ live' = c
  BY <1>1, SelectEffect
<1>3. c # None
  BY FormAssumption
<1>4. TypeOK'
  <2>1. pending' \in Option /\ picked' \in BOOLEAN
    BY DEF IInv, TypeOK, Option, AutoSelect, Choose, ClickTab, PickRow, fields
  <2>2. QED
    BY <1>1, <1>2, <2>1, SendingKept DEF IInv, TypeOK, Option
<1>5. ShownIsSelected'
  BY <1>1, <1>2, <1>3 DEF IInv, ShownIsSelected
<1>6. PickedWaits'
  <2>1. CASE AutoSelect(c)
    <3>1. live' = c /\ picked' = picked /\ pending' = pending /\ sel = None
      BY <1>2, <1>3, <2>1 DEF AutoSelect, fields
    <3>2. ~picked
      BY <3>1 DEF IInv, PickedWaits
    <3>3. QED
      BY <3>1, <3>2 DEF PickedWaits
  <2>2. CASE Choose(c) \/ ClickTab(c)
    BY <2>2 DEF Choose, ClickTab, PickedWaits
  <2>3. CASE PickRow(c)
    BY <1>2, <1>3, <2>3 DEF PickRow, PickedWaits
  <2>4. QED
    BY <2>1, <2>2, <2>3
<1>7. QED
  BY <1>1, <1>4, <1>5, <1>6, SendingKept DEF IInv

-----------------------------------------------------------------------------
(***************************************************************************)
(* The answers with the metadata.                                          *)
(***************************************************************************)

\* The answers of cmdmeta, those no longer waited for included, keep the invariant.
LEMMA MetaStep ==
    ASSUME IInv, MetaArrives \/ MetaFails \/ \E c \in Commands : StaleMeta(c)
    PROVE  IInv'
<1>1. UNCHANGED <<sel, picked, ws, sending, visit>>
  BY DEF MetaArrives, MetaFails, StaleMeta
<1>2. CASE MetaArrives
  <2>1. /\ live' = None /\ pending' = None /\ stale' = stale
        /\ shown' = live /\ live # None /\ filled' \in {pending, None}
    BY <1>2 DEF MetaArrives
  <2>2. TypeOK'
    BY <1>1, <2>1, SendingKept DEF IInv, TypeOK, Option
  <2>3. ShownIsSelected' /\ PickedWaits'
    BY <1>1, <2>1 DEF IInv, ShownIsSelected, PickedWaits
  <2>4. QED
    BY <1>1, <2>2, <2>3, SendingKept DEF IInv
<1>3. CASE MetaFails
  <2>1. /\ live' = None /\ pending' \in {None, pending} /\ stale' = stale
        /\ shown' = None /\ filled' = None
    BY <1>3 DEF MetaFails
  <2>2. TypeOK'
    BY <1>1, <2>1, SendingKept DEF IInv, TypeOK, Option
  <2>3. ShownIsSelected' /\ PickedWaits'
    BY <1>1, <2>1 DEF IInv, ShownIsSelected, PickedWaits
  <2>4. QED
    BY <1>1, <2>2, <2>3, SendingKept DEF IInv
<1>4. CASE \E c \in Commands : StaleMeta(c)
  <2>1. stale' \subseteq stale /\ UNCHANGED <<live, shown, filled, pending>>
    BY <1>4 DEF StaleMeta, fields
  <2>2. TypeOK'
    BY <1>1, <2>1, SendingKept DEF IInv, TypeOK
  <2>3. ShownIsSelected' /\ PickedWaits'
    BY <1>1, <2>1 DEF IInv, ShownIsSelected, PickedWaits
  <2>4. QED
    BY <1>1, <2>2, <2>3, SendingKept DEF IInv
<1>5. QED
  BY <1>2, <1>3, <1>4

-----------------------------------------------------------------------------
(***************************************************************************)
(* Sending and logging.                                                    *)
(***************************************************************************)

\* The actions that leave the form alone.
LEMMA FormKept ==
    ASSUME IInv, UNCHANGED <<choice, fields, picked>>
    PROVE  /\ ShownIsSelected' /\ PickedWaits'
           /\ (sel \in Option /\ live \in Option /\ stale \subseteq Commands)'
           /\ (shown \in Option /\ filled \in Option /\ pending \in Option)'
           /\ (picked \in BOOLEAN)'
  BY DEF IInv, TypeOK, choice, fields, ShownIsSelected, PickedWaits, Option

\* A command on its way to the log has a number.
LEMMA CurrentNumber ==
    ASSUME IInv, phase # "idle"
    PROVE  Current \in 1 .. MaxSends /\ Current \in 1 .. Len(sent)
<1>1. Len(sent) \in Nat /\ Len(sent) > 0 /\ Len(sent) <= MaxSends
  BY DEF IInv, TypeOK, SendingIsSent
<1>2. QED
  BY <1>1, FormAssumption DEF Current

\* What may be in the log after an attempt to insert a row.
LEMMA InsertedRows ==
    ASSUME IInv, phase # "idle", NEW result \in Results, NEW new \in Inserted(result)
    PROVE  /\ new \subseteq (1 .. MaxSends) \X Results
           /\ \A r \in new : r[1] \in 1 .. Len(sent) /\ sent[r[1]].named
           /\ new \subseteq rows \cup {<<Current, result>>}
  BY CurrentNumber DEF IInv, TypeOK, LogTells, Inserted

\* Sending keeps the invariant.
LEMMA SendStep == ASSUME IInv, Send PROVE IInv'
<1>1. /\ UNCHANGED <<choice, fields, picked, ws, rows, visit>>
      /\ phase' = "log" /\ Len(sent) < MaxSends
  BY DEF Send
<1> DEFINE new == [visit |-> visit, named |-> sel # None]
<1>2. new \in [visit : 1 .. MaxVisits, named : BOOLEAN] /\ sent' = Append(sent, new)
  BY DEF Send, IInv, TypeOK
<1>3. /\ sent \in Seq([visit : 1 .. MaxVisits, named : BOOLEAN]) /\ Len(sent) \in Nat
      /\ rows \subseteq (1 .. MaxSends) \X Results
      /\ \A r \in rows : r[1] \in 1 .. Len(sent) /\ sent[r[1]].named
  BY DEF IInv, TypeOK, LogTells
<1> HIDE DEF new
<1>4. /\ sent' \in Seq([visit : 1 .. MaxVisits, named : BOOLEAN])
      /\ Len(sent') = Len(sent) + 1
      /\ \A i \in 1 .. Len(sent) : sent'[i] = sent[i]
  BY <1>2, <1>3
<1>5. SendingIsSent'
  BY <1>1, <1>3, <1>4, FormAssumption DEF SendingIsSent
<1>6. LogTells'
  <2>1. \A r \in rows' : r[1] \in 1 .. Len(sent') /\ sent'[r[1]].named
    <3> SUFFICES ASSUME NEW r \in rows PROVE r[1] \in 1 .. Len(sent') /\ sent'[r[1]].named
      BY <1>1
    <3>1. r[1] \in 1 .. Len(sent) /\ sent[r[1]].named
      BY <1>3
    <3>2. sent'[r[1]] = sent[r[1]]
      BY <1>4, <3>1
    <3>3. QED
      BY <1>3, <1>4, <3>1, <3>2
  <2>2. <<Len(sent'), "error">> \notin rows'
    BY <1>1, <1>3, <1>4
  <2>3. QED
    BY <1>1, <2>1, <2>2 DEF LogTells, Current
<1>7. TypeOK'
  BY <1>1, <1>4, FormKept DEF IInv, TypeOK
<1>8. QED
  BY <1>1, <1>5, <1>6, <1>7, FormKept DEF IInv

\* What the route does, and the route's answer, keep the invariant.
LEMMA LogStep ==
    ASSUME IInv, LogAnswered \/ LogFails \/ HistoryLoaded \/ ErrorLogged
    PROVE  IInv'
<1>1. UNCHANGED <<choice, fields, picked, ws, sent, visit>> /\ phase # "idle"
  BY DEF LogAnswered, LogFails, HistoryLoaded, ErrorLogged
<1>2. SendingIsSent'
  BY <1>1 DEF IInv, SendingIsSent
<1>3. Current' = Current
  BY <1>1 DEF Current
<1>4. /\ rows' \subseteq (1 .. MaxSends) \X Results
      /\ \A r \in rows' : r[1] \in 1 .. Len(sent) /\ sent[r[1]].named
      /\ phase' \in {"idle", "history", "logError"}
      /\ phase' = "history" => <<Current, "ok">> \in rows' /\ <<Current, "error">> \notin rows'
  <2>1. CASE LogAnswered
    <3>1. rows' = rows \cup {<<Current, "ok">>} /\ phase = "log" /\ sent[Current].named
      BY <2>1 DEF LogAnswered
    <3>2. rows' \in Inserted("ok") /\ "ok" \in Results
      BY <3>1 DEF Inserted, Results
    <3>3. <<Current, "error">> \notin rows'
      BY <3>1 DEF IInv, LogTells
    <3>4. QED
      BY <1>1, <2>1, <3>1, <3>2, <3>3, InsertedRows DEF LogAnswered
  <2>2. CASE LogFails
    BY <1>1, <2>2, InsertedRows DEF LogFails, Results
  <2>3. CASE HistoryLoaded
    BY <2>3 DEF HistoryLoaded, IInv, TypeOK, LogTells
  <2>4. CASE ErrorLogged
    BY <1>1, <2>4, InsertedRows DEF ErrorLogged, Results
  <2>5. QED
    BY <2>1, <2>2, <2>3, <2>4
<1>5. LogTells'
  BY <1>1, <1>3, <1>4 DEF LogTells
<1>6. TypeOK'
  BY <1>1, <1>4, FormKept DEF IInv, TypeOK
<1>7. QED
  BY <1>1, <1>2, <1>5, <1>6, FormKept DEF IInv

\* Loading the page again keeps the invariant.
LEMMA ReloadStep == ASSUME IInv, Reload PROVE IInv'
<1>1. /\ sel' = None /\ live' = None /\ stale' = {} /\ shown' = None /\ filled' = None
      /\ pending' = None /\ picked' = FALSE /\ ws' = "new" /\ phase' = "idle"
      /\ visit' = visit + 1 /\ visit < MaxVisits /\ sent' = sent
  BY DEF Reload
<1>2. /\ rows' \subseteq (1 .. MaxSends) \X Results
      /\ \A r \in rows' : r[1] \in 1 .. Len(sent) /\ sent[r[1]].named
  <2>1. CASE phase = "log"
    BY <2>1, InsertedRows DEF Reload, Results
  <2>2. CASE phase = "logError"
    BY <2>2, InsertedRows DEF Reload, Results
  <2>3. CASE phase \notin {"log", "logError"}
    BY <2>3 DEF Reload, IInv, TypeOK, LogTells
  <2>4. QED
    BY <2>1, <2>2, <2>3
<1>3. visit' \in 1 .. MaxVisits
  BY <1>1, FormAssumption DEF IInv, TypeOK
<1>4. TypeOK'
  BY <1>1, <1>2, <1>3 DEF IInv, TypeOK, Option
<1>5. ShownIsSelected' /\ PickedWaits' /\ SendingIsSent' /\ LogTells'
  BY <1>1, <1>2 DEF ShownIsSelected, PickedWaits, IInv, SendingIsSent, LogTells
<1>6. QED
  BY <1>4, <1>5 DEF IInv

\* The WebSocket and steps of nobody keep the invariant.
LEMMA QuietStep ==
    ASSUME IInv, WebSocketOpens \/ WebSocketCloses \/ UNCHANGED vars
    PROVE  IInv'
<1>1. UNCHANGED <<choice, fields, picked, sending, visit>>
  BY DEF WebSocketOpens, WebSocketCloses, vars
<1>2. ws' \in {"new", "open", "closed"}
  BY DEF WebSocketOpens, WebSocketCloses, vars, IInv, TypeOK
<1>3. TypeOK'
  BY <1>1, <1>2, FormKept, SendingKept DEF TypeOK
<1>4. QED
  BY <1>1, <1>3, FormKept, SendingKept DEF IInv

-----------------------------------------------------------------------------
(***************************************************************************)
(* The theorems.                                                           *)
(***************************************************************************)

\* The invariant holds throughout.
THEOREM Invariance == Spec => []IInv
<1>1. ASSUME Init PROVE IInv
  <2>1. sent \in Seq([visit : 1 .. MaxVisits, named : BOOLEAN]) /\ Len(sent) = 0
    BY <1>1 DEF Init
  <2>2. TypeOK
    <3>1. visit \in 1 .. MaxVisits
      BY <1>1, FormAssumption DEF Init
    <3>2. QED
      BY <1>1, <2>1, <3>1 DEF Init, TypeOK, Option
  <2>3. ShownIsSelected /\ PickedWaits
    BY <1>1 DEF Init, ShownIsSelected, PickedWaits
  <2>4. LogTells
    BY <1>1 DEF Init, LogTells
  <2>5. SendingIsSent
    BY <1>1, <2>1, FormAssumption DEF Init, SendingIsSent
  <2>6. QED
    BY <2>2, <2>3, <2>4, <2>5 DEF IInv
<1>2. IInv /\ [Next]_vars => IInv'
  BY SelectStep, MetaStep, SendStep, LogStep, ReloadStep, QuietStep DEF Next
<1>3. QED
  BY <1>1, <1>2, PTL DEF Spec

\* The variables of the command page have their types.
THEOREM TypeCorrect == Spec => []TypeOK
<1>1. IInv => TypeOK
  BY DEF IInv
<1>2. QED
  BY <1>1, Invariance, PTL

\* Whatever order the answers of cmdmeta come in, the parameters shown are those of
\* the selected command once its own metadata have come.
THEOREM ShowsSelected == Spec => []ShownIsSelected
<1>1. IInv => ShownIsSelected
  BY DEF IInv
<1>2. QED
  BY <1>1, Invariance, PTL

\* The values of a picked history row go to the command of that row.
THEOREM FillsOwnCommand == Spec => []RowFillsItsCommand
<1>1. IInv => RowFillsItsCommand
  BY DEF IInv, PickedWaits, RowFillsItsCommand
<1>2. QED
  BY <1>1, Invariance, PTL

\* The log holds commands that were sent, and none as an error whose logging is
\* still under way or was confirmed to the page.
THEOREM LogIsTrue == Spec => []LogTells
<1>1. IInv => LogTells
  BY DEF IInv
<1>2. QED
  BY <1>1, Invariance, PTL
=============================================================================
