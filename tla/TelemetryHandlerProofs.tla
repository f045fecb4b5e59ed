----------------------- MODULE TelemetryHandlerProofs -----------------------
(***************************************************************************)
(* Proofs about TelemetryHandler for every size of the buffer, every frame *)
(* length a header may claim and every size of the headers and records:    *)
(* the parser reads nothing but the payload it dispatches and decodes no   *)
(* byte twice.                                                             *)
(*                                                                         *)
(* dispatch_payload guards its reads by its own count of the bytes left,   *)
(* never by the frame or the buffer, so the invariant ties that count to   *)
(* them (RemIsTheRest), and ties what has been handled to the positions    *)
(* both functions have reached (HandledBehind).                            *)
(***************************************************************************)
EXTENDS TelemetryHandler, TLAPS

\* What has been handled lies behind the position of the parser.
HandledBehind ==
    /\ handled.to <= IF Dispatching THEN p ELSE off
    /\ pc = "start" => off = 0

IInv == TypeOK /\ RemIsTheRest /\ HandledBehind

-----------------------------------------------------------------------------
(***************************************************************************)
(* The steps dispatch_payload is made of.                                  *)
(***************************************************************************)

\* The position of the parser while it dispatches.
LEMMA Position ==
    ASSUME IInv, Dispatching
    PROVE  /\ p \in Nat /\ rem \in Nat /\ off \in Nat /\ frame \in Nat
           /\ size \in Nat /\ Trailer \in Nat /\ p + rem = off + frame - Trailer
           /\ off + frame <= size
           /\ p >= off + FixedHeader + CspHeader
           /\ handled.to \in Nat /\ handled.to <= p
<1>1. frame \in Nat
  BY TelemetryAssumption DEF IInv, TypeOK
<1>2. off \in Nat
  BY DEF IInv, TypeOK
<1>3. QED
  BY <1>1, <1>2, TelemetryAssumption
  DEF IInv, TypeOK, RemIsTheRest, PayloadEnd, HandledBehind

\* What a step of dispatch_payload may hand on, if it hands on anything.
HandsOn ==
    \/ UNCHANGED handled
    \/ /\ handled'.end = PayloadEnd
       /\ handled'.from \in Nat /\ handled'.to \in Nat
       /\ p <= handled'.from
       /\ handled'.from <= handled'.to
       /\ handled'.to <= PayloadEnd

\* Returning from a dispatch keeps the invariant.
LEMMA LeaveIInv ==
    ASSUME IInv, Dispatching, Leave, HandsOn
    PROVE  IInv'
<1>1. off' = off + frame /\ pc' = "scan" /\ ~Dispatching'
  BY DEF Leave, Dispatching
<1>2. off' \in 0 .. size' /\ off' >= p
  BY <1>1, Position, TelemetryAssumption DEF Leave
<1>3. /\ handled'.from \in Nat /\ handled'.to \in Nat /\ handled'.end \in Nat
      /\ handled'.to <= off'
  BY <1>1, <1>2, Position, TelemetryAssumption
  DEF HandsOn, PayloadEnd, IInv, TypeOK
<1>4. QED
  BY <1>1, <1>2, <1>3
  DEF Leave, dispatch, IInv, TypeOK, RemIsTheRest, HandledBehind

\* So does consuming k bytes, when the bytes handed on are among them.
LEMMA ConsumeIInv ==
    ASSUME IInv, Dispatching, NEW k \in Nat, Consume(k), HandsOn,
           rem >= k => handled'.to <= p + k
    PROVE  IInv'
<1>1. CASE Leave
  BY <1>1, LeaveIInv
<1>2. CASE rem >= k /\ p' = p + k /\ rem' = rem - k /\ ccid' \in Ids
           /\ pc' = "walk" /\ UNCHANGED scan
  <2>1. p' \in Nat /\ rem' \in Nat /\ p' + rem' = p + rem /\ p' >= p
    BY <1>2, Position
  <2>2. PayloadEnd' = PayloadEnd /\ Dispatching'
    BY <1>2 DEF PayloadEnd, Dispatching, scan
  <2>3. /\ handled'.from \in Nat /\ handled'.to \in Nat /\ handled'.end \in Nat
        /\ handled'.to <= p'
    BY <1>2, Position DEF HandsOn, PayloadEnd, IInv, TypeOK
  <2>4. TypeOK'
    BY <1>2, <2>1, <2>3 DEF scan, IInv, TypeOK
  <2>5. RemIsTheRest'
    BY <1>2, <2>1, <2>2, Position, TelemetryAssumption
    DEF scan, IInv, RemIsTheRest, PayloadEnd
  <2>6. QED
    BY <1>2, <2>2, <2>3, <2>4, <2>5 DEF IInv, HandledBehind
<1>3. QED
  BY <1>1, <1>2 DEF Consume

\* Each action of dispatch_payload hands on bytes of its payload, at or after p,
\* and consumes at least up to their end.
LEMMA DispatchStep ==
    ASSUME IInv, DispatchPayload
    PROVE  /\ Dispatching /\ HandsOn
           /\ \/ Leave
              \/ \E k \in Nat : Consume(k) /\ (rem >= k => handled'.to <= p + k)
              \/ NoLeadingBeacon
<1> USE TelemetryAssumption DEF Handle, PayloadEnd, HandsOn, App, AppN
<1>1. Dispatching
  BY DEF DispatchPayload, LeadingBeacon, NoLeadingBeacon, Image, Beacon, Report,
         Unknown, LoopEnd, InLoop, Dispatching
<1>2. CASE LeadingBeacon
  <2>1. BeaconSize + CspTail \in Nat /\ HandsOn
        /\ handled'.to <= p + (BeaconSize + CspTail)
    BY <1>1, <1>2, Position DEF LeadingBeacon
  <2>2. QED
    BY <1>1, <1>2, <2>1 DEF LeadingBeacon
<1>3. CASE NoLeadingBeacon
  BY <1>1, <1>3 DEF NoLeadingBeacon
<1>4. CASE Image
  <2>1. ImageLen \in Nat /\ ImageLen <= AppN /\ rem >= SecHeader
    BY <1>1, <1>4, Position DEF Image, InLoop, ImageLen
  <2>2. SecHeader + ImageLen + CspTail \in Nat /\ HandsOn
        /\ handled'.to <= p + (SecHeader + ImageLen + CspTail)
    BY <1>1, <1>4, <2>1, Position DEF Image
  <2>3. QED
    BY <1>1, <1>4, <2>2 DEF Image
<1>5. CASE Beacon
  <2>1. CASE Leave /\ UNCHANGED handled
    BY <1>1, <2>1
  <2>2. CASE AppN >= BeaconSize /\ Handle("beacon", App, BeaconSize)
             /\ Consume(SecHeader + BeaconSize + CspTail)
    <3>1. SecHeader + BeaconSize + CspTail \in Nat /\ HandsOn
          /\ handled'.to <= p + (SecHeader + BeaconSize + CspTail)
      BY <1>1, <2>2, Position
    <3>2. QED
      BY <1>1, <2>2, <3>1
  <2>3. QED
    BY <1>5, <2>1, <2>2 DEF Beacon
<1>6. CASE Report
  <2>1. CASE Leave /\ UNCHANGED handled
    BY <1>1, <2>1
  <2>2. CASE AppN >= ReportSize /\ Handle("report", App, ReportSize)
             /\ Consume(SecHeader + ReportSize + CspTail)
    <3>1. SecHeader + ReportSize + CspTail \in Nat /\ HandsOn
          /\ handled'.to <= p + (SecHeader + ReportSize + CspTail)
      BY <1>1, <2>2, Position
    <3>2. QED
      BY <1>1, <2>2, <3>1
  <2>3. CASE rem >= ReportSize + CspTail /\ Handle("report", p, ReportSize)
             /\ Consume(rem)
    <3>1. rem \in Nat /\ HandsOn /\ handled'.to <= p + rem
      BY <1>1, <2>3, Position
    <3>2. QED
      BY <1>1, <2>3, <3>1
  <2>4. QED
    BY <1>6, <2>1, <2>2, <2>3 DEF Report
<1>7. CASE Unknown
  <2>1. SecHeader \in Nat /\ HandsOn /\ handled'.to <= p + SecHeader
    BY <1>1, <1>7, Position DEF Unknown
  <2>2. QED
    BY <1>1, <1>7, <2>1 DEF Unknown
<1>8. CASE LoopEnd
  BY <1>1, <1>8 DEF LoopEnd
<1>9. QED
  BY <1>2, <1>3, <1>4, <1>5, <1>6, <1>7, <1>8 DEF DispatchPayload

\* The dispatch keeps the invariant.
LEMMA DispatchIInv == IInv /\ DispatchPayload => IInv'
<1> SUFFICES ASSUME IInv, DispatchPayload PROVE IInv'
  OBVIOUS
<1>1. CASE NoLeadingBeacon
  BY <1>1 DEF NoLeadingBeacon, scan, dispatch, IInv, TypeOK, RemIsTheRest,
              HandledBehind, Dispatching, PayloadEnd
<1>2. CASE Leave
  BY <1>2, DispatchStep, LeaveIInv
<1>3. ASSUME NEW k \in Nat, Consume(k), rem >= k => handled'.to <= p + k
      PROVE  IInv'
  BY <1>3, DispatchStep, ConsumeIInv
<1>4. QED
  BY <1>1, <1>2, <1>3, DispatchStep

-----------------------------------------------------------------------------
(***************************************************************************)
(* parse_stream, and the invariant.                                        *)
(***************************************************************************)

\* Nothing is handled and nothing is read at first.
LEMMA InitIInv == Init => IInv
<1> SUFFICES ASSUME Init PROVE IInv
  OBVIOUS
<1>1. size \in Nat /\ off \in 0 .. size
  BY TelemetryAssumption DEF Init
<1>2. /\ handled.from \in Nat /\ handled.to \in Nat /\ handled.end \in Nat
      /\ handled.to <= off
  BY DEF Init
<1>3. QED
  BY <1>1, <1>2
  DEF Init, IInv, TypeOK, RemIsTheRest, HandledBehind, Dispatching, Ids

\* parse_stream enters a payload at its first byte after the CSP header, with all
\* of the rest of it left, and only if the whole frame was received.
LEMMA ParseIInv == IInv /\ ParseStream => IInv'
<1> SUFFICES ASSUME IInv, ParseStream PROVE IInv'
  OBVIOUS
<1> USE TelemetryAssumption
<1>1. CASE Start
  BY <1>1 DEF Start, Return, scan, dispatch, IInv, TypeOK, RemIsTheRest,
              HandledBehind, Dispatching
<1>2. CASE Finished
  BY <1>2 DEF Finished, Return, dispatch, IInv, TypeOK, RemIsTheRest,
              HandledBehind, Dispatching
<1>3. CASE Resync
  <2>1. off' = off + 1 /\ off' \in 0 .. size
    BY <1>3 DEF Resync, RoomForFrame, MinFrame, IInv, TypeOK
  <2>2. handled'.to <= off'
    BY <1>3, <2>1 DEF Resync, IInv, TypeOK, HandledBehind, Dispatching
  <2>3. QED
    BY <1>3, <2>1, <2>2
    DEF Resync, dispatch, IInv, TypeOK, RemIsTheRest, HandledBehind, Dispatching
<1>4. CASE Enter
  <2>1. PICK len \in FrameLengths :
           /\ len >= MinFrame
           /\ off + len <= size
           /\ \/ off' = off + len /\ UNCHANGED <<frame, dispatch, pc>>
              \/ /\ len - MinFrame >= CspHeader + SecHeader
                 /\ frame' = len
                 /\ p' = off + FixedHeader + CspHeader
                 /\ rem' = len - MinFrame - CspHeader
                 /\ ccid' \in Ids
                 /\ pc' = "beacon"
                 /\ UNCHANGED off
    BY <1>4 DEF Enter, MinFrame, IInv, TypeOK
  <2>2. pc = "scan" /\ size' = size /\ result' = result /\ handled' = handled
        /\ gotFrame' = TRUE
    BY <1>4 DEF Enter
  <2>3. len \in Nat /\ off \in Nat /\ size \in Nat /\ handled.to <= off
    BY <2>2 DEF IInv, TypeOK, HandledBehind, Dispatching
  <2>4. CASE off' = off + len /\ UNCHANGED <<frame, dispatch, pc>>
    BY <2>1, <2>2, <2>3, <2>4
    DEF dispatch, MinFrame, IInv, TypeOK, RemIsTheRest, HandledBehind, Dispatching
  <2>5. CASE /\ len - MinFrame >= CspHeader + SecHeader
             /\ frame' = len
             /\ p' = off + FixedHeader + CspHeader
             /\ rem' = len - MinFrame - CspHeader
             /\ ccid' \in Ids
             /\ pc' = "beacon"
             /\ UNCHANGED off
    <3>1. p' \in Nat /\ rem' \in Nat /\ p' >= off
          /\ p' + rem' = off + len - Trailer
      BY <2>3, <2>5 DEF MinFrame
    <3>2. QED
      BY <2>1, <2>2, <2>3, <2>5, <3>1
      DEF IInv, TypeOK, RemIsTheRest, HandledBehind, Dispatching, PayloadEnd
  <2>6. QED
    BY <2>1, <2>4, <2>5
<1>5. QED
  BY <1>1, <1>2, <1>3, <1>4 DEF ParseStream

\* Every step preserves the invariant.
LEMMA NextIInv == IInv /\ [Next]_vars => IInv'
<1>1. IInv /\ UNCHANGED vars => IInv'
  BY DEF vars, scan, dispatch, IInv, TypeOK, RemIsTheRest, HandledBehind,
         Dispatching, PayloadEnd
<1>2. QED
  BY <1>1, DispatchIInv, ParseIInv DEF Next

\* The invariant holds in every state of the specification.
THEOREM Invariance == Spec => []IInv
  BY InitIInv, NextIInv, PTL DEF Spec

-----------------------------------------------------------------------------
(***************************************************************************)
(* The theorems.                                                           *)
(***************************************************************************)

\* The parser's position never passes the end of the buffer and its count of the
\* bytes left never goes below zero: no unsigned difference wraps round.
THEOREM TypeCorrect == Spec => []TypeOK
<1>1. IInv => TypeOK
  BY DEF IInv
<1>2. QED
  BY <1>1, Invariance, PTL

\* dispatch_payload's count of the bytes left is the truth about its frame.
THEOREM CountIsTrue == Spec => []RemIsTheRest
<1>1. IInv => RemIsTheRest
  BY DEF IInv
<1>2. QED
  BY <1>1, Invariance, PTL

\* parse_stream itself hands on nothing.
LEMMA ParseHandsOnNothing == ParseStream => UNCHANGED handled
  BY DEF ParseStream, Start, Resync, Finished, Enter, Return

\* Only bytes of the payload being dispatched are handed on.
THEOREM OwnPayloadOnly == Spec => ReadsOwnPayload
<1>1. IInv /\ [Next]_vars =>
        [ handled' # handled =>
            /\ off + FixedHeader + CspHeader <= handled'.from
            /\ handled'.from <= handled'.to
            /\ handled'.to <= PayloadEnd
            /\ PayloadEnd <= size ]_vars
  <2> SUFFICES ASSUME IInv, Next, handled' # handled
               PROVE  /\ off + FixedHeader + CspHeader <= handled'.from
                      /\ handled'.from <= handled'.to
                      /\ handled'.to <= PayloadEnd
                      /\ PayloadEnd <= size
    OBVIOUS
  <2>1. DispatchPayload
    BY ParseHandsOnNothing DEF Next
  <2>2. Dispatching /\ HandsOn
    BY <2>1, DispatchStep
  <2>3. QED
    BY <2>2, Position, TelemetryAssumption DEF HandsOn, PayloadEnd
<1>2. QED
  BY <1>1, Invariance, PTL DEF Spec, ReadsOwnPayload

\* No byte is handed on twice.
THEOREM DecodedOnce == Spec => NoByteTwice
<1>1. IInv /\ [Next]_vars => [handled' # handled => handled'.from >= handled.to]_vars
  <2> SUFFICES ASSUME IInv, Next, handled' # handled
               PROVE  handled'.from >= handled.to
    OBVIOUS
  <2>1. DispatchPayload
    BY ParseHandsOnNothing DEF Next
  <2>2. Dispatching /\ HandsOn
    BY <2>1, DispatchStep
  <2>3. QED
    BY <2>2, Position DEF HandsOn
<1>2. QED
  BY <1>1, Invariance, PTL DEF Spec, NoByteTwice
-----------------------------------------------------------------------------
(***************************************************************************)
(* The loops descend.                                                      *)
(***************************************************************************)

\* How far the call is from its end: twice the bytes behind the frame it works
\* on, and within a payload its count of the bytes left.
Remaining ==
    CASE pc = "start"  -> 2 * size + 2
      [] pc = "scan"   -> 2 * (size - off) + 1
      [] pc = "beacon" -> 2 * (size - off - frame) + rem + 3
      [] pc = "walk"   -> 2 * (size - off - frame) + rem + 2
      [] pc = "done"   -> 0

\* The loop of dispatch_payload descends, when there is a secondary header.
LEMMA DispatchDescends ==
    ASSUME IInv, DispatchPayload, SecHeader > 0
    PROVE  Remaining' \in Nat /\ Remaining' < Remaining
<1>1. Dispatching /\ pc \in {"beacon", "walk"}
  BY DispatchStep DEF Dispatching
<1>2. /\ rem \in Nat /\ off \in Nat /\ frame \in Nat /\ size \in Nat
      /\ off + frame <= size
  BY <1>1, Position
<1>3. Remaining = 2 * (size - off - frame) + rem + (IF pc = "beacon" THEN 3 ELSE 2)
  BY <1>1, <1>2 DEF Remaining
<1>4. CASE Leave
  <2>1. Remaining' = 2 * (size - (off + frame)) + 1
    BY <1>4 DEF Leave, Remaining
  <2>2. QED
    BY <1>1, <1>2, <1>3, <2>1
<1>5. CASE NoLeadingBeacon
  <2>1. pc = "beacon" /\ Remaining' = 2 * (size - off - frame) + rem + 2
    BY <1>5 DEF NoLeadingBeacon, Remaining, scan, dispatch
  <2>2. QED
    BY <1>2, <1>3, <2>1
<1>6. ASSUME NEW k \in Nat, Consume(k), ~Leave, pc = "beacon" \/ k > 0
      PROVE  Remaining' \in Nat /\ Remaining' < Remaining
  <2>1. rem >= k /\ Remaining' = 2 * (size - off - frame) + (rem - k) + 2
    BY <1>6 DEF Consume, Remaining, scan
  <2>2. QED
    BY <1>1, <1>2, <1>3, <1>6, <2>1
<1>7. CASE LeadingBeacon
  <2>1. BeaconSize + CspTail \in Nat
    BY TelemetryAssumption
  <2>2. QED
    BY <1>4, <1>6, <1>7, <2>1 DEF LeadingBeacon
<1>8. CASE Image
  <2>1. ImageLen \in Nat
    BY <1>2, <1>8, TelemetryAssumption DEF Image, InLoop, ImageLen, AppN
  <2>2. SecHeader + ImageLen + CspTail \in Nat /\ SecHeader + ImageLen + CspTail > 0
    BY <2>1, TelemetryAssumption
  <2>3. QED
    BY <1>4, <1>6, <1>8, <2>2 DEF Image
<1>9. CASE Beacon
  <2>1. SecHeader + BeaconSize + CspTail \in Nat /\ SecHeader + BeaconSize + CspTail > 0
    BY TelemetryAssumption
  <2>2. QED
    BY <1>4, <1>6, <1>9, <2>1 DEF Beacon
<1>10. CASE Report
  <2>1. /\ SecHeader + ReportSize + CspTail \in Nat
        /\ SecHeader + ReportSize + CspTail > 0
    BY TelemetryAssumption
  <2>2. rem \in Nat /\ rem > 0
    BY <1>2, <1>10, TelemetryAssumption DEF Report, InLoop
  <2>3. QED
    BY <1>4, <1>6, <1>10, <2>1, <2>2 DEF Report
<1>11. CASE Unknown
  BY <1>4, <1>6, <1>11, TelemetryAssumption DEF Unknown
<1>12. CASE LoopEnd
  BY <1>4, <1>12 DEF LoopEnd
<1>13. QED
  BY <1>5, <1>7, <1>8, <1>9, <1>10, <1>11, <1>12 DEF DispatchPayload

\* So does the loop of parse_stream, whatever length a header claims.
LEMMA ParseDescends ==
    ASSUME IInv, ParseStream, SecHeader > 0
    PROVE  Remaining' \in Nat /\ Remaining' < Remaining
<1> USE TelemetryAssumption
<1>1. size \in Nat /\ off \in Nat /\ off <= size
  BY DEF IInv, TypeOK
<1>2. CASE Start
  <2>1. pc = "start" /\ off = 0 /\ pc' \in {"done", "scan"} /\ UNCHANGED <<size, off>>
    BY <1>2 DEF Start, Return, scan, IInv, HandledBehind
  <2>2. Remaining = 2 * size + 2
    BY <2>1 DEF Remaining
  <2>3. Remaining' \in {0, 2 * size + 1}
    BY <1>1, <2>1 DEF Remaining
  <2>4. QED
    BY <1>1, <2>2, <2>3
<1>3. ASSUME pc = "scan" PROVE Remaining = 2 * (size - off) + 1
  BY <1>3 DEF Remaining
<1>4. CASE Finished
  <2>1. pc = "scan" /\ Remaining' = 0
    BY <1>4 DEF Finished, Return, Remaining
  <2>2. QED
    BY <1>1, <1>3, <2>1
<1>5. CASE Resync
  <2>1. pc = "scan" /\ Remaining' = 2 * (size - (off + 1)) + 1 /\ off + 1 <= size
    BY <1>1, <1>5 DEF Resync, RoomForFrame, MinFrame, Remaining
  <2>2. QED
    BY <1>1, <1>3, <2>1
<1>6. CASE Enter
  <2>1. PICK len \in FrameLengths :
           /\ len >= MinFrame
           /\ off + len <= size
           /\ \/ off' = off + len /\ UNCHANGED <<frame, dispatch, pc>>
              \/ /\ len - MinFrame >= CspHeader + SecHeader
                 /\ frame' = len
                 /\ rem' = len - MinFrame - CspHeader
                 /\ pc' = "beacon"
                 /\ UNCHANGED off
    BY <1>6 DEF Enter, MinFrame, IInv, TypeOK
  <2>2. pc = "scan" /\ size' = size /\ len \in Nat
    BY <1>6 DEF Enter
  <2>3. MinFrame \in Nat /\ MinFrame > 0
    BY DEF MinFrame
  <2>4. CASE off' = off + len /\ UNCHANGED <<frame, dispatch, pc>>
    <3>1. Remaining' = 2 * (size - (off + len)) + 1
      BY <2>2, <2>4 DEF Remaining
    <3>2. QED
      BY <1>1, <1>3, <2>1, <2>2, <2>3, <3>1
  <2>5. CASE /\ len - MinFrame >= CspHeader + SecHeader
             /\ frame' = len
             /\ rem' = len - MinFrame - CspHeader
             /\ pc' = "beacon"
             /\ UNCHANGED off
    <3>1. Remaining' = 2 * (size - off - len) + (len - MinFrame - CspHeader) + 3
      BY <2>2, <2>5 DEF Remaining
    <3>2. QED
      BY <1>1, <1>3, <2>1, <2>2, <2>3, <2>5, <3>1
  <2>6. QED
    BY <2>1, <2>4, <2>5
<1>7. QED
  BY <1>2, <1>4, <1>5, <1>6 DEF ParseStream

\* Whatever the bytes are, every iteration of parse_stream and dispatch_payload
\* brings the call closer to its end: no length a header claims, no message id and
\* no short packet keeps the loops at one position, or sends one of them back.
\* With this a call takes finitely many steps, as Returns says it does; it needs
\* the secondary header (16 bytes), all that an unknown packet moves over.
THEOREM LoopsDescend ==
    ASSUME SecHeader > 0
    PROVE  Spec => [][Remaining' \in Nat /\ Remaining' < Remaining]_vars
<1>1. IInv /\ [Next]_vars => [Remaining' \in Nat /\ Remaining' < Remaining]_vars
  BY DispatchDescends, ParseDescends DEF Next
<1>2. QED
  BY <1>1, Invariance, PTL DEF Spec
=============================================================================
