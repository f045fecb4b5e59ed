------------------------- MODULE ImageDownlinkProofs -------------------------
(***************************************************************************)
(* Proofs about ImageDownlink for every downlink, every grouping of its    *)
(* packets into payloads, any number of images and every set of failing    *)
(* file-system calls, as long as no payload holds the last packets of two  *)
(* images: dispatch_payload never leaves the last packet of an image in    *)
(* the accumulator, the image path implements ImageFeed, and a lost packet *)
(* damages its own image only, or the next one too if it was the last.     *)
(*                                                                         *)
(* None of them is inductive.  What has to be carried along is that, once  *)
(* the payload's last-flagged packet has been pushed, no other follows in  *)
(* the payload (so that saved_once skips no save), that saved_final_ is    *)
(* down whenever save_final is called (so that the call writes), and, for  *)
(* the damage, what the accumulator holds of the downlink at every         *)
(* position the walk can have reached.                                     *)
(*                                                                         *)
(* The types, and that data leaves the accumulator only into a file, hold  *)
(* for mixed payloads too and have an invariant of their own (StoreInv).   *)
(***************************************************************************)
EXTENDS ImageDownlink, TLAPS

NoLast(s) == \A j \in 1 .. Len(s) : ~s[j].last

AtMostOneLast(s) ==
    \A i, j \in 1 .. Len(s) : s[i].last /\ s[j].last => i = j

Types ==
    /\ next \in 1 .. Len(Downlink) + 1
    /\ streamAcc \in Seq(Packets)
    /\ payload \in Seq(Packets)
    /\ savedFinal \in BOOLEAN
    /\ savedOnce \in BOOLEAN
    /\ pc \in {"idle", "walk", "save", "clear"}

PayloadInv ==
    /\ pc = "walk" => payload # <<>>
    /\ pc = "idle" => payload = <<>>
    /\ AtMostOneLast(payload)
    /\ savedOnce \/ pc \in {"save", "clear"} => NoLast(payload)

AccumulatorInv ==
    /\ pc \in {"idle", "walk"} => NoLast(streamAcc)
    /\ pc \in {"save", "clear"} =>
          streamAcc # <<>> /\ Last(streamAcc).last /\ NoLast(Front(streamAcc))
    /\ pc # "clear" => ~savedFinal

IInv == Types /\ PayloadInv /\ AccumulatorInv

-----------------------------------------------------------------------------
(***************************************************************************)
(* Sequences of packets.                                                   *)
(***************************************************************************)

\* What Front and Last return of a sequence something was appended to.
LEMMA FrontLastOfAppend ==
    ASSUME NEW S, NEW s \in Seq(S), NEW x \in S
    PROVE  /\ Append(s, x) \in Seq(S)
           /\ Append(s, x) # <<>>
           /\ Front(Append(s, x)) = s
           /\ Last(Append(s, x)) = x
  BY DEF Front, Last

\* A sequence that is not empty is its front with its last element appended.
LEMMA AppendLast ==
    ASSUME NEW S, NEW s \in Seq(S), s # <<>>
    PROVE  /\ Front(s) \in Seq(S)
           /\ Last(s) \in S
           /\ Append(Front(s), Last(s)) = s
  BY DEF Front, Last

\* Taking the head off a payload.
LEMMA HeadTail ==
    ASSUME NEW S, NEW s \in Seq(S), s # <<>>
    PROVE  /\ Head(s) \in S
           /\ Tail(s) \in Seq(S)
           /\ Head(s) = s[1]
           /\ Len(Tail(s)) = Len(s) - 1
           /\ \A j \in 1 .. Len(Tail(s)) : Tail(s)[j] = s[j + 1]
  OBVIOUS

\* The rest of a payload has no more packets that end an image than the payload,
\* and none if its head was the one.
LEMMA TailLast ==
    ASSUME NEW s \in Seq(Packets), s # <<>>
    PROVE  /\ AtMostOneLast(s) => AtMostOneLast(Tail(s))
           /\ NoLast(s) => NoLast(Tail(s)) /\ ~Head(s).last
           /\ AtMostOneLast(s) /\ Head(s).last => NoLast(Tail(s))
<1>1. /\ Head(s) = s[1]
      /\ Len(s) \in Nat /\ Len(s) >= 1
      /\ Len(Tail(s)) = Len(s) - 1
      /\ \A j \in 1 .. Len(Tail(s)) : Tail(s)[j] = s[j + 1]
  BY HeadTail
<1>2. QED
  BY <1>1 DEF AtMostOneLast, NoLast

\* Appending a packet that ends no image keeps an accumulator without one.
LEMMA AppendNoLast ==
    ASSUME NEW s \in Seq(Packets), NEW x \in Packets, NoLast(s), ~x.last
    PROVE  NoLast(Append(s, x))
  BY DEF NoLast

\* A piece of the downlink is a sequence of packets.
LEMMA PieceType ==
    ASSUME NEW a \in 1 .. Len(Downlink), NEW b \in a .. Len(Downlink)
    PROVE  SubSeq(Downlink, a, b) \in Seq(Packets) /\ SubSeq(Downlink, a, b) # <<>>
<1>1. Downlink \in Seq(Packet)
  BY ImageDownlinkAssumption
<1>2. Downlink \in Seq(Packets)
  BY <1>1 DEF Packets
<1>3. QED
  BY <1>2

-----------------------------------------------------------------------------
(***************************************************************************)
(* The inductive invariant.                                                *)
(***************************************************************************)

\* The empty payload and the empty accumulator.
LEMMA InitIInv == Init => IInv
<1> SUFFICES ASSUME Init PROVE IInv
  OBVIOUS
<1>1. next \in 1 .. Len(Downlink) + 1
  BY ImageDownlinkAssumption DEF Init
<1>2. streamAcc \in Seq(Packets) /\ payload \in Seq(Packets)
  BY DEF Init, B!Init
<1>3. NoLast(streamAcc) /\ NoLast(payload) /\ AtMostOneLast(payload)
  BY DEF Init, B!Init, NoLast, AtMostOneLast
<1>4. QED
  BY <1>1, <1>2, <1>3
  DEF Init, B!Init, IInv, Types, PayloadInv, AccumulatorInv

\* A payload that arrives is a piece of the downlink with at most one packet that
\* ends an image.
LEMMA ArriveIInv ==
    ASSUME ~MixedPayloads
    PROVE  IInv /\ Arrive => IInv'
<1> SUFFICES ASSUME IInv, Arrive PROVE IInv'
  OBVIOUS
<1>1. PICK k \in 1 .. MaxPerPayload :
         /\ next + k - 1 <= Len(Downlink)
         /\ WellFormed(SubSeq(Downlink, next, next + k - 1))
         /\ payload' = SubSeq(Downlink, next, next + k - 1)
         /\ next' = next + k
  BY DEF Arrive
<1>2. AtMostOneLast(payload')
  BY <1>1 DEF WellFormed, AtMostOneLast
<1>3. Len(Downlink) \in Nat /\ k \in Nat /\ k >= 1 /\ next \in Nat /\ next >= 1
  BY ImageDownlinkAssumption DEF IInv, Types
<1>4. next \in 1 .. Len(Downlink) /\ next + k - 1 \in next .. Len(Downlink)
  BY <1>1, <1>3
<1>5. payload' \in Seq(Packets) /\ payload' # <<>>
  BY <1>1, <1>4, PieceType
<1>6. next' \in 1 .. Len(Downlink) + 1
  BY <1>1, <1>3
<1>7. QED
  BY <1>2, <1>5, <1>6
  DEF Arrive, object, IInv, Types, PayloadInv, AccumulatorInv

\* Pushing a packet: the first that ends an image asks for a save, and since it
\* is the only one of its payload the others do not disturb the accumulator.
LEMMA PushIInv == IInv /\ Push => IInv'
<1> SUFFICES ASSUME IInv, Push PROVE IInv'
  OBVIOUS
<1> DEFINE x == Head(payload)
<1>1. /\ pc = "walk" /\ payload # <<>>
      /\ x \in Packets /\ Tail(payload) \in Seq(Packets)
      /\ payload' = Tail(payload) /\ streamAcc' = Append(streamAcc, x)
      /\ savedFinal' = savedFinal /\ savedOnce' = savedOnce /\ next' = next
      /\ NoLast(streamAcc) /\ ~savedFinal /\ AtMostOneLast(payload)
  BY HeadTail
  DEF Push, B!PushFragment, IInv, Types, PayloadInv, AccumulatorInv
<1>2. pc' = IF x.last /\ ~savedOnce
            THEN "save" ELSE AfterPacket(Tail(payload))
  BY DEF Push
<1> HIDE DEF x
<1>3. AtMostOneLast(payload')
  BY <1>1, TailLast DEF IInv, Types
<1>4. streamAcc' \in Seq(Packets) /\ streamAcc' # <<>>
      /\ Front(streamAcc') = streamAcc /\ Last(streamAcc') = x
  BY <1>1, FrontLastOfAppend DEF IInv, Types
<1>5. CASE x.last /\ ~savedOnce
  <2>1. NoLast(payload')
    BY <1>1, <1>5, TailLast DEF IInv, Types, x
  <2>2. QED
    BY <1>1, <1>2, <1>3, <1>4, <1>5, <2>1
    DEF IInv, Types, PayloadInv, AccumulatorInv
<1>6. CASE ~(x.last /\ ~savedOnce)
  <2>1. savedOnce => ~x.last /\ NoLast(payload')
    BY <1>1, TailLast DEF IInv, Types, PayloadInv, x
  <2>2. NoLast(streamAcc')
    BY <1>1, <1>6, <2>1, AppendNoLast DEF IInv, Types
  <2>3. /\ pc' \in {"idle", "walk"}
        /\ pc' = "idle" <=> payload' = <<>>
    BY <1>1, <1>2, <1>6 DEF AfterPacket
  <2>4. QED
    BY <1>1, <1>3, <1>4, <2>1, <2>2, <2>3
    DEF IInv, Types, PayloadInv, AccumulatorInv
<1>7. QED
  BY <1>5, <1>6

\* Saving changes the flag only; clearing empties the accumulator.
LEMMA SaveIInv == IInv /\ Save => IInv'
  BY DEF Save, B!SaveFinal, IInv, Types, PayloadInv, AccumulatorInv

LEMMA ClearAllIInv == IInv /\ ClearAll => IInv'
<1> SUFFICES ASSUME IInv, ClearAll PROVE IInv'
  OBVIOUS
<1>1. streamAcc' = <<>> /\ streamAcc' \in Seq(Packets) /\ NoLast(streamAcc')
  BY DEF ClearAll, B!Clear, NoLast
<1>2. pc' \in {"idle", "walk"} /\ (pc' = "idle" <=> payload' = <<>>)
  BY DEF ClearAll, AfterPacket
<1>3. QED
  BY <1>1, <1>2
  DEF ClearAll, B!Clear, IInv, Types, PayloadInv, AccumulatorInv

\* A killed process starts again with nothing.
LEMMA CrashIInv == IInv /\ Crash => IInv'
<1> SUFFICES ASSUME IInv, Crash PROVE IInv'
  OBVIOUS
<1>1. /\ streamAcc' = <<>> /\ payload' = <<>> /\ pc' = "idle" /\ ~savedFinal'
      /\ savedFinal' \in BOOLEAN /\ savedOnce' \in BOOLEAN /\ next' = next
  BY DEF Crash, B!Crash, B!FreshObject
<1>2. streamAcc' \in Seq(Packets) /\ payload' \in Seq(Packets)
  BY <1>1
<1>3. NoLast(streamAcc') /\ NoLast(payload') /\ AtMostOneLast(payload')
  BY <1>1 DEF NoLast, AtMostOneLast
<1>4. QED
  BY <1>1, <1>2, <1>3 DEF IInv, Types, PayloadInv, AccumulatorInv

\* Every step preserves the invariant.
LEMMA NextIInv ==
    ASSUME ~MixedPayloads
    PROVE  IInv /\ [Next]_vars => IInv'
<1> SUFFICES ASSUME IInv, [Next]_vars PROVE IInv'
  OBVIOUS
<1>1. CASE Miss
  <2>1. next' \in 1 .. Len(Downlink) + 1
    BY <1>1, ImageDownlinkAssumption DEF Miss, IInv, Types
  <2>2. QED
    BY <1>1, <2>1
    DEF Miss, object, dispatch, IInv, Types, PayloadInv, AccumulatorInv
<1>2. CASE Tick
  BY <1>2 DEF Tick, B!Tick, B!memory, dispatch, IInv, Types, PayloadInv,
              AccumulatorInv
<1>3. CASE UNCHANGED vars
  BY <1>3 DEF vars, object, dispatch, IInv, Types, PayloadInv, AccumulatorInv
<1>4. QED
  BY <1>1, <1>2, <1>3, ArriveIInv, PushIInv, SaveIInv, ClearAllIInv, CrashIInv
  DEF Next, Dispatch

-----------------------------------------------------------------------------
(***************************************************************************)
(* The theorems.                                                           *)
(***************************************************************************)

\* The invariant holds in every state of the specification.
THEOREM Invariance ==
    ASSUME ~MixedPayloads
    PROVE  Spec => []IInv
<1>1. Init => IInv
  BY InitIInv
<1>2. IInv /\ [Next]_vars => IInv'
  BY NextIInv
<1>3. QED
  BY <1>1, <1>2, PTL DEF Spec

\* When dispatch_payload has returned, no packet that ends an image is left where
\* the next image would join it.
THEOREM NothingLeftBehind ==
    ASSUME ~MixedPayloads
    PROVE  Spec => []NextImagePrepared
<1>1. IInv => NextImagePrepared
  BY DEF IInv, AccumulatorInv, NextImagePrepared, NoLast, HasLast
<1>2. QED
  BY <1>1, Invariance, PTL

-----------------------------------------------------------------------------
(***************************************************************************)
(* The image path implements ImageFeed.                                    *)
(***************************************************************************)

\* Pushing a packet that ends no image is the abstract receipt of it; pushing one
\* that does is no step yet.
LEMMA PushStep == IInv /\ Push => [Feed!Next]_Feed!vars
<1> SUFFICES ASSUME IInv, Push PROVE [Feed!Next]_Feed!vars
  OBVIOUS
<1> DEFINE x == Head(payload)
<1>1. /\ pc = "walk" /\ x \in Packets
      /\ streamAcc' = Append(streamAcc, x) /\ streamAcc \in Seq(Packets)
      /\ published' = published
      /\ x.last => ~savedOnce
  BY HeadTail, TailLast
  DEF Push, B!PushFragment, IInv, Types, PayloadInv
<1>2. pc' = IF x.last /\ ~savedOnce
            THEN "save" ELSE AfterPacket(Tail(payload))
  BY DEF Push
<1> HIDE DEF x
<1>3. Pending = streamAcc
  BY <1>1 DEF Pending
<1>4. CASE x.last
  <2>1. pc' = "save"
    BY <1>1, <1>2, <1>4
  <2>2. Pending' = Front(streamAcc')
    BY <2>1 DEF Pending
  <2>3. QED
    BY <1>1, <1>3, <2>2, FrontLastOfAppend DEF Feed!vars
<1>5. CASE ~x.last
  <2>1. pc' \in {"idle", "walk"}
    BY <1>2, <1>5 DEF AfterPacket
  <2>2. Pending' = streamAcc'
    BY <2>1 DEF Pending
  <2>3. Feed!Receive(x)
    BY <1>1, <1>3, <1>5, <2>2 DEF Feed!Receive
  <2>4. QED
    BY <1>1, <2>3 DEF Feed!Next
<1>6. QED
  BY <1>4, <1>5

\* The save is the delivery, or, when the file cannot be written, the loss.
LEMMA SaveStep == IInv /\ Save => [Feed!Next]_Feed!vars
<1> SUFFICES ASSUME IInv, Save PROVE [Feed!Next]_Feed!vars
  OBVIOUS
<1>1. /\ pc = "save" /\ pc' = "clear" /\ ~savedFinal
      /\ streamAcc \in Seq(Packets) /\ streamAcc # <<>> /\ Last(streamAcc).last
  BY DEF Save, IInv, Types, AccumulatorInv
<1>2. Pending = Front(streamAcc) /\ Pending' = <<>>
  BY <1>1 DEF Pending
<1>3. /\ Last(streamAcc) \in Packets
      /\ Append(Front(streamAcc), Last(streamAcc)) = streamAcc
  BY <1>1, AppendLast
<1>4. CASE published' = Append(published, streamAcc)
  <2>1. Feed!Deliver(Last(streamAcc))
    BY <1>1, <1>2, <1>3, <1>4 DEF Feed!Deliver
  <2>2. QED
    BY <1>3, <2>1 DEF Feed!Next
<1>5. CASE published' = published
  BY <1>2, <1>5 DEF Feed!Next, Feed!Lose
<1>6. QED
  BY <1>1, <1>4, <1>5 DEF Save

\* Every step is a step of ImageFeed or none.
LEMMA FeedStep == IInv /\ [Next]_vars => [Feed!Next]_Feed!vars
<1> SUFFICES ASSUME IInv, [Next]_vars PROVE [Feed!Next]_Feed!vars
  OBVIOUS
<1>1. CASE Arrive
  BY <1>1 DEF Arrive, object, Pending, Feed!vars
<1>2. CASE Miss
  BY <1>2 DEF Miss, object, dispatch, Pending, Feed!vars
<1>3. CASE ClearAll
  <2>1. Pending = <<>> /\ published' = published
    BY <1>3 DEF ClearAll, Pending
  <2>2. Pending' = <<>>
    BY <1>3 DEF ClearAll, B!Clear, AfterPacket, Pending
  <2>3. QED
    BY <2>1, <2>2 DEF Feed!vars
<1>4. CASE Crash
  <2>1. Pending' = <<>> /\ published' = published
    BY <1>4 DEF Crash, B!Crash, B!FreshObject, Pending
  <2>2. QED
    BY <2>1 DEF Feed!Next, Feed!Lose
<1>5. CASE Tick
  BY <1>5 DEF Tick, B!Tick, B!memory, dispatch, Pending, Feed!vars
<1>6. CASE UNCHANGED vars
  BY <1>6 DEF vars, object, dispatch, Pending, Feed!vars
<1>7. QED
  BY <1>1, <1>2, <1>3, <1>4, <1>5, <1>6, PushStep, SaveStep DEF Next, Dispatch

\* The image path of the ground station implements ImageFeed.
THEOREM Refinement ==
    ASSUME ~MixedPayloads
    PROVE  Spec => ImplementsFeed
<1>1. Init => Feed!Init
  BY DEF Init, B!Init, Pending, Feed!Init
<1>2. IInv /\ [Next]_vars => [Feed!Next]_Feed!vars
  BY FeedStep
<1>3. QED
  BY <1>1, <1>2, Invariance, PTL DEF Spec, ImplementsFeed, Feed!Spec

-----------------------------------------------------------------------------
(***************************************************************************)
(* What follows from that: what ImageFeed ensures of itself.               *)
(***************************************************************************)

FeedTypes ==
    /\ Pending \in Seq(Packets) /\ published \in Seq(Seq(Packets))
    /\ \A k \in 1 .. Len(Pending) : ~Pending[k].last

FeedInv == FeedTypes /\ Feed!OneImageEach

LEMMA AppendedTo ==
    ASSUME NEW S, NEW q \in Seq(S), NEW x \in S
    PROVE  /\ Append(q, x) \in Seq(S) /\ Append(q, x) # <<>>
           /\ Len(q) \in Nat /\ Len(Append(q, x)) = Len(q) + 1
           /\ Append(q, x)[Len(Append(q, x))] = x
           /\ \A k \in 1 .. Len(q) : Append(q, x)[k] = q[k]
  OBVIOUS

LEMMA FeedDelivers ==
    ASSUME FeedInv, NEW p \in Packets, Feed!Deliver(p)
    PROVE  FeedInv'
<1> DEFINE d == Append(Pending, p)
           n == Len(published)
<1>1. /\ Pending \in Seq(Packets) /\ published \in Seq(Seq(Packets))
      /\ \A k \in 1 .. Len(Pending) : ~Pending[k].last
      /\ p.last /\ Pending' = <<>> /\ published' = Append(published, d)
  BY DEF FeedInv, FeedTypes, Feed!Deliver
<1> HIDE DEF Pending
<1>2. /\ d \in Seq(Packets) /\ d # <<>> /\ Len(Pending) \in Nat /\ Len(d) = Len(Pending) + 1
      /\ d[Len(d)] = p /\ \A k \in 1 .. Len(Pending) : d[k] = Pending[k]
  BY <1>1, AppendedTo
<1>3. ASSUME NEW k \in 1 .. Len(d) PROVE d[k].last <=> k = Len(d)
  <2>1. CASE k = Len(d)
    BY <1>1, <1>2, <2>1
  <2>2. CASE k # Len(d)
    <3>1. k \in 1 .. Len(Pending)
      BY <1>2, <2>2
    <3>2. QED
      BY <1>1, <1>2, <2>2, <3>1
  <2>3. QED
    BY <2>1, <2>2
<1> HIDE DEF d
<1>4. /\ published' \in Seq(Seq(Packets)) /\ n \in Nat /\ Len(published') = n + 1
      /\ published'[n + 1] = d /\ \A i \in 1 .. n : published'[i] = published[i]
  BY <1>1, <1>2
<1>5. ASSUME NEW i \in 1 .. Len(published')
      PROVE  /\ published'[i] # <<>>
             /\ \A k \in 1 .. Len(published'[i]) :
                   published'[i][k].last <=> k = Len(published'[i])
  <2>1. CASE i = n + 1
    BY <1>2, <1>3, <1>4, <2>1
  <2>2. CASE i # n + 1
    <3>1. i \in 1 .. n /\ published'[i] = published[i]
      BY <1>4, <2>2
    <3>2. QED
      BY <3>1 DEF FeedInv, Feed!OneImageEach
  <2>3. QED
    BY <2>1, <2>2
<1>6. FeedTypes'
  BY <1>1, <1>4 DEF FeedTypes
<1>7. QED
  BY <1>5, <1>6 DEF FeedInv, Feed!OneImageEach

LEMMA FeedKeeps ==
    ASSUME FeedInv, (\E p \in Packets : Feed!Receive(p)) \/ Feed!Lose \/ UNCHANGED Feed!vars
    PROVE  FeedInv'
<1>1. published' = published
  BY DEF Feed!Receive, Feed!Lose, Feed!vars
<1>2. FeedTypes'
  <2>1. CASE \E p \in Packets : Feed!Receive(p)
    <3>1. PICK p \in Packets : ~p.last /\ Pending' = Append(Pending, p)
      BY <2>1 DEF Feed!Receive
    <3>2. /\ Pending \in Seq(Packets) /\ published \in Seq(Seq(Packets))
          /\ \A k \in 1 .. Len(Pending) : ~Pending[k].last
      BY DEF FeedInv, FeedTypes
    <3> HIDE DEF Pending
    <3>3. /\ Pending' \in Seq(Packets) /\ Len(Pending') = Len(Pending) + 1 /\ Len(Pending) \in Nat
          /\ Pending'[Len(Pending) + 1] = p
          /\ \A k \in 1 .. Len(Pending) : Pending'[k] = Pending[k]
      BY <3>1, <3>2
    <3>4. \A k \in 1 .. Len(Pending') : ~Pending'[k].last
      BY <3>1, <3>2, <3>3
    <3>5. QED
      BY <1>1, <3>2, <3>3, <3>4 DEF FeedTypes
  <2>2. CASE Feed!Lose
    BY <1>1, <2>2 DEF Feed!Lose, FeedInv, FeedTypes
  <2>3. CASE UNCHANGED Feed!vars
    BY <2>3 DEF Feed!vars, FeedInv, FeedTypes
  <2>4. QED
    BY <2>1, <2>2, <2>3
<1>3. QED
  BY <1>1, <1>2 DEF FeedInv, Feed!OneImageEach

LEMMA FeedDeliversOne == Feed!Spec => []Feed!OneImageEach
<1>1. Feed!Init => FeedInv
  BY DEF Feed!Init, FeedInv, FeedTypes, Feed!OneImageEach
<1>2. FeedInv /\ [Feed!Next]_(Feed!vars) => FeedInv'
  BY FeedDelivers, FeedKeeps DEF Feed!Next
<1>3. FeedInv => Feed!OneImageEach
  BY DEF FeedInv
<1>4. QED
  BY <1>1, <1>2, <1>3, PTL DEF Feed!Spec

\* Each file that dispatch_payload has saved ends with the last packet of an image and
\* has none before, however many packets were lost and whatever failed.
THEOREM DeliversOneImageEach ==
    ASSUME ~MixedPayloads
    PROVE  Spec => []Feed!OneImageEach
  BY Refinement, FeedDeliversOne, PTL DEF ImplementsFeed

-----------------------------------------------------------------------------
(***************************************************************************)
(* What leaves the accumulator, and the types: also when payloads are      *)
(* mixed.  No ".part" file is ever open here, so a kill can only leave a   *)
(* part of what save_final was writing.                                    *)
(***************************************************************************)

\* save_final writes when it is called, and when it has been called the accumulator
\* is in a file or counted as lost.
WrittenInv ==
    /\ pc # "clear" => ~savedFinal
    /\ pc = "clear" =>
          \/ \E s \in B!Seconds : images[s] = streamAcc
          \/ Elements(streamAcc) \subseteq lost

StoreInv == TypeOK /\ ofs = "closed" /\ WrittenInv

Directory == [B!Seconds -> Seq(Packets) \cup {NoFile}]

LEMMA Written ==
    ASSUME NEW d \in Directory, NEW s \in B!Seconds, NEW c \in Seq(Packets)
    PROVE  [d EXCEPT ![s] = c] \in Directory
  BY DEF Directory

LEMMA PrefixType ==
    ASSUME NEW s \in Seq(Packets), NEW p \in B!Prefixes(s)
    PROVE  p \in Seq(Packets)
<1>1. PICK k \in 0 .. Len(s) : p = SubSeq(s, 1, k)
  BY DEF B!Prefixes, B!Prefix
<1>2. QED
  BY <1>1

LEMMA ElementsType == ASSUME NEW s \in Seq(Packets) PROVE Elements(s) \subseteq Packets
  BY DEF Elements

\* The fresh object and the empty directory.
LEMMA InitStoreInv == Init => StoreInv
<1> SUFFICES ASSUME Init PROVE StoreInv
  OBVIOUS
<1>1. next \in 1 .. Len(Downlink) + 1 /\ now \in B!Seconds
  BY ImageDownlinkAssumption DEF Init, B!Init, B!Seconds
<1>2. B!TypeOK
  BY <1>1 DEF Init, B!Init, B!TypeOK, B!Contents
<1>3. QED
  BY <1>1, <1>2 DEF Init, B!Init, StoreInv, TypeOK, WrittenInv

\* What arrives is a piece of the downlink, what does not is lost.
LEMMA LinkStoreInv == StoreInv /\ (Arrive \/ Miss) => StoreInv'
<1> SUFFICES ASSUME StoreInv, Arrive \/ Miss PROVE StoreInv'
  OBVIOUS
<1>1. Len(Downlink) \in Nat /\ next \in 1 .. Len(Downlink) + 1
  BY ImageDownlinkAssumption DEF StoreInv, TypeOK
<1>2. UNCHANGED object /\ published' = published /\ pc = "idle"
  BY DEF Arrive, Miss
<1>3. B!TypeOK' /\ ofs' = "closed"
  BY <1>2 DEF StoreInv, TypeOK, object, B!TypeOK
<1>4. CASE Arrive
  <2>1. PICK k \in 1 .. MaxPerPayload :
           /\ next + k - 1 <= Len(Downlink)
           /\ payload' = SubSeq(Downlink, next, next + k - 1)
           /\ next' = next + k
    BY <1>4 DEF Arrive
  <2>2. next \in 1 .. Len(Downlink) /\ next + k - 1 \in next .. Len(Downlink)
    BY <1>1, <2>1
  <2>3. payload' \in Seq(Packets) /\ payload' # <<>>
    BY <2>1, <2>2, PieceType
  <2>4. next' \in 1 .. Len(Downlink) + 1
    BY <1>1, <2>1
  <2>5. pc' = "walk" /\ savedOnce' = FALSE /\ lost' = lost
    BY <1>4 DEF Arrive
  <2>6. TypeOK'
    BY <1>2, <1>3, <2>3, <2>4, <2>5 DEF StoreInv, TypeOK
  <2>7. WrittenInv'
    BY <1>2, <2>5 DEF StoreInv, WrittenInv, object
  <2>8. QED
    BY <1>3, <2>6, <2>7 DEF StoreInv
<1>5. CASE Miss
  <2>1. /\ next' \in 1 .. Len(Downlink) + 1 /\ lost' = lost \cup {Downlink[next]}
        /\ Downlink[next] \in Packets
    BY <1>1, <1>5 DEF Miss, Packets
  <2>2. UNCHANGED dispatch
    BY <1>5 DEF Miss
  <2>3. TypeOK'
    BY <1>2, <1>3, <2>1, <2>2 DEF StoreInv, TypeOK, dispatch
  <2>4. WrittenInv'
    BY <1>2, <2>2 DEF StoreInv, WrittenInv, object, dispatch
  <2>5. QED
    BY <1>3, <2>3, <2>4 DEF StoreInv
<1>6. QED
  BY <1>4, <1>5

\* Pushing a packet.
LEMMA PushStoreInv == StoreInv /\ Push => StoreInv'
<1> SUFFICES ASSUME StoreInv, Push PROVE StoreInv'
  OBVIOUS
<1> DEFINE x == Head(payload)
<1>1. /\ pc = "walk" /\ payload # <<>> /\ payload \in Seq(Packets) /\ streamAcc \in Seq(Packets)
      /\ payload' = Tail(payload) /\ streamAcc' = Append(streamAcc, x)
      /\ UNCHANGED <<savedFinal, ofs, tmpPath, finalPath, images, parts, now, next, savedOnce, lost, published>>
  BY DEF Push, B!PushFragment, StoreInv, TypeOK, B!TypeOK, B!Contents
<1>2. pc' \in {"idle", "walk", "save"} /\ (pc' = "walk" => payload' # <<>>) /\ (pc' = "idle" => payload' = <<>>)
  BY <1>1 DEF Push, AfterPacket
<1>3. payload' \in Seq(Packets) /\ streamAcc' \in Seq(Packets)
  BY <1>1, HeadTail
<1>4. B!TypeOK'
  BY <1>1, <1>3 DEF StoreInv, TypeOK, B!TypeOK, B!Contents
<1>5. TypeOK'
  BY <1>1, <1>2, <1>3, <1>4 DEF StoreInv, TypeOK
<1>6. QED
  BY <1>1, <1>2, <1>5 DEF StoreInv, WrittenInv

\* Saving: the file holds the accumulator, or what is in it is counted as lost.
LEMMA SaveStoreInv == StoreInv /\ Save => StoreInv'
<1> SUFFICES ASSUME StoreInv, Save PROVE StoreInv'
  OBVIOUS
<1>1. /\ pc = "save" /\ pc' = "clear" /\ ~savedFinal /\ streamAcc \in Seq(Packets)
      /\ images \in Directory /\ now \in B!Seconds /\ lost \subseteq Packets
      /\ published \in Seq(Seq(Packets))
      /\ UNCHANGED <<streamAcc, ofs, tmpPath, finalPath, parts, now, next, payload, savedOnce>>
  BY DEF Save, B!SaveFinal, StoreInv, WrittenInv, TypeOK, B!TypeOK, B!Contents, Directory
<1>2. images' \in Directory /\ savedFinal' \in BOOLEAN
  <2>1. \/ images' = images /\ savedFinal' = savedFinal
        \/ images' \in B!SavedImages /\ savedFinal' = TRUE
    BY DEF Save, B!SaveFinal
  <2>2. ASSUME images' \in B!SavedImages PROVE images' \in Directory
    <3>1. \/ images' = images
          \/ images' = [images EXCEPT ![now] = streamAcc]
          \/ \E p \in B!Prefixes(streamAcc) : images' = [images EXCEPT ![now] = p]
      BY <2>2 DEF B!SavedImages
    <3>2. QED
      BY <1>1, <3>1, PrefixType, Written
  <2>3. savedFinal \in BOOLEAN
    BY DEF StoreInv, TypeOK, B!TypeOK
  <2>4. QED
    BY <1>1, <2>1, <2>2, <2>3
<1>3. \/ published' = Append(published, streamAcc) /\ lost' = lost /\ images'[now] = streamAcc
      \/ published' = published /\ lost' = lost \cup Elements(streamAcc)
  BY <1>1 DEF Save
<1>4. published' \in Seq(Seq(Packets)) /\ lost' \subseteq Packets
  <2>1. Append(published, streamAcc) \in Seq(Seq(Packets))
    BY <1>1, FrontLastOfAppend
  <2>2. Elements(streamAcc) \subseteq Packets
    BY <1>1, ElementsType
  <2>3. QED
    BY <1>1, <1>3, <2>1, <2>2
<1>5. B!TypeOK'
  BY <1>1, <1>2 DEF StoreInv, TypeOK, B!TypeOK, B!Contents, Directory
<1>6. TypeOK'
  BY <1>1, <1>4, <1>5 DEF StoreInv, TypeOK
<1>7. WrittenInv'
  BY <1>1, <1>3 DEF WrittenInv, Elements
<1>8. QED
  BY <1>1, <1>6, <1>7 DEF StoreInv

\* Clearing lowers the flag.
LEMMA ClearStoreInv == StoreInv /\ ClearAll => StoreInv'
<1> SUFFICES ASSUME StoreInv, ClearAll PROVE StoreInv'
  OBVIOUS
<1>1. /\ streamAcc' = <<>> /\ savedFinal' = FALSE /\ savedOnce' = TRUE
      /\ pc' \in {"idle", "walk"} /\ (pc' = "idle" <=> payload' = <<>>)
      /\ UNCHANGED <<ofs, tmpPath, finalPath, images, parts, now, next, payload, lost, published>>
  BY DEF ClearAll, B!Clear, AfterPacket
<1>2. streamAcc' \in Seq(Packets)
  BY <1>1
<1>3. B!TypeOK'
  BY <1>1, <1>2 DEF StoreInv, TypeOK, B!TypeOK, B!Contents
<1>4. TypeOK'
  BY <1>1, <1>3 DEF StoreInv, TypeOK
<1>5. QED
  BY <1>1, <1>4 DEF StoreInv, WrittenInv

\* A kill leaves the directory, or a part of the file that was being written.
LEMMA CrashStoreInv == StoreInv /\ Crash => StoreInv'
<1> SUFFICES ASSUME StoreInv, Crash PROVE StoreInv'
  OBVIOUS
<1>1. /\ streamAcc' = <<>> /\ savedFinal' = FALSE /\ ofs' = "closed" /\ tmpPath' = NoPath /\ finalPath' = NoPath
      /\ images' \in B!CrashedImages /\ parts' \in B!CrashedParts
      /\ payload' = <<>> /\ savedOnce' = FALSE /\ pc' = "idle"
      /\ UNCHANGED <<now, next, published>>
  BY DEF Crash, B!Crash, B!FreshObject
<1>2. /\ ofs = "closed" /\ streamAcc \in Seq(Packets) /\ payload \in Seq(Packets)
      /\ images \in Directory /\ parts \in Directory /\ now \in B!Seconds /\ lost \subseteq Packets
  BY DEF StoreInv, TypeOK, B!TypeOK, B!Contents, Directory
<1>3. parts' \in Directory
  BY <1>1, <1>2 DEF B!CrashedParts
<1>4. images' \in Directory
  <2>1. \/ images' = images
        \/ \E p \in B!Prefixes(streamAcc) : images' = [images EXCEPT ![now] = p]
    BY <1>1, <1>2 DEF B!CrashedImages
  <2>2. QED
    BY <1>2, <2>1, PrefixType, Written
<1>5. lost' \subseteq Packets
  BY <1>2, ElementsType DEF Crash
<1>6. streamAcc' \in Seq(Packets) /\ payload' \in Seq(Packets) /\ now' \in B!Seconds
  BY <1>1, <1>2
<1>7. B!TypeOK'
  BY <1>1, <1>3, <1>4, <1>6 DEF B!TypeOK, B!Contents, Directory
<1>8. TypeOK'
  BY <1>1, <1>5, <1>6, <1>7 DEF StoreInv, TypeOK
<1>9. QED
  BY <1>1, <1>8 DEF StoreInv, WrittenInv

\* The clock moves on, or nothing happens.
LEMMA TickStoreInv == StoreInv /\ (Tick \/ UNCHANGED vars) => StoreInv'
<1> SUFFICES ASSUME StoreInv, Tick \/ UNCHANGED vars PROVE StoreInv'
  OBVIOUS
<1>1. UNCHANGED <<streamAcc, savedFinal, ofs, tmpPath, finalPath, images, parts, next, payload, savedOnce, pc, lost, published>>
  BY DEF Tick, B!Tick, B!memory, B!disk, vars, object, dispatch
<1>2. now' \in B!Seconds
  BY ImageDownlinkAssumption
  DEF Tick, B!Tick, vars, object, StoreInv, TypeOK, B!TypeOK, B!Seconds
<1>3. B!TypeOK'
  BY <1>1, <1>2 DEF StoreInv, TypeOK, B!TypeOK
<1>4. TypeOK'
  BY <1>1, <1>3 DEF StoreInv, TypeOK
<1>5. WrittenInv'
  BY <1>1 DEF StoreInv, WrittenInv
<1>6. QED
  BY <1>1, <1>4, <1>5 DEF StoreInv

\* The second invariant holds in every state of the specification.
THEOREM StoreInvariance == Spec => []StoreInv
<1>1. Init => StoreInv
  BY InitStoreInv
<1>2. StoreInv /\ [Next]_vars => StoreInv'
  BY LinkStoreInv, PushStoreInv, SaveStoreInv, ClearStoreInv, CrashStoreInv, TickStoreInv
  DEF Next, Dispatch
<1>3. QED
  BY <1>1, <1>2, PTL DEF Spec

\* The types of the variables.
THEOREM TypeCorrect == Spec => []TypeOK
<1>1. StoreInv => TypeOK
  BY DEF StoreInv
<1>2. QED
  BY <1>1, StoreInvariance, PTL

\* Only a step of ClearAll or a kill empties the accumulator; at the former it is in a
\* file or counted as lost already, and the latter counts it.
LEMMA EmptiedStep ==
    ASSUME StoreInv, [Next]_vars, streamAcc # <<>>, streamAcc' = <<>>
    PROVE  \/ \E s \in B!Seconds : images[s] = streamAcc
           \/ Elements(streamAcc) \subseteq lost'
<1>1. CASE ClearAll
  BY <1>1 DEF ClearAll, StoreInv, WrittenInv
<1>2. CASE Crash
  <2>1. CASE pc = "clear"
    BY <1>2, <2>1 DEF Crash, StoreInv, WrittenInv
  <2>2. CASE pc # "clear"
    BY <1>2, <2>2 DEF Crash
  <2>3. QED
    BY <2>1, <2>2
<1>3. CASE Push
  <2>1. streamAcc \in Seq(Packets) /\ Head(payload) \in Packets
    BY <1>3, HeadTail DEF Push, StoreInv, TypeOK, B!TypeOK, B!Contents
  <2>2. streamAcc' # <<>>
    BY <1>3, <2>1, FrontLastOfAppend DEF Push, B!PushFragment
  <2>3. QED
    BY <2>2
<1>4. CASE Arrive \/ Miss \/ Save \/ Tick \/ UNCHANGED vars
  <2>1. streamAcc' = streamAcc
    BY <1>4 DEF Arrive, Miss, Save, B!SaveFinal, Tick, B!Tick, B!memory, vars, object
  <2>2. QED
    BY <2>1
<1>5. QED
  BY <1>1, <1>2, <1>3, <1>4 DEF Next, Dispatch

\* Data leaves the accumulator only into a file, unless a call failed or the process
\* was killed; and then it is counted as lost.
THEOREM Emptied == Spec => ClearedIsSaved
<1>1. StoreInv /\ [Next]_vars =>
          [ streamAcc # <<>> /\ streamAcc' = <<>> =>
              \/ \E s \in B!Seconds : images[s] = streamAcc
              \/ Elements(streamAcc) \subseteq lost' ]_vars
  BY EmptiedStep
<1>2. QED
  BY <1>1, StoreInvariance, PTL DEF Spec, ClearedIsSaved

-----------------------------------------------------------------------------
(***************************************************************************)
(* What is in the accumulator and in the files, when payloads are not      *)
(* mixed.  The walk has reached a position of the downlink; as long as     *)
(* the image it is in is intact, the accumulator holds that image from its *)
(* first packet up to there, and nothing between two images.               *)
(***************************************************************************)

\* The packets that were pushed or lost so far.
Reached == next - 1 - Len(payload)

\* The rest of the payload is what follows in the downlink.
PositionInv ==
    /\ Reached \in 0 .. Len(Downlink)
    /\ \A j \in 1 .. Len(payload) : payload[j] = Downlink[Reached + j]

StartsImage(a) == a = 1 \/ Downlink[a - 1].last

\* The accumulator is the image the packet at Reached belongs to, so far.
Gathered ==
    \E a \in 1 .. Reached :
        /\ StartsImage(a)
        /\ Downlink[a].image = Downlink[Reached].image
        /\ streamAcc = SubSeq(Downlink, a, Reached)

GatherInv ==
    /\ Reached = 0 => streamAcc = <<>>
    /\ pc \in {"save", "clear"} =>
          Reached > 0 /\ Downlink[Reached].last /\ Last(streamAcc) = Downlink[Reached]
    /\ Reached > 0 =>
          /\ pc \in {"save", "clear"} \/ ~Downlink[Reached].last
                => (Intact(Downlink[Reached].image) => Gathered)
          /\ pc \in {"idle", "walk"} /\ Downlink[Reached].last
                => Downlink[Reached] \in lost \/ streamAcc = <<>>

DamageInv ==
    /\ IInv /\ StoreInv /\ PositionInv /\ GatherInv /\ DamageConfined

\* A packet and the next one are of the same image, or the first ends it and the
\* second is of the next.
LEMMA NextPacket ==
    ASSUME NEW j \in 1 .. Len(Downlink), j + 1 \in 1 .. Len(Downlink)
    PROVE  Downlink[j + 1].image = IF Downlink[j].last THEN Downlink[j].image + 1
                                                       ELSE Downlink[j].image
<1>1. j \in Nat /\ j < j + 1 /\ \A l \in j .. (j + 1) - 1 : l = j
  BY ImageDownlinkAssumption
<1>2. /\ Downlink[j].image = Downlink[j + 1].image
            <=> \A l \in j .. (j + 1) - 1 : ~Downlink[l].last
      /\ Downlink[j].last => Downlink[j + 1].image = Downlink[j].image + 1
  BY <1>1, ImagesInTurn
<1>3. QED
  BY <1>1, <1>2

\* From the first packet of an image to its last one is the whole image.
LEMMA WholeImage ==
    ASSUME NEW b \in 1 .. Len(Downlink), NEW a \in 1 .. b, StartsImage(a),
           Downlink[a].image = Downlink[b].image, Downlink[b].last
    PROVE  IsImage(SubSeq(Downlink, a, b), Downlink[b].image)
<1> DEFINE i == Downlink[b].image
           P == {j \in 1 .. Len(Downlink) : Downlink[j].image = i}
<1>1. Len(Downlink) \in Nat /\ a \in 1 .. Len(Downlink)
  BY ImageDownlinkAssumption
<1>2. ASSUME NEW j \in 1 .. Len(Downlink), j < a PROVE Downlink[j].image # i
  <2>1. a - 1 \in j .. a - 1 /\ Downlink[a - 1].last
    BY <1>1, <1>2 DEF StartsImage
  <2>2. QED
    BY <1>1, <1>2, <2>1, ImagesInTurn
<1>3. ASSUME NEW j \in 1 .. Len(Downlink), b < j PROVE Downlink[j].image # i
  <2>1. b \in b .. j - 1
    BY <1>1, <1>3
  <2>2. QED
    BY <1>1, <1>3, <2>1, ImagesInTurn
<1>4. ASSUME NEW j \in a .. b PROVE j \in 1 .. Len(Downlink) /\ Downlink[j].image = i
  <2>1. j \in 1 .. Len(Downlink)
    BY <1>1, <1>4
  <2>2. CASE j = b
    BY <2>1, <2>2
  <2>3. CASE j < b
    <3>1. a < b
      BY <1>1, <2>3
    <3>2. \A l \in a .. b - 1 : ~Downlink[l].last
      BY <1>1, <3>1, ImagesInTurn
    <3>3. \A l \in j .. b - 1 : ~Downlink[l].last
      BY <1>1, <3>2
    <3>4. QED
      BY <1>1, <2>1, <2>3, <3>3, ImagesInTurn
  <2>4. QED
    BY <1>1, <2>2, <2>3
<1>5. P = a .. b
  <2>1. ASSUME NEW j \in P PROVE j \in a .. b
    BY <1>1, <1>2, <1>3
  <2>2. QED
    BY <1>4, <2>1
<1>6. QED
  BY <1>1, <1>5 DEF IsImage

\* A piece of the downlink, its elements and its last one.
LEMMA Piece ==
    ASSUME NEW b \in 1 .. Len(Downlink), NEW a \in 1 .. b
    PROVE  /\ SubSeq(Downlink, a, b) \in Seq(Packets)
           /\ SubSeq(Downlink, a, b) # <<>>
           /\ Last(SubSeq(Downlink, a, b)) = Downlink[b]
           /\ Downlink[b] \in Elements(SubSeq(Downlink, a, b))
<1>1. Downlink \in Seq(Packet) /\ Len(Downlink) \in Nat
  BY ImageDownlinkAssumption
<1>2. SubSeq(Downlink, a, b) \in Seq(Packets) /\ SubSeq(Downlink, a, b) # <<>>
  BY <1>1, PieceType
<1>3. /\ Len(SubSeq(Downlink, a, b)) = b - a + 1
      /\ SubSeq(Downlink, a, b)[b - a + 1] = Downlink[b]
  BY <1>1
<1>4. b - a + 1 \in 1 .. Len(SubSeq(Downlink, a, b))
  BY <1>1, <1>3
<1>5. QED
  BY <1>2, <1>3, <1>4 DEF Last, Elements

\* A piece of the downlink grows by the packet after it.
LEMMA PieceGrows ==
    ASSUME NEW b \in 0 .. Len(Downlink), b + 1 \in 1 .. Len(Downlink), NEW a \in 1 .. b + 1
    PROVE  Append(SubSeq(Downlink, a, b), Downlink[b + 1]) = SubSeq(Downlink, a, b + 1)
<1>1. Downlink \in Seq(Packet) /\ Len(Downlink) \in Nat
  BY ImageDownlinkAssumption
<1>2. QED
  BY <1>1

\* A proper part of what save_final writes ends no image.
LEMMA PartOfSaved ==
    ASSUME NEW s \in Seq(Packets), NEW p \in B!Prefixes(s), p # <<>>, Last(p).last,
           s # <<>> => NoLast(Front(s))
    PROVE  p = s
<1>1. PICK k \in 0 .. Len(s) : p = SubSeq(s, 1, k)
  BY DEF B!Prefixes, B!Prefix
<1>2. Len(s) \in Nat /\ k \in Nat /\ k > 0 /\ Len(p) = k /\ p[k] = s[k]
  BY <1>1
<1>3. s # <<>> /\ s[k].last
  BY <1>2 DEF Last
<1>4. CASE k = Len(s)
  BY <1>1, <1>4
<1>5. CASE k < Len(s)
  <2>1. k \in 1 .. Len(Front(s)) /\ Front(s)[k] = s[k]
    BY <1>2, <1>5 DEF Front
  <2>2. QED
    BY <1>3, <2>1 DEF NoLast
<1>6. QED
  BY <1>2, <1>4, <1>5

\* What the invariants say of the types.
LEMMA DamageTypes ==
    ASSUME DamageInv
    PROVE  /\ Len(Downlink) \in Nat /\ next \in 1 .. Len(Downlink) + 1
           /\ streamAcc \in Seq(Packets) /\ payload \in Seq(Packets) /\ Len(payload) \in Nat
           /\ Reached \in 0 .. Len(Downlink)
           /\ images \in Directory /\ now \in B!Seconds /\ lost \subseteq Packets
  BY ImageDownlinkAssumption
  DEF DamageInv, IInv, Types, PositionInv, StoreInv, TypeOK, B!TypeOK, B!Contents, Directory

\* With the packets of l lost, the contents c are a whole image if they claim to be.
Confined(l, c) ==
    LET i == Last(c).image IN
        /\ c # <<>> /\ Last(c).last
        /\ \A p \in l : p.image # i /\ ~(p.last /\ p.image = i - 1)
        => IsImage(c, i)

LEMMA ConfinedFiles ==
    DamageConfined <=> \A s \in B!Seconds : images[s] # NoFile => Confined(lost, images[s])
  BY DEF DamageConfined, Confined, Intact

\* More losses leave fewer images intact.
LEMMA MoreLost ==
    ASSUME NEW l, NEW m, l \subseteq m, NEW c, Confined(l, c)
    PROVE  Confined(m, c)
  BY DEF Confined

\* The files stay as they are, or one receives what is itself confined.
LEMMA FilesConfined ==
    ASSUME images \in Directory, DamageConfined, lost \subseteq lost',
           \/ images' = images
           \/ \E c : Confined(lost', c) /\ images' = [images EXCEPT ![now] = c]
    PROVE  DamageConfined'
<1>1. ASSUME NEW s \in B!Seconds, images'[s] # NoFile PROVE Confined(lost', images'[s])
  <2>1. images'[s] = images[s] \/ Confined(lost', images'[s])
    BY DEF Directory
  <2>2. images[s] # NoFile => Confined(lost', images[s])
    BY ConfinedFiles, MoreLost
  <2>3. QED
    BY <1>1, <2>1, <2>2
<1>2. QED
  BY <1>1 DEF DamageConfined, Confined, Intact, B!Seconds

\* Nothing but the link, the walk and a kill changes where the walk is.
LEMMA SamePlace ==
    ASSUME next' = next, payload' = payload
    PROVE  Reached' = Reached /\ (PositionInv => PositionInv')
  BY DEF Reached, PositionInv

\* A frame that arrives is walked over from where the last one ended.
LEMMA ArriveDamageInv ==
    ASSUME ~MixedPayloads, DamageInv, Arrive
    PROVE  PositionInv' /\ GatherInv' /\ DamageConfined'
<1>1. PICK k \in 1 .. MaxPerPayload :
         /\ next + k - 1 <= Len(Downlink)
         /\ payload' = SubSeq(Downlink, next, next + k - 1)
         /\ next' = next + k
  BY DEF Arrive
<1>2. /\ Len(Downlink) \in Nat /\ next \in 1 .. Len(Downlink) + 1 /\ k \in Nat /\ k >= 1
      /\ images \in Directory /\ now \in B!Seconds
  BY DamageTypes, ImageDownlinkAssumption
<1>3. payload = <<>> /\ Reached = next - 1
  BY <1>2 DEF DamageInv, IInv, PayloadInv, Arrive, Reached
<1>4. /\ Len(payload') = k
      /\ \A j \in 1 .. k : payload'[j] = Downlink[next - 1 + j]
  BY <1>1, <1>2
<1>5. Reached' = Reached
  BY <1>1, <1>2, <1>3, <1>4 DEF Reached
<1>6. PositionInv'
  BY <1>3, <1>4, <1>5 DEF PositionInv, DamageInv
<1>7. UNCHANGED <<streamAcc, images, lost>> /\ pc = "idle" /\ pc' = "walk"
  BY DEF Arrive, object
<1>8. GatherInv'
  BY <1>5, <1>7 DEF GatherInv, Gathered, Intact, DamageInv
<1>9. DamageConfined'
  BY <1>7 DEF DamageConfined, Intact, DamageInv, B!Seconds
<1>10. QED
  BY <1>6, <1>8, <1>9

\* A packet that does not arrive leaves its image damaged, and the next one if it was
\* the last.
LEMMA MissDamageInv ==
    ASSUME DamageInv, Miss
    PROVE  PositionInv' /\ GatherInv' /\ DamageConfined'
<1>1. /\ Len(Downlink) \in Nat /\ next \in 1 .. Len(Downlink)
      /\ streamAcc \in Seq(Packets) /\ images \in Directory /\ now \in B!Seconds
  BY DamageTypes DEF Miss
<1>2. /\ UNCHANGED <<streamAcc, images, payload, pc>> /\ pc = "idle"
      /\ next' = next + 1 /\ lost' = lost \cup {Downlink[next]}
  BY DEF Miss, object, dispatch
<1>3. payload = <<>> /\ Len(payload) = 0
  BY <1>2 DEF DamageInv, IInv, PayloadInv
<1>4. Reached' = next /\ Reached' > 0
  BY <1>1, <1>2, <1>3 DEF Reached
<1>5. PositionInv'
  BY <1>1, <1>2, <1>3, <1>4 DEF PositionInv
<1>6. Downlink[Reached'] \in lost'
  BY <1>2, <1>4
<1>7. GatherInv'
  BY <1>2, <1>4, <1>6 DEF GatherInv, Intact
<1>8. DamageConfined'
  BY <1>1, <1>2, FilesConfined DEF DamageInv
<1>9. QED
  BY <1>5, <1>7, <1>8

\* Pushing a packet: the accumulator grows by what follows in the downlink, or, after
\* the end of an image, starts with the first packet of the next.
LEMMA PushDamageInv ==
    ASSUME DamageInv, Push
    PROVE  PositionInv' /\ GatherInv' /\ DamageConfined'
<1> DEFINE x == Head(payload)
           r == Reached + 1
<1>1. /\ Len(Downlink) \in Nat /\ next \in 1 .. Len(Downlink) + 1
      /\ streamAcc \in Seq(Packets) /\ payload \in Seq(Packets) /\ Len(payload) \in Nat
      /\ Reached \in 0 .. Len(Downlink) /\ images \in Directory
  BY DamageTypes
<1>2. /\ pc = "walk" /\ payload # <<>>
      /\ payload' = Tail(payload) /\ streamAcc' = Append(streamAcc, x)
      /\ UNCHANGED <<images, now, next, lost>>
      /\ pc' = IF x.last /\ ~savedOnce THEN "save" ELSE AfterPacket(Tail(payload))
  BY DEF Push, B!PushFragment, DamageInv, IInv, PayloadInv
<1>3. /\ x = payload[1] /\ Len(payload) >= 1 /\ Len(payload') = Len(payload) - 1
      /\ \A j \in 1 .. Len(payload') : payload'[j] = payload[j + 1]
  BY <1>1, <1>2, HeadTail
<1>4. Reached' = r /\ r \in 1 .. Len(Downlink) /\ x = Downlink[r]
  <2>1. Reached' = r
    BY <1>1, <1>2, <1>3 DEF Reached
  <2>2. r <= next - 1
    BY <1>1, <1>3 DEF Reached
  <2>3. x = Downlink[r]
    BY <1>1, <1>3 DEF DamageInv, PositionInv
  <2>4. QED
    BY <1>1, <2>1, <2>2, <2>3
<1>5. PositionInv'
  BY <1>1, <1>3, <1>4 DEF DamageInv, PositionInv
<1>6. ~(pc' \in {"idle", "walk"} /\ x.last)
  <2>1. x.last => ~savedOnce
    BY <1>1, <1>2, TailLast DEF DamageInv, IInv, PayloadInv
  <2>2. QED
    BY <1>2, <2>1
<1>7. (pc' \in {"save", "clear"} => x.last) /\ Last(streamAcc') = x
  BY <1>1, <1>2, HeadTail, FrontLastOfAppend DEF AfterPacket
<1> HIDE DEF x
<1>8. ASSUME Intact(Downlink[r].image) PROVE Gathered'
  <2>1. CASE Reached = 0
    <3>1. streamAcc' = Append(<<>>, Downlink[1]) /\ r = 1
      BY <1>2, <1>4, <2>1 DEF DamageInv, GatherInv
    <3>2. streamAcc' = SubSeq(Downlink, 1, r)
      BY <1>1, <1>4, <3>1, ImageDownlinkAssumption
    <3>3. QED
      BY <1>1, <1>4, <3>1, <3>2 DEF Gathered, StartsImage
  <2>2. CASE Reached # 0 /\ Downlink[Reached].last
    <3>0. Reached \in 1 .. Len(Downlink)
      BY <1>1, <2>2
    <3>1. Downlink[r].image = Downlink[Reached].image + 1 /\ Downlink[Reached].image \in Nat
      <4>1. Downlink[Reached] \in Packet
        BY <3>0, ImageDownlinkAssumption
      <4>2. QED
        BY <1>4, <2>2, <3>0, <4>1, NextPacket DEF Packet
    <3>2. Downlink[Reached] \notin lost
      BY <1>8, <2>2, <3>1 DEF Intact
    <3>3. streamAcc = <<>>
      BY <1>1, <1>2, <2>2, <3>2 DEF DamageInv, GatherInv
    <3>4. streamAcc' = SubSeq(Downlink, r, r)
      BY <1>2, <1>4, <3>3, ImageDownlinkAssumption
    <3>5. StartsImage(r)
      BY <1>1, <2>2 DEF StartsImage
    <3>6. QED
      BY <1>1, <1>4, <3>4, <3>5 DEF Gathered
  <2>3. CASE Reached # 0 /\ ~Downlink[Reached].last
    <3>1. Downlink[r].image = Downlink[Reached].image
      BY <1>1, <1>4, <2>3, NextPacket
    <3>2. Gathered
      BY <1>1, <1>8, <2>3, <3>1 DEF DamageInv, GatherInv
    <3>3. PICK a \in 1 .. Reached :
             /\ StartsImage(a)
             /\ Downlink[a].image = Downlink[Reached].image
             /\ streamAcc = SubSeq(Downlink, a, Reached)
      BY <3>2 DEF Gathered
    <3>4. streamAcc' = SubSeq(Downlink, a, r) /\ a \in 1 .. r
      BY <1>1, <1>2, <1>4, <3>3, PieceGrows
    <3>5. QED
      BY <1>4, <3>1, <3>3, <3>4 DEF Gathered
  <2>4. QED
    BY <2>1, <2>2, <2>3
<1>9. GatherInv'
  BY <1>1, <1>2, <1>4, <1>6, <1>7, <1>8 DEF GatherInv, Intact
<1>10. DamageConfined'
  BY <1>1, <1>2, FilesConfined DEF DamageInv
<1>11. QED
  BY <1>5, <1>9, <1>10

\* What save_final may write is a whole image or claims to be none.
LEMMA SavedConfined ==
    ASSUME DamageInv, NEW p \in B!Prefixes(streamAcc)
    PROVE  Confined(lost, p)
<1> SUFFICES ASSUME p # <<>>, Last(p).last, Intact(Last(p).image)
             PROVE  IsImage(p, Last(p).image)
  BY DEF Confined, Intact
<1>1. /\ Len(Downlink) \in Nat /\ streamAcc \in Seq(Packets)
      /\ Reached \in 0 .. Len(Downlink)
  BY DamageTypes
<1>2. p = streamAcc
  <2>1. streamAcc # <<>> => NoLast(Front(streamAcc))
    <3>1. CASE pc \in {"save", "clear"}
      BY <3>1 DEF DamageInv, IInv, AccumulatorInv
    <3>2. CASE pc \notin {"save", "clear"} /\ streamAcc # <<>>
      <4>1. NoLast(streamAcc)
        BY <3>2 DEF DamageInv, IInv, Types, AccumulatorInv
      <4>2. QED
        BY <1>1, <3>2, <4>1 DEF NoLast, Front
    <3>3. QED
      BY <3>1, <3>2
  <2>2. QED
    BY <1>1, <2>1, PartOfSaved
<1>3. Last(streamAcc) = streamAcc[Len(streamAcc)] /\ Len(streamAcc) \in 1 .. Len(streamAcc)
  BY <1>1, <1>2 DEF Last
<1>4. pc \in {"save", "clear"}
  BY <1>2, <1>3 DEF DamageInv, IInv, Types, AccumulatorInv, NoLast
<1>5. Reached > 0 /\ Downlink[Reached].last
  BY <1>4 DEF DamageInv, GatherInv
<1>6. Intact(Downlink[Reached].image) => Gathered
  BY <1>4, <1>5 DEF DamageInv, GatherInv
<1>7. Last(streamAcc) = Downlink[Reached]
  BY <1>4 DEF DamageInv, GatherInv
<1>8. PICK a \in 1 .. Reached :
         /\ StartsImage(a)
         /\ Downlink[a].image = Downlink[Reached].image
         /\ streamAcc = SubSeq(Downlink, a, Reached)
  BY <1>2, <1>6, <1>7 DEF Gathered
<1>9. QED
  BY <1>1, <1>2, <1>5, <1>7, <1>8, WholeImage

\* Saving: the file that is written is confined.
LEMMA SaveDamageInv ==
    ASSUME DamageInv, Save
    PROVE  PositionInv' /\ GatherInv' /\ DamageConfined'
<1>1. /\ streamAcc \in Seq(Packets) /\ images \in Directory /\ Len(streamAcc) \in Nat
  BY DamageTypes
<1>2. /\ pc = "save" /\ pc' = "clear" /\ lost \subseteq lost'
      /\ UNCHANGED <<streamAcc, next, payload>>
  BY DEF Save, B!SaveFinal
<1>3. Reached' = Reached /\ PositionInv'
  BY <1>2, SamePlace DEF DamageInv
<1>4. GatherInv'
  BY <1>2, <1>3 DEF DamageInv, GatherInv, Gathered, Intact
<1>5. streamAcc \in B!Prefixes(streamAcc)
  BY <1>1 DEF B!Prefixes, B!Prefix
<1>6. \/ images' = images
      \/ \E p \in B!Prefixes(streamAcc) : images' = [images EXCEPT ![now] = p]
  <2>1. images' = images \/ images' \in B!SavedImages
    BY DEF Save, B!SaveFinal
  <2>2. QED
    BY <1>5, <2>1 DEF B!SavedImages
<1>7. DamageConfined'
  <2>1. ASSUME NEW p \in B!Prefixes(streamAcc) PROVE Confined(lost', p)
    BY <1>2, SavedConfined, MoreLost
  <2>2. QED
    BY <1>1, <1>2, <1>6, <2>1, FilesConfined DEF DamageInv
<1>8. QED
  BY <1>3, <1>4, <1>7

\* Clearing: what was gathered ended an image, so nothing is missed.
LEMMA ClearDamageInv ==
    ASSUME DamageInv, ClearAll
    PROVE  PositionInv' /\ GatherInv' /\ DamageConfined'
<1>1. /\ pc = "clear" /\ pc' \in {"idle", "walk"} /\ streamAcc' = <<>>
      /\ UNCHANGED <<images, now, next, payload, lost>>
  BY DEF ClearAll, B!Clear, AfterPacket
<1>2. Reached' = Reached /\ PositionInv'
  BY <1>1, SamePlace DEF DamageInv
<1>3. Reached > 0 /\ Downlink[Reached].last
  BY <1>1 DEF DamageInv, GatherInv
<1>4. GatherInv'
  BY <1>1, <1>2, <1>3 DEF GatherInv
<1>5. DamageConfined'
  BY <1>1 DEF DamageInv, DamageConfined, Intact, B!Seconds
<1>6. QED
  BY <1>2, <1>4, <1>5

\* A kill: the image the walk was in is no longer intact, since what was gathered of
\* it, or of the payload, is lost; and a file that was being written is confined.
LEMMA CrashDamageInv ==
    ASSUME DamageInv, Crash
    PROVE  PositionInv' /\ GatherInv' /\ DamageConfined'
<1>1. /\ Len(Downlink) \in Nat /\ next \in 1 .. Len(Downlink) + 1
      /\ streamAcc \in Seq(Packets) /\ payload \in Seq(Packets) /\ Len(payload) \in Nat
      /\ Reached \in 0 .. Len(Downlink) /\ images \in Directory
  BY DamageTypes
<1>2. /\ streamAcc' = <<>> /\ payload' = <<>> /\ pc' = "idle" /\ next' = next
      /\ lost' = lost \cup Elements(payload)
                     \cup (IF pc = "clear" THEN {} ELSE Elements(streamAcc))
  BY DEF Crash, B!Crash, B!FreshObject
<1>3. Reached' = next - 1 /\ Reached' \in 0 .. Len(Downlink) /\ PositionInv'
  BY <1>1, <1>2 DEF Reached, PositionInv
<1> DEFINE Damages(p) == \/ p.image = Downlink[Reached'].image
                         \/ p.last /\ p.image = Downlink[Reached'].image - 1
<1>4. ASSUME Reached' > 0, ~Downlink[Reached'].last
      PROVE  \E p \in lost' : Damages(p)
  <2> SUFFICES ASSUME \A p \in lost' : ~Damages(p) PROVE FALSE
    OBVIOUS
  <2>1. Downlink[Reached'] \notin lost'
    OBVIOUS
  <2>2. payload = <<>>
    <3> SUFFICES ASSUME payload # <<>> PROVE FALSE
      OBVIOUS
    <3>1. Len(payload) >= 1 /\ Reached' = Reached + Len(payload)
      BY <1>1, <1>3 DEF Reached
    <3>2. payload[Len(payload)] = Downlink[Reached']
      BY <1>1, <3>1 DEF DamageInv, PositionInv
    <3>3. Downlink[Reached'] \in Elements(payload)
      BY <1>1, <3>1, <3>2 DEF Elements
    <3>4. QED
      BY <1>2, <2>1, <3>3
  <2>3. Reached' = Reached
    BY <1>2, <2>2 DEF Reached
  <2>4. pc \notin {"save", "clear"}
    BY <1>4, <2>3 DEF DamageInv, GatherInv
  <2>5. Intact(Downlink[Reached].image)
    BY <1>2, <2>3 DEF Intact
  <2>6. Gathered
    BY <1>4, <2>3, <2>4, <2>5 DEF DamageInv, GatherInv
  <2>7. Downlink[Reached] \in Elements(streamAcc)
    BY <1>1, <1>4, <2>3, <2>6, Piece DEF Gathered
  <2>8. QED
    BY <1>2, <2>1, <2>3, <2>4, <2>7
<1>5. GatherInv'
  BY <1>2, <1>4 DEF GatherInv, Intact
<1>6. \/ images' = images
      \/ \E p \in B!Prefixes(streamAcc) : images' = [images EXCEPT ![now] = p]
  BY DEF Crash, B!Crash, B!CrashedImages, DamageInv, StoreInv
<1>7. DamageConfined'
  BY <1>1, <1>2, <1>6, SavedConfined, MoreLost, FilesConfined DEF DamageInv
<1>8. QED
  BY <1>3, <1>5, <1>7

LEMMA InitDamageInv == Init => DamageInv
<1> SUFFICES ASSUME Init PROVE DamageInv
  OBVIOUS
<1>1. IInv /\ StoreInv
  BY InitIInv, InitStoreInv
<1>2. /\ payload = <<>> /\ next = 1 /\ streamAcc = <<>> /\ pc = "idle"
      /\ \A s \in B!Seconds : images[s] = NoFile
  BY DEF Init, B!Init
<1>3. Len(payload) = 0 /\ next = 1 /\ Len(Downlink) \in Nat
  BY <1>2, ImageDownlinkAssumption
<1>4. Reached = 0
  BY <1>3 DEF Reached
<1>5. QED
  BY <1>1, <1>2, <1>3, <1>4 DEF DamageInv, PositionInv, GatherInv, DamageConfined

\* Every step preserves the invariant.
LEMMA NextDamageInv ==
    ASSUME ~MixedPayloads
    PROVE  DamageInv /\ [Next]_vars => DamageInv'
<1> SUFFICES ASSUME DamageInv, [Next]_vars PROVE DamageInv'
  OBVIOUS
<1>1. IInv' /\ StoreInv'
  <2>1. IInv'
    BY NextIInv DEF DamageInv
  <2>2. StoreInv'
    BY LinkStoreInv, PushStoreInv, SaveStoreInv, ClearStoreInv, CrashStoreInv, TickStoreInv
    DEF DamageInv, Next, Dispatch
  <2>3. QED
    BY <2>1, <2>2
<1>2. PositionInv' /\ GatherInv' /\ DamageConfined'
  <2>1. CASE Tick \/ UNCHANGED vars
    <3>1. UNCHANGED <<streamAcc, images, next, payload, pc, lost>>
      BY <2>1 DEF Tick, B!Tick, B!memory, B!disk, vars, object, dispatch
    <3>2. Reached' = Reached /\ PositionInv'
      BY <3>1, SamePlace DEF DamageInv
    <3>3. GatherInv'
      BY <3>1, <3>2 DEF DamageInv, GatherInv, Gathered, Intact
    <3>4. DamageConfined'
      BY <3>1 DEF DamageInv, DamageConfined, Intact, B!Seconds
    <3>5. QED
      BY <3>2, <3>3, <3>4
  <2>2. QED
    BY <2>1, ArriveDamageInv, MissDamageInv, PushDamageInv, SaveDamageInv, ClearDamageInv,
       CrashDamageInv
    DEF Next, Dispatch
<1>3. QED
  BY <1>1, <1>2 DEF DamageInv

\* A lost packet damages no image but its own, and the one after it if it was the last
\* packet of its image, in any downlink of images sent in turn.
THEOREM DamageStaysConfined ==
    ASSUME ~MixedPayloads
    PROVE  Spec => []DamageConfined
<1>1. Init => DamageInv
  BY InitDamageInv
<1>2. DamageInv /\ [Next]_vars => DamageInv'
  BY NextDamageInv
<1>3. DamageInv => DamageConfined
  BY DEF DamageInv
<1>4. QED
  BY <1>1, <1>2, <1>3, PTL DEF Spec
=============================================================================
