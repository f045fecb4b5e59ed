---------------------------- MODULE ImageExtract ----------------------------
(***************************************************************************)
(* assemble_image_from_acc of back/sgs/ros: after a session with the       *)
(* Expedite server has ended, the received bytes are walked once more as a *)
(* series of CCSDS packets, and those of the image APID are written        *)
(* through the ".part" files of the same Bitstream object that             *)
(* dispatch_payload uses.  One step is one call on that object, so that    *)
(* the clock may move on and the process may be killed between any two.    *)
(*                                                                         *)
(* A packet is what the walk tells apart: whether it is of the image APID, *)
(* its sequence flags and count, and whether any data is left of it after  *)
(* the secondary header was taken off.  The next packet of the buffer is   *)
(* chosen when the walk reaches it.                                        *)
(*                                                                         *)
(* As in Bitstream.tla, a name that ends in "Mutant" is no part of the     *)
(* model.                                                                  *)
(***************************************************************************)
EXTENDS Integers, Sequences, FiniteSets, FiniteSetsExt

CONSTANTS
    SeqCounts,      \* the sequence counts in use
    MaxPackets,     \* bound on the packets of one call
    MaxCalls,       \* bound on the calls
    MaxSecond, Faults, NoFile, NoPath       \* as in Bitstream

Flags == {"FIRST", "CONT", "LAST", "STANDALONE"}

Packets ==
    [apid : {"image", "other"}, flags : Flags, seq : SeqCounts, data : BOOLEAN]

\* Sequence counts have 14 bits.
MaxCount == 16383

ASSUME ImageExtractAssumption ==
    /\ SeqCounts \subseteq 0 .. MaxCount
    /\ SeqCounts # {}
    /\ IsFiniteSet(SeqCounts)
    /\ MaxPackets \in Nat
    /\ MaxCalls \in Nat
    /\ MaxSecond \in Nat

VARIABLES
    streamAcc, savedFinal, ofs, tmpPath, finalPath, images, parts, now,
    pc,         \* "idle", or the next thing the call does
    pkt,        \* the packet at off
    count,      \* the packets walked over by this call
    calls,      \* the calls so far
    started,    \* started
    assembled,  \* assembled, as the packets whose data it holds
    seqSeen,    \* seq_seen, as a set
    missing,    \* missing_seq of the report
    written,    \* history: the packets of this call whose data reached a file
    intact      \* history: in this call no file operation failed, and no
                \* standalone image came in the middle of another

B == INSTANCE Bitstream WITH Fragments <- Packets, MaxFragments <- MaxPackets

object  == <<streamAcc, savedFinal, ofs, tmpPath, finalPath, images, parts, now>>
locals  == <<pkt, count, calls, started, assembled, seqSeen, missing>>
history == <<written, intact>>
vars    == <<object, pc, locals, history>>

AnyPacket == CHOOSE k \in Packets : TRUE

Init ==
    /\ B!Init
    /\ pc = "idle"
    /\ pkt = AnyPacket
    /\ count = 0
    /\ calls = 0
    /\ started = FALSE
    /\ assembled = <<>>
    /\ seqSeen = {}
    /\ missing = {}
    /\ written = <<>>
    /\ intact = TRUE

-----------------------------------------------------------------------------
(***************************************************************************)
(* The walk over the packets.                                              *)
(***************************************************************************)

\* start_recv_tcp calls it at the end of a session.
CallAssemble ==
    /\ pc = "idle"
    /\ calls < MaxCalls
    /\ calls' = calls + 1
    /\ pc' = "next"
    /\ count' = 0
    /\ started' = FALSE
    /\ assembled' = <<>>
    /\ seqSeen' = {}
    /\ missing' = {}
    /\ written' = <<>>
    /\ intact' = TRUE
    /\ UNCHANGED <<object, pkt>>

\* Whether a packet opens a file of its own.
Opens(k) == k.flags = "STANDALONE" \/ (k.flags = "FIRST" /\ ~started)

\* A whole packet at off: those of another APID are passed over.
NextPacket ==
    /\ pc = "next"
    /\ count < MaxPackets
    /\ \E k \in Packets :
          IF k.apid = "other"
          THEN UNCHANGED <<pc, pkt, intact>>
          ELSE /\ pkt' = k
               /\ pc' = IF Opens(k) THEN "finishOpen" ELSE "append"
               /\ intact' = (intact /\ ~(started /\ k.flags = "STANDALONE"))
    /\ count' = count + 1
    /\ UNCHANGED <<object, calls, started, assembled, seqSeen, missing, written>>

\* if (is_open()) finish(), before a new file.
FinishOpen ==
    /\ pc = "finishOpen"
    /\ B!Finish
    /\ pc' = "start"
    /\ UNCHANGED <<now, locals, history>>

\* start_new(), whose result is not looked at.
StartFile ==
    /\ pc = "start"
    /\ B!StartNew
    /\ started' = (started \/ pkt.flags = "FIRST")
    /\ pc' = "append"
    /\ intact' = (intact /\ ofs' = "good")
    /\ UNCHANGED <<now, pkt, count, calls, assembled, seqSeen, missing, written>>

\* Whether the packet's data is recorded.
Records(k) == k.data /\ (started \/ k.flags = "STANDALONE")

\* A LAST packet does not end its file.
AfterAppendKeepsOpenMutant(k) ==
    IF k.flags = "STANDALONE" THEN "finish" ELSE "next"

\* Where a packet takes the walk once its data is recorded.
AfterAppend(k) ==
    IF k.flags = "STANDALONE" \/ (k.flags = "LAST" /\ started)
    THEN "finish" ELSE "next"

\* A packet without a file is counted as image data all the same.
AppendUnstartedMutant ==
    /\ pc = "append"
    /\ IF pkt.data
       THEN /\ B!AppendData(pkt)
            /\ assembled' = Append(assembled, pkt)
            /\ written' = IF parts' # parts THEN Append(written, pkt) ELSE written
            /\ intact' = (intact /\ (Records(pkt) => parts' # parts))
       ELSE UNCHANGED <<streamAcc, savedFinal, ofs, tmpPath, finalPath, images,
                        parts, assembled, history>>
    /\ seqSeen' = seqSeen \cup {pkt.seq}
    /\ pc' = AfterAppend(pkt)
    /\ UNCHANGED <<now, pkt, count, calls, started, missing>>

\* append(), whose result is not looked at: assembled grows in any case.
AppendPayload ==
    /\ pc = "append"
    /\ IF Records(pkt)
       THEN /\ B!AppendData(pkt)
            /\ assembled' = Append(assembled, pkt)
            /\ written' = IF parts' # parts THEN Append(written, pkt) ELSE written
            /\ intact' = (intact /\ parts' # parts)
       ELSE UNCHANGED <<streamAcc, savedFinal, ofs, tmpPath, finalPath, images,
                        parts, assembled, history>>
    /\ seqSeen' = seqSeen \cup {pkt.seq}
    /\ pc' = AfterAppend(pkt)
    /\ UNCHANGED <<now, pkt, count, calls, started, missing>>

\* started = false is left out.
FinishImageKeepsStartedMutant ==
    /\ pc = "finish"
    /\ B!Finish
    /\ pc' = "next"
    /\ UNCHANGED <<now, locals, history>>

\* finish() after a standalone or a last packet; only the latter ends the image
\* in progress.
FinishImage ==
    /\ pc = "finish"
    /\ B!Finish
    /\ started' = (started /\ pkt.flags # "LAST")
    /\ pc' = "next"
    /\ UNCHANGED <<now, pkt, count, calls, assembled, seqSeen, missing, history>>

\* The file of an image whose LAST packet is missing is left to the next call.
EndOfBufferLeavesOpenMutant ==
    /\ pc = "next"
    /\ pc' = "report"
    /\ UNCHANGED <<object, locals, history>>

\* The buffer ends, or the packet at off is not complete: a file that is still
\* open is finished.
EndOfBuffer ==
    /\ pc = "next"
    /\ B!Finish
    /\ pc' = "report"
    /\ UNCHANGED <<now, locals, history>>

-----------------------------------------------------------------------------
(***************************************************************************)
(* The report.                                                             *)
(***************************************************************************)

\* The counts in ascending order, each once.
Sorted(S) ==
    CHOOSE s \in [1 .. Cardinality(S) -> S] :
        \A i, j \in 1 .. Cardinality(S) : i < j => s[i] < s[j]

\* The inner loop, from gap_from up to and without gap_to + 1, in unsigned numbers of
\* 16 bits.
Word == 65536

Between(prev, cur) ==
    LET from == (prev + 1) % Word
        stop == (((cur - 1) % Word) + 1) % Word
    IN  {(from + d) % Word : d \in 0 .. ((stop - from) % Word) - 1}

\* The gap is taken to include the count after it.
GapsOffByOneMutant(S) ==
    UNION {Between(Sorted(S)[i - 1], Sorted(S)[i] + 1) : i \in 2 .. Cardinality(S)}

\* The outer loop: what lies between two neighbours.
Gaps(S) ==
    UNION {Between(Sorted(S)[i - 1], Sorted(S)[i]) : i \in 2 .. Cardinality(S)}

WriteReport ==
    /\ pc = "report"
    /\ missing' = Gaps(seqSeen)
    /\ pc' = "idle"
    /\ UNCHANGED <<object, pkt, count, calls, started, assembled, seqSeen, history>>

-----------------------------------------------------------------------------
Tick == B!Tick /\ UNCHANGED <<pc, locals, history>>

\* The process is killed inside the call or between calls.
Crash ==
    /\ B!Crash
    /\ pc' = "idle"
    /\ started' = FALSE
    /\ assembled' = <<>>
    /\ seqSeen' = {}
    /\ missing' = {}
    /\ written' = <<>>
    /\ UNCHANGED <<now, pkt, count, calls, intact>>

Assemble ==
    \/ CallAssemble \/ NextPacket \/ FinishOpen \/ StartFile \/ AppendPayload
    \/ FinishImage \/ EndOfBuffer \/ WriteReport

Next == Assemble \/ Crash \/ Tick

Spec == Init /\ [][Next]_vars

-----------------------------------------------------------------------------
(***************************************************************************)
(* Properties.                                                             *)
(***************************************************************************)

\* The types of the variables.
TypeOK ==
    /\ B!TypeOK
    /\ pc \in {"idle", "next", "finishOpen", "start", "append", "finish", "report"}
    /\ pkt \in Packets
    /\ count \in 0 .. MaxPackets
    /\ calls \in 0 .. MaxCalls
    /\ started \in BOOLEAN /\ intact \in BOOLEAN
    /\ assembled \in Seq(Packets) /\ written \in Seq(Packets)
    /\ seqSeen \subseteq SeqCounts
    /\ missing \subseteq Nat

\* When the call has returned the shared Bitstream object has no file open: the
\* next session does not find one it would abort.
ClosedAtReturn == pc \in {"idle", "report"} => ofs = "closed"

\* An image file ends with the image: nothing follows the data of a LAST packet,
\* and a standalone image shares its file with no other packet.
LastEndsFile ==
    \A s \in B!Seconds :
        images[s] # NoFile =>
            \A i, j \in 1 .. Len(images[s]) :
                i < j => /\ images[s][i].flags \notin {"LAST", "STANDALONE"}
                         /\ images[s][j].flags # "STANDALONE"

\* "The same data is recorded in the bitstream" (image_extract.cpp:68, of the
\* buffer assembled): true as long as no file operation failed and no standalone
\* image came in the middle of another one.
AssembledIsRecorded == intact => written = assembled

\* While an image is in progress and nothing went wrong, its file is open: the
\* flag started, which is kept apart from the object, does not run ahead of it.
StartedIsOpen == started /\ intact /\ pc \in {"next", "append"} => ofs = "good"

\* The report names the sequence counts between the smallest and the largest seen
\* that were not seen, and no other.
ReportNamesGaps ==
    [][ pc = "report" /\ pc' = "idle" /\ ~Crash =>
            missing' = IF seqSeen = {} THEN {}
                       ELSE (Min(seqSeen) .. Max(seqSeen)) \ seqSeen ]_vars
=============================================================================
