---------------------------- MODULE ImageDownlink ----------------------------
(***************************************************************************)
(* The path of an image from the satellite's packets to a file: Expedite   *)
(* frames reach TelemetryHandler::dispatch_payload, whose image branch     *)
(* pushes every packet into g_bitstream and, at the first packet of the    *)
(* payload that is flagged as last, saves and clears the accumulator.      *)
(* Frames are lost on the radio link or with a broken TCP connection, the  *)
(* process may be killed between any two calls, and the clock that names   *)
(* the files runs on.                                                      *)
(*                                                                         *)
(* Only the image packets of a payload are represented here; how a payload *)
(* is cut into packets is the subject of TelemetryHandler.tla.             *)
(*                                                                         *)
(* As in Bitstream.tla, a name that ends in "Mutant" is no part of the     *)
(* model.                                                                  *)
(***************************************************************************)
EXTENDS Naturals, Sequences, SequencesExt

CONSTANTS
    Downlink,       \* the packets the satellite sends, in order
    MaxPerPayload,  \* bound on the packets of one payload
    MixedPayloads,  \* TRUE when one payload may hold the last packets of two images
    MaxSecond, Faults, NoFile, NoPath       \* as in Bitstream

Packet  == [image : Nat, number : Nat, last : BOOLEAN]
Packets == {Downlink[j] : j \in 1 .. Len(Downlink)}

ASSUME ImageDownlinkAssumption ==
    /\ Downlink \in Seq(Packet)
    /\ MaxPerPayload \in Nat
    /\ MixedPayloads \in BOOLEAN
    /\ MaxSecond \in Nat
    /\ NoFile \notin Seq(Packets)
    /\ NoPath \notin Nat

\* The satellite sends one image after another and numbers them in order: two packets
\* are of the same image exactly when no packet from the first of them on, and before
\* the second, ends an image.
ASSUME ImagesInTurn ==
    \A j, k \in 1 .. Len(Downlink) :
        j < k => /\ Downlink[j].image = Downlink[k].image
                        <=> \A l \in j .. k - 1 : ~Downlink[l].last
                 /\ k = j + 1 /\ Downlink[j].last
                        => Downlink[k].image = Downlink[j].image + 1

VARIABLES
    streamAcc, savedFinal, ofs, tmpPath, finalPath, images, parts, now,
    next,       \* the position in Downlink of the next packet to be sent
    payload,    \* the image packets of the payload not yet walked over
    savedOnce,  \* saved_once of the dispatch_payload call
    pc,         \* "idle", or where dispatch_payload is: "walk", "save", "clear"
    lost,       \* history: the packets that were never to be written
    published   \* history: the contents save_final has written

B == INSTANCE Bitstream WITH Fragments <- Packets, MaxFragments <- Len(Downlink)

object == <<streamAcc, savedFinal, ofs, tmpPath, finalPath, images, parts, now>>
dispatch == <<payload, savedOnce, pc>>
vars == <<object, next, dispatch, lost, published>>

Elements(s) == {s[j] : j \in 1 .. Len(s)}

Init ==
    /\ B!Init
    /\ next = 1
    /\ payload = <<>>
    /\ savedOnce = FALSE
    /\ pc = "idle"
    /\ lost = {}
    /\ published = <<>>

-----------------------------------------------------------------------------
(***************************************************************************)
(* The satellite and the link.                                             *)
(***************************************************************************)

\* An assumption about the modem, which nothing in the code enforces: at most one
\* packet of a payload ends an image, unless payloads are mixed.
WellFormed(p) ==
    MixedPayloads \/ \A i, j \in 1 .. Len(p) : p[i].last /\ p[j].last => i = j

\* A frame arrives whole and parse_stream calls dispatch_payload.
Arrive ==
    /\ pc = "idle"
    /\ \E k \in 1 .. MaxPerPayload :
          /\ next + k - 1 <= Len(Downlink)
          /\ WellFormed(SubSeq(Downlink, next, next + k - 1))
          /\ payload' = SubSeq(Downlink, next, next + k - 1)
          /\ next' = next + k
    /\ savedOnce' = FALSE
    /\ pc' = "walk"
    /\ UNCHANGED <<object, lost, published>>

\* A frame with one packet does not arrive.
Miss ==
    /\ pc = "idle"
    /\ next <= Len(Downlink)
    /\ lost' = lost \cup {Downlink[next]}
    /\ next' = next + 1
    /\ UNCHANGED <<object, dispatch, published>>

-----------------------------------------------------------------------------
(***************************************************************************)
(* The image branch of dispatch_payload.                                   *)
(***************************************************************************)

AfterPacket(rest) == IF rest = <<>> THEN "idle" ELSE "walk"

\* The flag is tested against the payload's first packet only.
PushIgnoresLastMutant ==
    /\ pc = "walk"
    /\ B!PushFragment(Head(payload))
    /\ payload' = Tail(payload)
    /\ pc' = IF Head(payload).last /\ Tail(payload) = <<>>
             THEN "save" ELSE AfterPacket(Tail(payload))
    /\ UNCHANGED <<now, next, savedOnce, lost, published>>

\* The loop goes on after the last packet.
PushLoopsOnMutant ==
    /\ pc = "walk"
    /\ B!PushFragment(Head(payload))
    /\ payload' = Tail(payload)
    /\ pc' = IF Head(payload).last /\ ~savedOnce THEN "save" ELSE "walk"
    /\ UNCHANGED <<now, next, savedOnce, lost, published>>

\* Push the packet's data; the first packet flagged as last asks for a save.
Push ==
    /\ pc = "walk"
    /\ B!PushFragment(Head(payload))
    /\ payload' = Tail(payload)
    /\ pc' = IF Head(payload).last /\ ~savedOnce
             THEN "save" ELSE AfterPacket(Tail(payload))
    /\ UNCHANGED <<now, next, savedOnce, lost, published>>

\* save_final(), whose result is not looked at: the history records whether the
\* accumulator was written or not.
Save ==
    /\ pc = "save"
    /\ B!SaveFinal
    /\ pc' = "clear"
    /\ IF savedFinal THEN UNCHANGED <<published, lost>>
       ELSE IF images'[now] = streamAcc
       THEN published' = Append(published, streamAcc) /\ UNCHANGED lost
       ELSE lost' = lost \cup Elements(streamAcc) /\ UNCHANGED published
    /\ UNCHANGED <<now, next, payload, savedOnce>>

\* The flag saved_final_ is not reset with the accumulator.
ClearDataOnlyMutant ==
    /\ pc = "clear"
    /\ streamAcc' = <<>>
    /\ UNCHANGED <<savedFinal, ofs, tmpPath, finalPath, images, parts>>
    /\ savedOnce' = TRUE
    /\ pc' = AfterPacket(payload)
    /\ UNCHANGED <<now, next, payload, lost, published>>

\* clear() is left out.
ClearForgottenMutant ==
    /\ pc = "clear"
    /\ savedFinal' = FALSE
    /\ UNCHANGED <<streamAcc, ofs, tmpPath, finalPath, images, parts>>
    /\ savedOnce' = TRUE
    /\ pc' = AfterPacket(payload)
    /\ UNCHANGED <<now, next, payload, lost, published>>

\* clear(), and saved_once is set.
ClearAll ==
    /\ pc = "clear"
    /\ B!Clear
    /\ savedOnce' = TRUE
    /\ pc' = AfterPacket(payload)
    /\ UNCHANGED <<now, next, payload, lost, published>>

\* The process is killed: the accumulator goes unless it was just written, and
\* so does what has been received of the payload.
Crash ==
    /\ B!Crash
    /\ payload' = <<>>
    /\ savedOnce' = FALSE
    /\ pc' = "idle"
    /\ lost' = lost \cup Elements(payload)
                    \cup (IF pc = "clear" THEN {} ELSE Elements(streamAcc))
    /\ UNCHANGED <<now, next, published>>

Tick == B!Tick /\ UNCHANGED <<next, dispatch, lost, published>>

Dispatch == Push \/ Save \/ ClearAll

Next == Arrive \/ Miss \/ Dispatch \/ Crash \/ Tick

\* dispatch_payload runs to its end without waiting for anything.
Spec == Init /\ [][Next]_vars /\ WF_vars(Dispatch)

-----------------------------------------------------------------------------
(***************************************************************************)
(* Properties.                                                             *)
(***************************************************************************)

\* The types of the variables; the walk over a payload ends with its packets.
TypeOK ==
    /\ B!TypeOK
    /\ next \in 1 .. Len(Downlink) + 1
    /\ payload \in Seq(Packets)
    /\ savedOnce \in BOOLEAN
    /\ pc \in {"idle", "walk", "save", "clear"}
    /\ pc = "walk" => payload # <<>>
    /\ pc = "idle" => payload = <<>>
    /\ lost \subseteq Packets
    /\ published \in Seq(Seq(Packets))

HasLast(s) == \E j \in 1 .. Len(s) : s[j].last

\* The contents are the piece of the downlink that image i takes up.
IsImage(contents, i) ==
    \E a, b \in 1 .. Len(Downlink) :
        /\ {j \in 1 .. Len(Downlink) : Downlink[j].image = i} = a .. b
        /\ contents = SubSeq(Downlink, a, b)

\* No packet of image i was lost, nor the one that ends the image before it.
Intact(i) == \A p \in lost : p.image # i /\ ~(p.last /\ p.image = i - 1)

\* A lost packet damages the file of its own image only, except that losing the
\* last packet of an image joins it with the next one: a file that ends with the
\* last packet of an image holds exactly that image unless a packet of it, or
\* the last packet of the image before, was lost.
DamageConfined ==
    \A s \in B!Seconds :
        images[s] # NoFile /\ images[s] # <<>> /\ Last(images[s]).last =>
            LET i == Last(images[s]).image
            IN  Intact(i) => IsImage(images[s], i)

\* Data leaves the accumulator only after it has reached a file that is still
\* there, unless the process was killed or the file could not be written.
ClearedIsSaved ==
    [][ streamAcc # <<>> /\ streamAcc' = <<>> =>
            \/ \E s \in B!Seconds : images[s] = streamAcc
            \/ Elements(streamAcc) \subseteq lost' ]_vars

\* The packet that ends an image does not stay in the accumulator: it is written
\* and removed, whatever follows it in the payload.
LastLeavesAccumulator == HasLast(streamAcc) ~> ~HasLast(streamAcc)

\* "Save all bytes accumulated so far as one file" and "prepare the next image"
\* (telemetry.cpp:307-308): when dispatch_payload has returned, no packet that
\* ends an image is left in the accumulator, where the next image would join it.
NextImagePrepared == pc = "idle" => ~HasLast(streamAcc)

\* The image path implements ImageFeed: what is pending is the accumulator, less
\* the last packet while its save is under way and nothing once it is written.
Pending ==
    CASE pc = "save"  -> Front(streamAcc)
      [] pc = "clear" -> <<>>
      [] OTHER        -> streamAcc
Feed == INSTANCE ImageFeed WITH pending <- Pending, delivered <- published
ImplementsFeed == Feed!Spec
=============================================================================
