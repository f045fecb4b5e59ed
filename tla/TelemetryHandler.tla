-------------------------- MODULE TelemetryHandler --------------------------
(***************************************************************************)
(* TelemetryHandler::parse_stream and dispatch_payload of back/sgs/ros:    *)
(* one call on a received buffer of size bytes.  Positions are byte        *)
(* positions in that buffer.  parse_stream looks for frames                *)
(*                                                                         *)
(*   | header (with preamble and total length) | payload | trailer |       *)
(*                                                                         *)
(* and dispatch_payload cuts a payload into the CSP header and a series of *)
(* packets that it recognises by their message id.  The bytes come from    *)
(* the link and may be anything: what the code reads at a position (a      *)
(* preamble, a length, a message id) is chosen when the position is        *)
(* reached and kept as long as the code may read it again.  The checksum   *)
(* and the postamble only cause warnings.                                  *)
(*                                                                         *)
(* What is done with an image packet's data is the subject of              *)
(* ImageDownlink.tla; here handled is the last stretch of bytes given to   *)
(* push_ccsds_fragment, handle_beacon_direct or handle_report_direct.      *)
(*                                                                         *)
(* As in Bitstream.tla, a name that ends in "Mutant" is no part of the     *)
(* model.                                                                  *)
(***************************************************************************)
EXTENDS Integers

CONSTANTS
    FixedHeader,    \* TM_FIXED_HEADER, 36
    Trailer,        \* CRC and postamble, 8
    CspHeader,      \* 4
    SecHeader,      \* kSecHdr, 16
    ImageData,      \* kImgPayload, 128
    BeaconSize,     \* sizeof(Beacon), 143
    ReportSize,     \* sizeof(Report), 152
    CspTail,        \* the CRC that ends a packet, 4
    StreamSizes,    \* the sizes of the received buffer
    FrameLengths    \* the values of the header's total_len

ASSUME TelemetryAssumption ==
    /\ FixedHeader \in Nat /\ FixedHeader > 0
    /\ Trailer \in Nat /\ CspHeader \in Nat /\ SecHeader \in Nat
    /\ ImageData \in Nat /\ BeaconSize \in Nat /\ ReportSize \in Nat
    /\ CspTail \in Nat
    /\ StreamSizes \subseteq Nat
    /\ FrameLengths \subseteq Nat

Ids == {"IMAGE", "BEACON", "REPORT", "other"}

VARIABLES
    size,       \* n of parse_stream, the bytes received
    off,        \* the position parse_stream has reached
    frame,      \* N, the length of the frame being dispatched
    gotFrame,   \* frames > 0
    result,     \* what parse_stream returns: 0, -1, -2, or 1 while it runs
    pc,         \* "start", "scan" (parse_stream), "beacon", "walk" (dispatch_payload), "done"
    p,          \* the position dispatch_payload has reached
    rem,        \* its n, the bytes it believes to be left
    ccid,       \* the message id at p
    handled     \* the last stretch handled: its kind, its first position, the
                \* position after its last, and the end of the payload it is from

scan     == <<size, off, frame, gotFrame, result>>
dispatch == <<p, rem, ccid>>
vars     == <<scan, dispatch, pc, handled>>

MinFrame == FixedHeader + Trailer

\* The end of the payload of the frame being dispatched.
PayloadEnd == off + frame - Trailer

Init ==
    /\ size \in StreamSizes
    /\ off = 0
    /\ frame = 0
    /\ gotFrame = FALSE
    /\ result = 1
    /\ pc = "start"
    /\ p = 0
    /\ rem = 0
    /\ ccid = "other"
    /\ handled = [kind |-> "none", from |-> 0, to |-> 0, end |-> 0]

Return(r) ==
    /\ pc' = "done"
    /\ result' = r
    /\ UNCHANGED <<size, off, frame, gotFrame, dispatch, handled>>

-----------------------------------------------------------------------------
(***************************************************************************)
(* parse_stream.                                                           *)
(***************************************************************************)

Start ==
    /\ pc = "start"
    /\ \/ size < MinFrame /\ Return(-1)
       \/ /\ size >= MinFrame
          /\ pc' = "scan"
          /\ UNCHANGED <<scan, dispatch, handled>>

\* Another frame may follow: the loop's condition.  In the code the difference
\* is unsigned, so it means what it says only as long as off <= size.
RoomForFrame == size - off >= MinFrame

\* No preamble here, or a length below the minimum: try the next byte.
Resync ==
    /\ pc = "scan"
    /\ RoomForFrame
    /\ off' = off + 1
    /\ UNCHANGED <<size, frame, gotFrame, result, dispatch, pc, handled>>

\* The frame at off does not end within the buffer, or the buffer does.
Finished ==
    /\ pc = "scan"
    /\ \/ ~RoomForFrame
       \/ \E len \in FrameLengths : len >= MinFrame /\ off + len > size
    /\ Return(IF gotFrame THEN 0 ELSE -2)

\* A whole frame at off: dispatch_payload is called with its payload, and
\* returns at once when the payload is too short.
Enter ==
    /\ pc = "scan"
    /\ RoomForFrame
    /\ \E len \in FrameLengths :
          /\ len >= MinFrame
          /\ off + len <= size
          /\ LET payloadLen == len - MinFrame
             IN  IF payloadLen < CspHeader + SecHeader
                 THEN /\ off' = off + len
                      /\ UNCHANGED <<frame, dispatch, pc>>
                 ELSE /\ frame' = len
                      /\ p' = off + FixedHeader + CspHeader
                      /\ rem' = payloadLen - CspHeader
                      /\ ccid' \in Ids
                      /\ pc' = "beacon"
                      /\ UNCHANGED off
    /\ gotFrame' = TRUE
    /\ UNCHANGED <<size, result, handled>>

-----------------------------------------------------------------------------
(***************************************************************************)
(* dispatch_payload.                                                       *)
(***************************************************************************)

Handle(kind, from, len) ==
    handled' = [kind |-> kind, from |-> from, to |-> from + len, end |-> PayloadEnd]

\* off += N is left out.
LeaveStaysMutant ==
    /\ pc' = "scan"
    /\ UNCHANGED <<scan, dispatch>>

\* dispatch_payload returns, whatever it returns, and parse_stream moves on to
\* the next frame.
Leave ==
    /\ off' = off + frame
    /\ pc' = "scan"
    /\ UNCHANGED <<size, frame, gotFrame, result, dispatch>>

\* The test "n < consumed" is left out.
ConsumeUncheckedMutant(k) ==
    /\ p' = p + k
    /\ rem' = rem - k
    /\ ccid' \in Ids
    /\ pc' = "walk"
    /\ UNCHANGED scan

\* "n -= consumed" is left out.
ConsumeKeepsRemMutant(k) ==
    \/ /\ rem < k
       /\ Leave
    \/ /\ rem >= k
       /\ p' = p + k
       /\ ccid' \in Ids
       /\ pc' = "walk"
       /\ UNCHANGED <<scan, rem>>

\* Move over k bytes and go on with the loop, or leave it.
Consume(k) ==
    \/ /\ rem < k
       /\ Leave
    \/ /\ rem >= k
       /\ p' = p + k
       /\ rem' = rem - k
       /\ ccid' \in Ids
       /\ pc' = "walk"
       /\ UNCHANGED scan

\* Before the loop: a beacon without secondary header.
LeadingBeacon ==
    /\ pc = "beacon"
    /\ rem >= BeaconSize + CspTail /\ ccid = "BEACON"
    /\ Handle("beacon", p, BeaconSize)
    /\ Consume(BeaconSize + CspTail)

NoLeadingBeacon ==
    /\ pc = "beacon"
    /\ ~(rem >= BeaconSize + CspTail /\ ccid = "BEACON")
    /\ pc' = "walk"
    /\ UNCHANGED <<scan, dispatch, handled>>

\* The bytes after the secondary header at p.
App  == p + SecHeader
AppN == rem - SecHeader

InLoop == pc = "walk" /\ rem >= SecHeader

LoopEnd ==
    /\ pc = "walk"
    /\ rem < SecHeader
    /\ Leave
    /\ UNCHANGED handled

\* Every fragment is taken to be full.
ImageLenMutant == ImageData

ImageLen == IF AppN >= ImageData THEN ImageData ELSE AppN

\* An image packet: up to ImageData bytes go to the accumulator, then (when the
\* sequence count is flagged as last) it is saved and cleared.
Image ==
    /\ InLoop
    /\ ccid = "IMAGE"
    /\ Handle("image", App, ImageLen)
    /\ Consume(SecHeader + ImageLen + CspTail)

\* A beacon after another packet: with a secondary header, or too short.
Beacon ==
    /\ InLoop
    /\ ccid = "BEACON"
    /\ \/ /\ AppN < BeaconSize
          /\ Leave
          /\ UNCHANGED handled
       \/ /\ AppN >= BeaconSize
          /\ Handle("beacon", App, BeaconSize)
          /\ Consume(SecHeader + BeaconSize + CspTail)

\* A report: taken to have a secondary header when one would fit, else taken to
\* start at p and to end the payload, padding included; or too short.
Report ==
    /\ InLoop
    /\ ccid = "REPORT"
    /\ \/ /\ AppN >= ReportSize
          /\ Handle("report", App, ReportSize)
          /\ Consume(SecHeader + ReportSize + CspTail)
       \/ /\ AppN < ReportSize
          /\ rem >= ReportSize + CspTail
          /\ Handle("report", p, ReportSize)
          /\ Consume(rem)
       \/ /\ rem < ReportSize + CspTail
          /\ AppN < ReportSize
          /\ Leave
          /\ UNCHANGED handled

\* An unknown message id: move over what would be a secondary header.
Unknown ==
    /\ InLoop
    /\ ccid = "other"
    /\ Consume(SecHeader)
    /\ UNCHANGED handled

ParseStream == Start \/ Resync \/ Finished \/ Enter
DispatchPayload ==
    LeadingBeacon \/ NoLeadingBeacon \/ Image \/ Beacon \/ Report \/ Unknown \/ LoopEnd

Next == ParseStream \/ DispatchPayload

\* The call is a loop that waits for nothing.
Spec == Init /\ [][Next]_vars /\ WF_vars(Next)

-----------------------------------------------------------------------------
(***************************************************************************)
(* Properties.                                                             *)
(***************************************************************************)

\* The types; that off does not pass size and rem is not negative is what keeps
\* the unsigned differences of the code from wrapping round.
TypeOK ==
    /\ size \in Nat
    /\ off \in 0 .. size
    /\ frame \in FrameLengths \cup {0}
    /\ gotFrame \in BOOLEAN
    /\ result \in {1, 0, -1, -2}
    /\ pc \in {"start", "scan", "beacon", "walk", "done"}
    /\ p \in Nat
    /\ rem \in Nat
    /\ ccid \in Ids
    /\ handled.from \in Nat /\ handled.to \in Nat /\ handled.end \in Nat

Dispatching == pc \in {"beacon", "walk"}

\* While a payload is dispatched, what the code believes to be left of it is
\* what is left of it, and the frame it belongs to was received whole.  Every
\* read of dispatch_payload is guarded by rem only.
RemIsTheRest ==
    Dispatching =>
        /\ p + rem = PayloadEnd
        /\ p >= off + FixedHeader + CspHeader
        /\ off + frame <= size

\* Only bytes of the payload that is being dispatched are handed to the image
\* accumulator, the beacon and the report decoders: never the frame's header or
\* trailer, another frame, or memory behind the buffer.
ReadsOwnPayload ==
    [][ handled' # handled =>
            /\ off + FixedHeader + CspHeader <= handled'.from
            /\ handled'.from <= handled'.to
            /\ handled'.to <= PayloadEnd
            /\ PayloadEnd <= size ]_vars

\* No byte of the buffer is handled twice, within a payload or across frames:
\* a resynchronisation never goes back into what was decoded.
NoByteTwice ==
    [][ handled' # handled => handled'.from >= handled.to ]_vars

\* Whatever the bytes are, the call returns: no header value keeps the loops at
\* one position.
Returns == <>(pc = "done")

\* "Only the 128 DATA bytes are sent to Bitstream" (telemetry.cpp:290, and :312
\* counts the CSP tail apart): the tail that ends a payload is not image data.
TailNeverPushed ==
    handled.kind = "image" => handled.to <= handled.end - CspTail
=============================================================================
