------------------------------ MODULE SendRecv ------------------------------
(***************************************************************************)
(* SendRecv::start_recv_tcp of back/sgs/ros, the thread of ServerSGS that  *)
(* receives telemetry from the Expedite server over TCP, with that server  *)
(* and the connection.  The thread connects, collects what it receives     *)
(* until the server closes, the connection breaks or two seconds pass      *)
(* without data, processes what it has collected, closes and reconnects.   *)
(*                                                                         *)
(* The server sends units: telemetry frames, and bare beacons without a    *)
(* frame.  TCP may deliver a part of one only: a unit is two pieces, its   *)
(* first bytes and the rest, cut anywhere.  A piece records the unit and   *)
(* which part of it it is, not its length.  parse_stream is walked one     *)
(* piece at a time; how it treats the bytes of a frame is the subject of   *)
(* TelemetryHandler.tla.  Two calls between parse_stream and close touch   *)
(* nothing that is represented here: the raw bytes are written to a text   *)
(* file, and assemble_image_from_acc walks acc again (ImageExtract.tla).   *)
(*                                                                         *)
(* As in Bitstream.tla, a name that ends in "Mutant" is no part of the     *)
(* model.                                                                  *)
(***************************************************************************)
EXTENDS Naturals, Sequences

CONSTANTS
    Kind    \* the units the server sends: a sequence of "frame" and "bare"

ASSUME SendRecvAssumption == Kind \in Seq({"frame", "bare"})

Units  == 1 .. Len(Kind)
Pieces == [unit : Units, part : {1, 2}]

VARIABLES
    run,        \* g_run, cleared by SIGINT and SIGTERM
    pc,         \* where start_recv_tcp is
    acc,        \* acc: what this connection has brought
    off,        \* the position parse_stream has reached in acc
    frames,     \* the frames parse_stream has found in acc
    conn,       \* "none", "up", "fin" (closed by the server) or "broken"
    wire,       \* the pieces on their way
    next,       \* the piece the server sends next
    decoded,    \* history: the units decoded, in order
    misread,    \* history: the units of which bytes were decoded as a beacon nobody sent
    received    \* history: the pieces recv has returned

local   == <<acc, off, frames>>
network == <<conn, wire, next>>
history == <<decoded, misread, received>>
vars    == <<run, pc, local, network, history>>

Init ==
    /\ run = TRUE
    /\ pc = "loop"
    /\ acc = <<>>
    /\ off = 1
    /\ frames = 0
    /\ conn = "none"
    /\ wire = <<>>
    /\ next = [unit |-> 1, part |-> 1]
    /\ decoded = <<>>
    /\ misread = {}
    /\ received = {}

-----------------------------------------------------------------------------
(***************************************************************************)
(* The server, the network and the signal handler.                         *)
(***************************************************************************)

MoreToSend == next.unit <= Len(Kind)

NextUnit == [unit |-> next.unit + 1, part |-> 1]

\* The server sends the next piece.
ServerSends ==
    /\ conn = "up"
    /\ MoreToSend
    /\ wire' = Append(wire, next)
    /\ next' = IF next.part = 1 THEN [next EXCEPT !.part = 2] ELSE NextUnit
    /\ UNCHANGED <<run, pc, local, conn, history>>

\* Without a connection the rest of a unit has nowhere to go.
ServerSkips ==
    /\ conn # "up"
    /\ MoreToSend
    /\ next' = NextUnit
    /\ UNCHANGED <<run, pc, local, conn, wire, history>>

ServerCloses ==
    /\ conn = "up"
    /\ conn' = "fin"
    /\ UNCHANGED <<run, pc, local, wire, next, history>>

\* A reset takes with it what has not been received.
ConnectionBreaks ==
    /\ conn \in {"up", "fin"}
    /\ conn' = "broken"
    /\ wire' = <<>>
    /\ UNCHANGED <<run, pc, local, next, history>>

\* on_signal of main.cpp.
Signal ==
    /\ run
    /\ run' = FALSE
    /\ UNCHANGED <<pc, local, network, history>>

Environment ==
    ServerSends \/ ServerSkips \/ ServerCloses \/ ConnectionBreaks \/ Signal

-----------------------------------------------------------------------------
(***************************************************************************)
(* start_recv_tcp: the connection.                                         *)
(***************************************************************************)

\* for (;;)
TestNothingMutant ==
    /\ pc = "loop"
    /\ pc' = "connect"
    /\ UNCHANGED <<run, local, network, history>>

\* while (run)
TestRun ==
    /\ pc = "loop"
    /\ pc' = IF run THEN "connect" ELSE "stopped"
    /\ UNCHANGED <<run, local, network, history>>

\* socket() or the connection fails, or is not there within five seconds: wait
\* and try again.
ConnectFails ==
    /\ pc = "connect"
    /\ pc' = "loop"
    /\ UNCHANGED <<run, local, network, history>>

\* The buffer outlives the connection.
ConnectKeepsAccMutant ==
    /\ pc = "connect"
    /\ conn' = "up"
    /\ pc' = "recv"
    /\ UNCHANGED <<run, local, wire, next, history>>

\* Connected: acc is a new vector.
ConnectSucceeds ==
    /\ pc = "connect"
    /\ conn' = "up"
    /\ acc' = <<>>
    /\ pc' = "recv"
    /\ UNCHANGED <<run, off, frames, wire, next, history>>

\* recv returns some of the bytes that have arrived.
Recv ==
    /\ pc = "recv"
    /\ wire # <<>>
    /\ \E k \in 1 .. Len(wire) :
          /\ acc' = acc \o SubSeq(wire, 1, k)
          /\ wire' = SubSeq(wire, k + 1, Len(wire))
          /\ received' = received \cup {wire[i] : i \in 1 .. k}
    /\ UNCHANGED <<run, pc, off, frames, conn, next, decoded, misread>>

\* recv times out with something collected, even though more is on its way, or
\* returns 0 or an error: the bytes collected are processed, if there are any.  A
\* timeout with nothing collected goes on waiting and changes nothing.
RecvEnds ==
    /\ pc = "recv"
    /\ \/ conn = "up" /\ acc # <<>>
       \/ conn # "up" /\ wire = <<>>
    /\ IF acc = <<>>
       THEN pc' = "close" /\ UNCHANGED <<off, frames>>
       ELSE pc' = "parse" /\ off' = 1 /\ frames' = 0
    /\ UNCHANGED <<run, acc, network, history>>

-----------------------------------------------------------------------------
(***************************************************************************)
(* start_recv_tcp: processing the bytes of the connection.                 *)
(***************************************************************************)

AtFrame == off <= Len(acc) /\ Kind[acc[off].unit] = "frame" /\ acc[off].part = 1

WholeFrame == AtFrame /\ off + 1 <= Len(acc)

\* The position is moved over the header only.
ParseHeadOnlyMutant ==
    /\ pc = "parse"
    /\ WholeFrame
    /\ decoded' = Append(decoded, acc[off].unit)
    /\ frames' = frames + 1
    /\ UNCHANGED <<run, pc, off, acc, network, misread, received>>

\* parse_stream: a whole frame at off is dispatched.
ParseFrame ==
    /\ pc = "parse"
    /\ WholeFrame
    /\ decoded' = Append(decoded, acc[off].unit)
    /\ frames' = frames + 1
    /\ off' = off + 2
    /\ UNCHANGED <<run, pc, acc, network, misread, received>>

\* What is no frame ends the search instead of being passed over.
ParseResyncStopsMutant ==
    /\ pc = "parse"
    /\ off <= Len(acc)
    /\ ~AtFrame
    /\ off' = Len(acc) + 1
    /\ UNCHANGED <<run, pc, acc, frames, network, history>>

\* parse_stream: the rest of a frame, or a bare beacon, is passed over byte by
\* byte.
ParseResync ==
    /\ pc = "parse"
    /\ off <= Len(acc)
    /\ ~AtFrame
    /\ off' = off + 1
    /\ UNCHANGED <<run, pc, acc, frames, network, history>>

\* All that is in acc is one bare beacon.
LoneBeacon ==
    /\ Len(acc) = 2
    /\ acc[1].part = 1 /\ Kind[acc[1].unit] = "bare"
    /\ acc[2].unit = acc[1].unit

\* acc may have the length of a beacon although it is none: with a whole beacon in
\* it it would be longer, and a part of one and nothing else is shorter.
MayPassForBeacon ==
    /\ \A i \in 1 .. Len(acc) - 1 : acc[i].part = 1 => Kind[acc[i].unit] # "bare"
    /\ Len(acc) > 1 \/ Kind[acc[1].unit] = "frame"

\* The result of parse_stream is not looked at.
BeaconByLengthMutant ==
    \/ LoneBeacon /\ decoded' = Append(decoded, acc[1].unit) /\ UNCHANGED misread
    \/ MayPassForBeacon /\ misread' = misread \cup {acc[i].unit : i \in 1 .. Len(acc)}
                        /\ UNCHANGED decoded
    \/ ~LoneBeacon /\ UNCHANGED <<decoded, misread>>

\* If parse_stream has found no frame and acc is as long as a beacon, it is decoded
\* as one, whatever it is.
BeaconByLength ==
    \/ /\ frames = 0 /\ LoneBeacon
       /\ decoded' = Append(decoded, acc[1].unit)
       /\ UNCHANGED misread
    \/ /\ frames = 0 /\ MayPassForBeacon
       /\ misread' = misread \cup {acc[i].unit : i \in 1 .. Len(acc)}
       /\ UNCHANGED decoded
    \/ /\ ~(frames = 0 /\ LoneBeacon)
       /\ UNCHANGED <<decoded, misread>>

\* parse_stream ends, at the end of acc or at a frame that is not complete.
ParseEnds ==
    /\ pc = "parse"
    /\ off > Len(acc) \/ (AtFrame /\ ~WholeFrame)
    /\ BeaconByLength
    /\ pc' = "close"
    /\ UNCHANGED <<run, local, network, received>>

\* The loop is left for good when the connection is closed.
CloseStopsMutant ==
    /\ pc = "close"
    /\ conn' = "none"
    /\ wire' = <<>>
    /\ pc' = "stopped"
    /\ UNCHANGED <<run, local, next, history>>

\* Close, half a second, and the next connection.
Close ==
    /\ pc = "close"
    /\ conn' = "none"
    /\ wire' = <<>>
    /\ pc' = "loop"
    /\ UNCHANGED <<run, local, next, history>>

Receiver ==
    \/ TestRun \/ ConnectFails \/ ConnectSucceeds \/ Recv \/ RecvEnds
    \/ ParseFrame \/ ParseResync \/ ParseEnds \/ Close

Next == Environment \/ Receiver

\* Every call of the thread returns (the waits are bounded by timeouts); nothing
\* is assumed of the server, the network or the user.
Spec == Init /\ [][Next]_vars /\ WF_vars(Receiver)

-----------------------------------------------------------------------------
(***************************************************************************)
(* Properties.                                                             *)
(***************************************************************************)

\* The types of the variables.
TypeOK ==
    /\ run \in BOOLEAN
    /\ pc \in {"loop", "connect", "recv", "parse", "close", "stopped"}
    /\ acc \in Seq(Pieces)
    /\ off \in 1 .. Len(acc) + 1 \/ pc # "parse"
    /\ frames \in 0 .. Len(Kind)
    /\ conn \in {"none", "up", "fin", "broken"}
    /\ wire \in Seq(Pieces)
    /\ next.unit \in 1 .. Len(Kind) + 1 /\ next.part \in {1, 2}
    /\ decoded \in Seq(Units)
    /\ misread \subseteq Units
    /\ received \subseteq Pieces

\* Whatever the server and the network do, units are decoded in the order they
\* were sent and at most once: no reconnection decodes anything again.  What is
\* decoded as a beacon that nobody sent are bytes of units that are lost: none of
\* them is decoded as what it is, before or after.
Feed == INSTANCE FrameFeed WITH sent <- next.unit - 1
ImplementsFeed == Feed!Spec

Decoded == {decoded[i] : i \in 1 .. Len(decoded)}

\* Every frame that one connection has brought as a whole has been decoded when
\* the connection is closed, whatever else it has brought.
WholeFramesDecoded ==
    pc = "close" =>
        \A u \in Units :
            Kind[u] = "frame"
            /\ (\A k \in {1, 2} : \E i \in 1 .. Len(acc) : acc[i] = [unit |-> u, part |-> k])
                => u \in Decoded

\* A signal ends the thread, unless it waits on a connection that brings nothing
\* and is not closed.  The loop around recv does not look at run: that it is left
\* otherwise is because the server has only so much to send.
IdleConnection == pc = "recv" /\ conn = "up" /\ acc = <<>> /\ wire = <<>>
StopsOrIdles == ~run ~> pc = "stopped" \/ IdleConnection

\* As long as no signal comes, a thread that is not connected tries again.
KeepsTrying == pc = "close" ~> pc = "connect" \/ ~run

\* "The next frame has not arrived completely: leave it and end" (telemetry.cpp:93,
\* of the break at a partial frame): what is left can be completed, so a frame
\* whose pieces were all received is decoded when they have been processed.
PartialFrameIsKept ==
    pc = "close" =>
        \A u \in Units :
            Kind[u] = "frame" /\ (\A k \in {1, 2} : [unit |-> u, part |-> k] \in received)
                => u \in Decoded
=============================================================================
