---------------------------- MODULE CommandUplink ----------------------------
(***************************************************************************)
(* A command on its way from the command page to the modem: the page's     *)
(* WebSocket (GS_CommandSelector.tsx; what the page does besides is        *)
(* CommandForm.tla), the relay (front/app/api/server.js), which broadcasts *)
(* what it receives, and the ground stations, processes ServerSGS whose    *)
(* WebSocket client (back/sgs/utl/src/ws.cpp) gives commands to MakeTCData *)
(* (back/sgs/ros/src/fswcmd.cpp).  Both the page and the client connect    *)
(* once, when they start, and never again.                                 *)
(*                                                                         *)
(* All stations have the client id the page addresses, "gs634"; what the   *)
(* relay sends back to the page is only printed there.  The handler runs   *)
(* in the WebSocket thread: while it waits for the modem, what arrives     *)
(* next waits too.  A name that ends in "Mutant" is no part of the model.  *)
(***************************************************************************)
EXTENDS Naturals, Sequences

CONSTANTS
    Stations,       \* the processes ServerSGS
    MaxSends,       \* bounds the commands sent
    MaxVisits,      \* bounds the times the page is loaded
    MaxFaults       \* bounds the stops and broken connections

ASSUME UplinkAssumption ==
    MaxSends \in Nat /\ MaxVisits \in Nat \ {0} /\ MaxFaults \in Nat

Visits   == 1 .. MaxVisits
Messages == 1 .. MaxSends

VARIABLES
    visit,          \* the number of this load of the page
    ws,             \* the page's WebSocket: "new", "open" or "closed"
    sent,           \* history: the visit each command was sent in
    relay,          \* whether the relay is running
    uplink,         \* what the connection of each visit carries to the relay
    link,           \* a station's connection: "off", "open" or "cut"
    inbox,          \* what the relay has sent to a station
    busy,           \* the command a station's handler is working on, 0 if none
    transmitted,    \* history: the commands a station has sent to the modem
    handled,        \* history: the commands a station's handler has finished
    faults          \* the faults so far

page    == <<visit, ws, sent>>
station == <<link, inbox, busy, transmitted, handled>>
vars    == <<page, relay, uplink, station, faults>>

Init ==
    /\ visit = 1 /\ ws = "new" /\ sent = <<>>
    /\ relay = TRUE
    /\ uplink = [v \in Visits |-> <<>>]
    /\ link = [s \in Stations |-> "off"]
    /\ inbox = [s \in Stations |-> <<>>]
    /\ busy = [s \in Stations |-> 0]
    /\ transmitted = [s \in Stations |-> <<>>]
    /\ handled = [s \in Stations |-> {}]
    /\ faults = 0

Fault ==
    /\ faults < MaxFaults
    /\ faults' = faults + 1

-----------------------------------------------------------------------------
(***************************************************************************)
(* The page.                                                               *)
(***************************************************************************)

\* The effect that creates the WebSocket: it opens or, without a relay, closes.
PageConnects ==
    /\ ws = "new"
    /\ ws' = IF relay THEN "open" ELSE "closed"
    /\ UNCHANGED <<visit, sent, relay, uplink, station, faults>>

\* The command is numbered as the one after it.
PageSendsAheadMutant ==
    /\ ws = "open"
    /\ Len(sent) < MaxSends
    /\ sent' = Append(sent, visit)
    /\ uplink' = [uplink EXCEPT ![visit] = Append(@, Len(sent) + 2)]
    /\ UNCHANGED <<visit, ws, relay, station, faults>>

\* handleSendCommand: without an open WebSocket it returns.
PageSends ==
    /\ ws = "open"
    /\ Len(sent) < MaxSends
    /\ sent' = Append(sent, visit)
    /\ uplink' = [uplink EXCEPT ![visit] = Append(@, Len(sent) + 1)]
    /\ UNCHANGED <<visit, ws, relay, station, faults>>

\* The page is loaded again.  Closing the WebSocket leaves to the network what it
\* carries.
PageReloads ==
    /\ visit < MaxVisits
    /\ visit' = visit + 1
    /\ ws' = "new"
    /\ UNCHANGED <<sent, relay, uplink, station, faults>>

\* onclose.
PageCut ==
    /\ Fault
    /\ ws = "open"
    /\ ws' = "closed"
    /\ uplink' = [uplink EXCEPT ![visit] = <<>>]
    /\ UNCHANGED <<visit, sent, relay, station>>

-----------------------------------------------------------------------------
(***************************************************************************)
(* The relay.                                                              *)
(***************************************************************************)

\* on("message"): everyone who is connected at this moment gets the message.
Broadcast(n) ==
    inbox' = [s \in Stations |-> IF link[s] = "open" THEN Append(inbox[s], n) ELSE inbox[s]]

RelayForwards(v) ==
    /\ relay
    /\ uplink[v] # <<>>
    /\ Broadcast(Head(uplink[v]))
    /\ uplink' = [uplink EXCEPT ![v] = Tail(@)]
    /\ UNCHANGED <<page, relay, link, busy, transmitted, handled, faults>>

Cut(l) == IF l = "open" THEN "cut" ELSE l

\* The relay dies with its connections and with what they carry towards it.
RelayStops ==
    /\ Fault
    /\ relay
    /\ relay' = FALSE
    /\ ws' = IF ws = "open" THEN "closed" ELSE ws
    /\ link' = [s \in Stations |-> Cut(link[s])]
    /\ uplink' = [v \in Visits |-> <<>>]
    /\ UNCHANGED <<visit, sent, inbox, busy, transmitted, handled>>

RelayStarts ==
    /\ ~relay
    /\ relay' = TRUE
    /\ UNCHANGED <<page, uplink, station, faults>>

-----------------------------------------------------------------------------
(***************************************************************************)
(* A ground station.                                                       *)
(***************************************************************************)

\* main: RegisterHandler and Connect, which is not tried again.
StationStarts(s) ==
    /\ link[s] = "off"
    /\ link' = [link EXCEPT ![s] = IF relay THEN "open" ELSE "cut"]
    /\ UNCHANGED <<page, relay, uplink, inbox, busy, transmitted, handled, faults>>

\* The process is gone.
StationGone(s) ==
    /\ link' = [link EXCEPT ![s] = "off"]
    /\ inbox' = [inbox EXCEPT ![s] = <<>>]
    /\ busy' = [busy EXCEPT ![s] = 0]

\* A kill; what the handler was sending may have gone out.
StationStops(s) ==
    /\ Fault
    /\ link[s] # "off"
    /\ StationGone(s)
    /\ transmitted' \in {transmitted} \cup
          IF busy[s] # 0 THEN {[transmitted EXCEPT ![s] = Append(@, busy[s])]} ELSE {}
    /\ UNCHANGED <<page, relay, uplink, handled>>

\* The connection breaks; what has arrived is still read.
StationCut(s) ==
    /\ Fault
    /\ link[s] = "open"
    /\ link' = [link EXCEPT ![s] = "cut"]
    /\ \E k \in 0 .. Len(inbox[s]) : inbox' = [inbox EXCEPT ![s] = SubSeq(@, 1, k)]
    /\ UNCHANGED <<page, relay, uplink, busy, transmitted, handled>>

\* A message that arrives while the handler is busy is dropped.
ReceiveDropsMutant(s) ==
    /\ inbox[s] # <<>>
    /\ busy' = IF busy[s] = 0 THEN [busy EXCEPT ![s] = Head(inbox[s])] ELSE busy
    /\ inbox' = [inbox EXCEPT ![s] = Tail(@)]
    /\ UNCHANGED <<page, relay, uplink, link, transmitted, handled, faults>>

\* The message handler: ReadMessage finds its own name and calls MakeTCData.
Receive(s) ==
    /\ busy[s] = 0 /\ inbox[s] # <<>>
    /\ busy' = [busy EXCEPT ![s] = Head(inbox[s])]
    /\ inbox' = [inbox EXCEPT ![s] = Tail(@)]
    /\ UNCHANGED <<page, relay, uplink, link, transmitted, handled, faults>>

\* The handler returns.
Finish(s) ==
    /\ handled' = [handled EXCEPT ![s] = @ \cup {busy[s]}]
    /\ busy' = [busy EXCEPT ![s] = 0]
    /\ UNCHANGED <<page, relay, uplink, link, inbox, faults>>

\* The command is sent, and sent again when the modem does not close in time.
MakeTCDataTwiceMutant(s) ==
    /\ busy[s] # 0
    /\ Finish(s)
    /\ transmitted' = [transmitted EXCEPT ![s] = @ \o <<busy[s], busy[s]>>]

\* MakeTCData: packing fails, there is no address, the modem cannot be reached or
\* not all bytes are taken (in each case a line is printed), or the frame is sent.
MakeTCData(s) ==
    /\ busy[s] # 0
    /\ Finish(s)
    /\ transmitted' \in {transmitted, [transmitted EXCEPT ![s] = Append(@, busy[s])]}

\* A parameter type that begins with "str" and goes on without a number: stoi
\* throws, nothing in the WebSocket thread catches it, and the process ends.  So it
\* does when jsoncpp throws: at a list where a text should be, or a bool of 2^31.
MakeTCDataThrows(s) ==
    /\ busy[s] # 0
    /\ StationGone(s)
    /\ UNCHANGED <<page, relay, uplink, transmitted, handled, faults>>

Station(s) == Receive(s) \/ MakeTCData(s) \/ MakeTCDataThrows(s)

Next ==
    \/ PageConnects \/ PageSends \/ PageReloads \/ PageCut
    \/ RelayStops \/ RelayStarts
    \/ \E v \in Visits : RelayForwards(v)
    \/ \E s \in Stations :
          StationStarts(s) \/ StationStops(s) \/ StationCut(s) \/ Station(s)

\* The relay and the WebSocket threads go on; the modem's side of TCP answers or the
\* connection attempt times out.  Nothing is assumed of the operator, the database
\* or the network.
Spec ==
    /\ Init /\ [][Next]_vars
    /\ \A v \in Visits : WF_vars(RelayForwards(v))
    /\ \A s \in Stations : WF_vars(Station(s))

-----------------------------------------------------------------------------
(***************************************************************************)
(* Properties.                                                             *)
(***************************************************************************)

\* The types of the variables.
TypeOK ==
    /\ visit \in Visits /\ ws \in {"new", "open", "closed"} /\ sent \in Seq(Visits)
    /\ relay \in BOOLEAN
    /\ uplink \in [Visits -> Seq(Messages)]
    /\ link \in [Stations -> {"off", "open", "cut"}]
    /\ inbox \in [Stations -> Seq(Messages)]
    /\ busy \in [Stations -> {0} \cup Messages]
    /\ transmitted \in [Stations -> Seq(Messages)]
    /\ handled \in [Stations -> SUBSET Messages]
    /\ faults \in 0 .. MaxFaults

\* Whatever stops, breaks or is reloaded, a station sends a command to the modem at
\* most once, and the commands of one visit of the page in the order of sending.
Feed == INSTANCE CommandFeed
ImplementsFeed == Feed!Spec

\* No command gets stuck: the relay passes on what a connection carries, and a
\* station works off what it has been sent, unless its connection breaks or its
\* process ends.
CommandsMoveOn ==
    /\ \A v \in Visits : uplink[v] # <<>> ~> uplink[v] = <<>>
    /\ \A s \in Stations : \A n \in Messages :
          (\E i \in 1 .. Len(inbox[s]) : inbox[s][i] = n)
              ~> (n \in handled[s] \/ link[s] # "open")
=============================================================================
