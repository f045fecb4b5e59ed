------------------------- MODULE CommandUplinkProofs -------------------------
(***************************************************************************)
(* Proofs about what happens to a command after it is sent.                *)
(*                                                                         *)
(* CommandUplink, for any number of stations, commands, visits and faults: *)
(* its types, and that it implements CommandFeed, so that no station       *)
(* transmits a command twice, or the commands of one visit out of order.   *)
(* TcFrame, for any commands: the frame's lengths, headers and checksum    *)
(* agree, every parameter can be read back from it, and commands that      *)
(* differ have frames that differ.                                         *)
(*                                                                         *)
(* What a station has transmitted says nothing of what it may transmit     *)
(* next.  The invariant therefore follows the whole line: what a station   *)
(* has transmitted precedes what it is handling, which precedes what it    *)
(* has been sent, which precedes what is still on its way to the relay.    *)
(***************************************************************************)
EXTENDS CommandUplink, TcFrame, FiniteSetTheorems, TLAPS

Types == TypeOK /\ Len(sent) <= MaxSends

SetOf(q) == {q[i] : i \in 1 .. Len(q)}

\* Where S are the visits of the commands, m may go before n: the commands of one visit in their order, each once.
Below(S, m, n) == S[m] = S[n] => m < n

Precede(S, A, B) == \A m \in A, n \in B : Below(S, m, n)

Ordered(S, q) == \A i, j \in 1 .. Len(q) : i < j => Below(S, q[i], q[j])

Handling(s) == {busy[s]} \ {0}

\* What a station has transmitted or is handling; and that with what it has been sent.
Taken(s) == SetOf(transmitted[s]) \cup Handling(s)
Got(s)   == Taken(s) \cup SetOf(inbox[s])

UplinkLine ==
    \A v \in Visits :
        /\ \A n \in SetOf(uplink[v]) : n \in 1 .. Len(sent) /\ sent[n] = v
        /\ Ordered(sent, uplink[v])

StationLine ==
    \A s \in Stations :
        /\ Got(s) \subseteq 1 .. Len(sent)
        /\ Precede(sent, SetOf(transmitted[s]), Handling(s))
        /\ Precede(sent, Taken(s), SetOf(inbox[s]))
        /\ Ordered(sent, inbox[s])
        /\ \A v \in Visits : Precede(sent, Got(s), SetOf(uplink[v]))

IInv == Types /\ UplinkLine /\ StationLine

-----------------------------------------------------------------------------
(***************************************************************************)
(* Sequences.                                                              *)
(***************************************************************************)

LEMMA Appended ==
    ASSUME NEW q \in Seq(Messages), NEW x \in Messages
    PROVE  /\ Append(q, x) \in Seq(Messages) /\ SetOf(Append(q, x)) = SetOf(q) \cup {x}
           /\ \A S : Ordered(S, q) /\ Precede(S, SetOf(q), {x}) => Ordered(S, Append(q, x))
<1>1. /\ Append(q, x) \in Seq(Messages) /\ Len(Append(q, x)) = Len(q) + 1 /\ Len(q) \in Nat
      /\ Append(q, x)[Len(q) + 1] = x
      /\ \A i \in 1 .. Len(q) : Append(q, x)[i] = q[i]
  OBVIOUS
<1>2. SetOf(Append(q, x)) \subseteq SetOf(q) \cup {x}
  <2> SUFFICES ASSUME NEW i \in 1 .. Len(Append(q, x))
               PROVE  Append(q, x)[i] \in SetOf(q) \cup {x}
    BY DEF SetOf
  <2>1. i \in 1 .. Len(q) \/ i = Len(q) + 1
    BY <1>1
  <2>2. QED
    BY <1>1, <2>1 DEF SetOf
<1>3. SetOf(q) \cup {x} \subseteq SetOf(Append(q, x))
  <2>1. \A i \in 1 .. Len(q) : q[i] \in SetOf(Append(q, x))
    BY <1>1 DEF SetOf
  <2>2. x \in SetOf(Append(q, x))
    BY <1>1 DEF SetOf
  <2>3. QED
    BY <2>1, <2>2 DEF SetOf
<1>4. ASSUME NEW S, Ordered(S, q), Precede(S, SetOf(q), {x}) PROVE Ordered(S, Append(q, x))
  <2> SUFFICES ASSUME NEW i \in 1 .. Len(Append(q, x)), NEW j \in 1 .. Len(Append(q, x)), i < j
               PROVE  Below(S, Append(q, x)[i], Append(q, x)[j])
    BY DEF Ordered
  <2>1. i \in 1 .. Len(q) /\ (j \in 1 .. Len(q) \/ j = Len(q) + 1)
    BY <1>1
  <2>2. QED
    BY <1>1, <1>4, <2>1 DEF Ordered, Precede, SetOf
<1>5. QED
  BY <1>1, <1>2, <1>3, <1>4

LEMMA TakenFrom ==
    ASSUME NEW q \in Seq(Messages), q # <<>>
    PROVE  /\ Tail(q) \in Seq(Messages) /\ Head(q) \in Messages
           /\ Head(q) \in SetOf(q) /\ SetOf(Tail(q)) \subseteq SetOf(q)
           /\ \A S : Ordered(S, q) => Ordered(S, Tail(q)) /\ Precede(S, {Head(q)}, SetOf(Tail(q)))
<1>1. /\ Tail(q) \in Seq(Messages) /\ Len(q) \in Nat \ {0} /\ Len(Tail(q)) = Len(q) - 1
      /\ Head(q) = q[1] /\ q[1] \in Messages
      /\ \A i \in 1 .. Len(Tail(q)) : i + 1 \in 1 .. Len(q) /\ Tail(q)[i] = q[i + 1]
  OBVIOUS
<1>2. 1 \in 1 .. Len(q)
  BY <1>1
<1>3. Head(q) \in SetOf(q) /\ SetOf(Tail(q)) \subseteq SetOf(q)
  BY <1>1, <1>2 DEF SetOf
<1>4. ASSUME NEW S, Ordered(S, q) PROVE Ordered(S, Tail(q)) /\ Precede(S, {Head(q)}, SetOf(Tail(q)))
  <2>1. Ordered(S, Tail(q))
    <3> SUFFICES ASSUME NEW i \in 1 .. Len(Tail(q)), NEW j \in 1 .. Len(Tail(q)), i < j
                 PROVE  Below(S, Tail(q)[i], Tail(q)[j])
      BY DEF Ordered
    <3>1. /\ i + 1 \in 1 .. Len(q) /\ j + 1 \in 1 .. Len(q) /\ i + 1 < j + 1
          /\ Tail(q)[i] = q[i + 1] /\ Tail(q)[j] = q[j + 1]
      BY <1>1
    <3>2. QED
      BY <1>4, <3>1 DEF Ordered
  <2>2. ASSUME NEW i \in 1 .. Len(Tail(q)) PROVE Below(S, q[1], Tail(q)[i])
    <3>1. i + 1 \in 1 .. Len(q) /\ 1 < i + 1 /\ Tail(q)[i] = q[i + 1]
      BY <1>1
    <3>2. QED
      BY <1>2, <1>4, <3>1 DEF Ordered
  <2>3. QED
    BY <1>1, <2>1, <2>2 DEF Precede, SetOf
<1>5. QED
  BY <1>1, <1>3, <1>4

LEMMA Shortened ==
    ASSUME NEW q \in Seq(Messages), NEW k \in 0 .. Len(q)
    PROVE  /\ SubSeq(q, 1, k) \in Seq(Messages) /\ SetOf(SubSeq(q, 1, k)) \subseteq SetOf(q)
           /\ \A S : Ordered(S, q) => Ordered(S, SubSeq(q, 1, k))
<1>1. /\ SubSeq(q, 1, k) \in Seq(Messages) /\ Len(SubSeq(q, 1, k)) = k
      /\ \A i \in 1 .. k : i \in 1 .. Len(q) /\ SubSeq(q, 1, k)[i] = q[i]
  OBVIOUS
<1>2. QED
  BY <1>1 DEF SetOf, Ordered

LEMMA Empty == \A S :
    <<>> \in Seq(Messages) /\ SetOf(<<>>) = {} /\ Ordered(S, <<>>)
  BY DEF SetOf, Ordered

-----------------------------------------------------------------------------
(***************************************************************************)
(* The steps.                                                              *)
(***************************************************************************)

\* Steps that lose commands, or that move the one being handled to the modem, keep
\* the line in order.
LEMMA Fewer ==
    ASSUME UplinkLine, StationLine, sent' = sent,
           \A v \in Visits :
              /\ SetOf(uplink'[v]) \subseteq SetOf(uplink[v])
              /\ Ordered(sent, uplink[v]) => Ordered(sent, uplink'[v]),
           \A s \in Stations :
              /\ SetOf(transmitted'[s]) \subseteq Taken(s)
              /\ Handling(s)' \subseteq Handling(s)
              /\ transmitted'[s] = transmitted[s] \/ Handling(s)' = {}
              /\ SetOf(inbox'[s]) \subseteq SetOf(inbox[s])
              /\ Ordered(sent, inbox[s]) => Ordered(sent, inbox'[s])
    PROVE  UplinkLine' /\ StationLine'
<1>1. UplinkLine'
  BY DEF UplinkLine
<1>2. \A s \in Stations : Taken(s)' \subseteq Taken(s) /\ Got(s)' \subseteq Got(s)
  BY DEF Taken, Got
<1>3. ASSUME NEW s \in Stations
      PROVE  /\ Got(s)' \subseteq 1 .. Len(sent')
             /\ Precede(sent', SetOf(transmitted'[s]), Handling(s)')
             /\ Precede(sent', Taken(s)', SetOf(inbox'[s]))
             /\ Ordered(sent', inbox'[s])
             /\ \A v \in Visits : Precede(sent', Got(s)', SetOf(uplink'[v]))
  <2>1. /\ Got(s) \subseteq 1 .. Len(sent)
        /\ Precede(sent, SetOf(transmitted[s]), Handling(s))
        /\ Precede(sent, Taken(s), SetOf(inbox[s]))
        /\ Ordered(sent, inbox[s])
        /\ \A v \in Visits : Precede(sent, Got(s), SetOf(uplink[v]))
    BY DEF StationLine
  <2>2. Precede(sent, SetOf(transmitted'[s]), Handling(s)')
    BY <2>1 DEF Precede
  <2>3. QED
    BY <1>2, <2>1, <2>2 DEF Precede
<1>4. StationLine'
  BY <1>3 DEF StationLine
<1>5. QED
  BY <1>1, <1>4

\* What the modem is given is what the station was handling.
LEMMA Transmits ==
    ASSUME Types, NEW s \in Stations, busy[s] # 0,
           transmitted' = [transmitted EXCEPT ![s] = Append(@, busy[s])]
    PROVE  /\ transmitted' \in [Stations -> Seq(Messages)]
           /\ SetOf(transmitted'[s]) \subseteq Taken(s)
           /\ \A t \in Stations \ {s} : transmitted'[t] = transmitted[t]
<1>1. transmitted[s] \in Seq(Messages) /\ busy[s] \in Messages
  BY DEF Types, TypeOK
<1>2. transmitted'[s] = Append(transmitted[s], busy[s])
  BY DEF Types, TypeOK
<1>3. SetOf(transmitted'[s]) = SetOf(transmitted[s]) \cup {busy[s]}
  BY <1>1, <1>2, Appended
<1>4. QED
  BY <1>1, <1>2, <1>3, Appended DEF Types, TypeOK, Taken, Handling

\* The stations as they are.
LEMMA StationsKept ==
    ASSUME NEW s \in Stations, UNCHANGED <<transmitted, busy, inbox>>
    PROVE  Taken(s)' = Taken(s) /\ Handling(s)' = Handling(s) /\ Got(s)' = Got(s)
           /\ SetOf(transmitted[s]) \subseteq Taken(s)
  BY DEF Taken, Handling, Got

\* A command is sent.
LEMMA SendStep == ASSUME IInv, PageSends PROVE IInv'
<1> DEFINE n == Len(sent) + 1
<1>1. /\ Len(sent) < MaxSends /\ sent' = Append(sent, visit)
      /\ uplink' = [uplink EXCEPT ![visit] = Append(@, n)]
      /\ UNCHANGED <<visit, ws, relay, link, inbox, busy, transmitted, handled, faults>>
  BY DEF PageSends, station
<1>2. /\ Len(sent) \in Nat /\ sent \in Seq(Visits) /\ visit \in Visits
      /\ uplink \in [Visits -> Seq(Messages)] /\ MaxSends \in Nat
  BY UplinkAssumption DEF IInv, Types, TypeOK
<1>3. /\ sent' \in Seq(Visits) /\ Len(sent') = n /\ sent'[n] = visit
      /\ \A m \in 1 .. Len(sent) : sent'[m] = sent[m] /\ m \in 1 .. Len(sent') /\ m < n
  BY <1>1, <1>2
<1>4. n \in Messages /\ n \in 1 .. Len(sent')
  BY <1>1, <1>2, <1>3 DEF Messages
<1> HIDE DEF n
<1>5. /\ SetOf(uplink'[visit]) = SetOf(uplink[visit]) \cup {n}
      /\ uplink'[visit] = Append(uplink[visit], n)
      /\ \A v \in Visits \ {visit} : uplink'[v] = uplink[v]
      /\ uplink' \in [Visits -> Seq(Messages)]
  <2>1. uplink[visit] \in Seq(Messages)
    BY <1>2
  <2>2. Append(uplink[visit], n) \in Seq(Messages)
        /\ SetOf(Append(uplink[visit], n)) = SetOf(uplink[visit]) \cup {n}
    BY <1>4, <2>1, Appended
  <2>3. QED
    BY <1>1, <1>2, <2>2
<1>6. Types'
  BY <1>1, <1>2, <1>3, <1>4, <1>5, UplinkAssumption DEF IInv, Types, TypeOK, Messages
<1>7. \A v \in Visits : \A m \in SetOf(uplink[v]) : m \in 1 .. Len(sent) /\ sent[m] = v
  BY DEF IInv, UplinkLine
<1>8. \A v \in Visits : Ordered(sent', uplink[v])
  <2> SUFFICES ASSUME NEW v \in Visits, NEW i \in 1 .. Len(uplink[v]),
                      NEW j \in 1 .. Len(uplink[v]), i < j
               PROVE  Below(sent', uplink[v][i], uplink[v][j])
    BY DEF Ordered
  <2>1. uplink[v][i] \in 1 .. Len(sent) /\ uplink[v][j] \in 1 .. Len(sent)
    BY <1>7 DEF SetOf
  <2>2. Below(sent, uplink[v][i], uplink[v][j])
    BY DEF IInv, UplinkLine, Ordered
  <2>3. QED
    BY <1>3, <2>1, <2>2 DEF Below
<1>9. UplinkLine'
  <2>1. ASSUME NEW v \in Visits, NEW m \in SetOf(uplink'[v])
        PROVE  m \in 1 .. Len(sent') /\ sent'[m] = v
    <3>1. m \in SetOf(uplink[v]) \/ (v = visit /\ m = n)
      BY <1>5, <2>1
    <3>2. QED
      BY <1>3, <1>4, <1>7, <3>1
  <2>2. Precede(sent', SetOf(uplink[visit]), {n})
    BY <1>2, <1>3, <1>7 DEF Precede, Below
  <2>3. Ordered(sent', Append(uplink[visit], n))
    <3>1. uplink[visit] \in Seq(Messages)
      BY <1>2
    <3>2. QED
      BY <1>2, <1>4, <1>8, <2>2, <3>1, Appended
  <2>4. ASSUME NEW v \in Visits PROVE Ordered(sent', uplink'[v])
    BY <1>5, <1>8, <2>3, <2>4
  <2>5. QED
    BY <2>1, <2>4 DEF UplinkLine
<1>10. ASSUME NEW A, NEW B, A \subseteq 1 .. Len(sent), B \subseteq 1 .. Len(sent),
              Precede(sent, A, B)
       PROVE  Precede(sent', A, B)
  BY <1>3, <1>10 DEF Precede, Below
<1>11. StationLine'
  <2> SUFFICES ASSUME NEW s \in Stations
               PROVE  /\ Got(s) \subseteq 1 .. Len(sent')
                      /\ Precede(sent', SetOf(transmitted[s]), Handling(s))
                      /\ Precede(sent', Taken(s), SetOf(inbox[s]))
                      /\ Ordered(sent', inbox[s])
                      /\ \A v \in Visits : Precede(sent', Got(s), SetOf(uplink'[v]))
    BY <1>1 DEF StationLine, Got, Taken, Handling
  <2>1. /\ Got(s) \subseteq 1 .. Len(sent)
        /\ Precede(sent, SetOf(transmitted[s]), Handling(s))
        /\ Precede(sent, Taken(s), SetOf(inbox[s]))
        /\ Ordered(sent, inbox[s])
        /\ \A v \in Visits : Precede(sent, Got(s), SetOf(uplink[v]))
    BY DEF IInv, StationLine
  <2>2. /\ Precede(sent', SetOf(transmitted[s]), Handling(s))
        /\ Precede(sent', Taken(s), SetOf(inbox[s]))
    BY <1>10, <2>1 DEF Got, Taken
  <2>3. Ordered(sent', inbox[s])
    <3> SUFFICES ASSUME NEW i \in 1 .. Len(inbox[s]), NEW j \in 1 .. Len(inbox[s]), i < j
                 PROVE  Below(sent', inbox[s][i], inbox[s][j])
      BY DEF Ordered
    <3>1. inbox[s][i] \in 1 .. Len(sent) /\ inbox[s][j] \in 1 .. Len(sent)
      BY <2>1 DEF Got, SetOf
    <3>2. Below(sent, inbox[s][i], inbox[s][j])
      BY <2>1 DEF Ordered
    <3>3. QED
      BY <1>3, <3>1, <3>2 DEF Below
  <2>4. ASSUME NEW v \in Visits PROVE Precede(sent', Got(s), SetOf(uplink'[v]))
    <3>1. Precede(sent', Got(s), SetOf(uplink[v]))
      BY <1>7, <1>10, <2>1
    <3>2. Precede(sent', Got(s), {n})
      BY <1>3, <2>1 DEF Precede, Below
    <3>3. SetOf(uplink'[v]) \subseteq SetOf(uplink[v]) \cup {n}
      BY <1>5
    <3>4. QED
      BY <3>1, <3>2, <3>3 DEF Precede
  <2>5. QED
    BY <1>3, <2>1, <2>2, <2>3, <2>4
<1>12. QED
  BY <1>6, <1>9, <1>11 DEF IInv

\* The page connects, is loaded again or loses its connection; the relay stops or
\* starts; a station starts: nothing is added to any line.
LEMMA QuietStep ==
    ASSUME IInv,
           PageConnects \/ PageReloads \/ PageCut \/ RelayStops \/ RelayStarts
              \/ \E s \in Stations : StationStarts(s)
    PROVE  IInv'
<1>1. /\ UNCHANGED <<sent, inbox, busy, transmitted, handled>>
      /\ uplink' \in [Visits -> Seq(Messages)]
      /\ \A v \in Visits : uplink'[v] = uplink[v] \/ uplink'[v] = <<>>
  <2>1. <<>> \in Seq(Messages) /\ uplink \in [Visits -> Seq(Messages)]
    BY Empty DEF IInv, Types, TypeOK
  <2>2. QED
    BY <2>1 DEF PageConnects, PageReloads, PageCut, RelayStops, RelayStarts, StationStarts,
                station, page
<1>2. /\ visit' \in Visits /\ ws' \in {"new", "open", "closed"} /\ relay' \in BOOLEAN
      /\ link' \in [Stations -> {"off", "open", "cut"}] /\ faults' \in 0 .. MaxFaults
  <2>1. /\ visit \in Visits /\ ws \in {"new", "open", "closed"} /\ relay \in BOOLEAN
        /\ link \in [Stations -> {"off", "open", "cut"}] /\ faults \in 0 .. MaxFaults
    BY DEF IInv, Types, TypeOK
  <2>2. CASE PageConnects
    BY <2>1, <2>2 DEF PageConnects, station
  <2>3. CASE PageReloads
    BY <2>1, <2>3, UplinkAssumption DEF PageReloads, station, Visits
  <2>4. CASE PageCut
    BY <2>1, <2>4, UplinkAssumption DEF PageCut, Fault, station
  <2>5. CASE RelayStops
    <3>1. /\ UNCHANGED visit /\ relay' = FALSE /\ ws' \in {ws, "closed"}
          /\ faults < MaxFaults /\ faults' = faults + 1
          /\ link' = [s \in Stations |-> Cut(link[s])]
      BY <2>5 DEF RelayStops, Fault
    <3>2. \A s \in Stations : Cut(link[s]) \in {"off", "open", "cut"}
      BY <2>1 DEF Cut
    <3>3. faults + 1 \in 0 .. MaxFaults
      BY <2>1, <3>1, UplinkAssumption
    <3>4. QED
      BY <2>1, <3>1, <3>2, <3>3
  <2>6. CASE RelayStarts
    BY <2>1, <2>6 DEF RelayStarts, page, station
  <2>7. ASSUME NEW s \in Stations, StationStarts(s)
        PROVE  /\ visit' \in Visits /\ ws' \in {"new", "open", "closed"} /\ relay' \in BOOLEAN
               /\ link' \in [Stations -> {"off", "open", "cut"}] /\ faults' \in 0 .. MaxFaults
    BY <2>1, <2>7 DEF StationStarts, page
  <2>8. QED
    BY <2>2, <2>3, <2>4, <2>5, <2>6, <2>7
<1>3. Types'
  BY <1>1, <1>2 DEF IInv, Types, TypeOK
<1>4. \A v \in Visits :
         /\ SetOf(uplink'[v]) \subseteq SetOf(uplink[v])
         /\ Ordered(sent, uplink[v]) => Ordered(sent, uplink'[v])
  BY <1>1, Empty
<1>5. \A s \in Stations :
         /\ SetOf(transmitted'[s]) \subseteq Taken(s) /\ Handling(s)' \subseteq Handling(s)
  BY <1>1, StationsKept
<1>6. UplinkLine' /\ StationLine'
  BY <1>1, <1>4, <1>5, Fewer DEF IInv
<1>7. QED
  BY <1>3, <1>6 DEF IInv

\* The relay passes a command on.
LEMMA ForwardStep == ASSUME IInv, NEW v \in Visits, RelayForwards(v) PROVE IInv'
<1> DEFINE n == Head(uplink[v])
<1>1. /\ uplink[v] # <<>> /\ uplink' = [uplink EXCEPT ![v] = Tail(@)]
      /\ inbox' = [s \in Stations |-> IF link[s] = "open" THEN Append(inbox[s], n) ELSE inbox[s]]
      /\ UNCHANGED <<visit, ws, sent, relay, link, busy, transmitted, handled, faults>>
  BY DEF RelayForwards, Broadcast, page
<1>2. /\ uplink \in [Visits -> Seq(Messages)] /\ inbox \in [Stations -> Seq(Messages)]
  BY DEF IInv, Types, TypeOK
<1>3. /\ n \in Messages /\ n \in SetOf(uplink[v])
      /\ Tail(uplink[v]) \in Seq(Messages)
      /\ SetOf(Tail(uplink[v])) \subseteq SetOf(uplink[v])
      /\ Ordered(sent, Tail(uplink[v])) /\ Precede(sent, {n}, SetOf(Tail(uplink[v])))
  <2>1. uplink[v] \in Seq(Messages) /\ Ordered(sent, uplink[v])
    BY <1>2 DEF IInv, UplinkLine
  <2>2. QED
    BY <1>1, <2>1, TakenFrom
<1>4. n \in 1 .. Len(sent) /\ sent[n] = v
  BY <1>3 DEF IInv, UplinkLine
<1> HIDE DEF n
<1>5. /\ uplink' \in [Visits -> Seq(Messages)] /\ uplink'[v] = Tail(uplink[v])
      /\ \A w \in Visits \ {v} : uplink'[w] = uplink[w]
  BY <1>1, <1>2, <1>3
<1>6. ASSUME NEW s \in Stations
      PROVE  /\ inbox'[s] \in Seq(Messages)
             /\ SetOf(inbox'[s]) \subseteq SetOf(inbox[s]) \cup {n}
             /\ Ordered(sent, inbox[s]) /\ Precede(sent, SetOf(inbox[s]), {n})
                   => Ordered(sent, inbox'[s])
  <2>1. inbox[s] \in Seq(Messages)
    BY <1>2
  <2>2. inbox'[s] = Append(inbox[s], n) \/ inbox'[s] = inbox[s]
    BY <1>1
  <2>3. QED
    BY <1>3, <2>1, <2>2, Appended
<1>7. Types'
  <2>1. inbox' \in [Stations -> Seq(Messages)]
    BY <1>1, <1>6
  <2>2. QED
    BY <1>1, <1>5, <2>1 DEF IInv, Types, TypeOK
<1>8. UplinkLine'
  BY <1>1, <1>3, <1>5 DEF IInv, UplinkLine
<1>9. \A w \in Visits : /\ SetOf(uplink'[w]) \subseteq SetOf(uplink[w])
                        /\ Precede(sent, {n}, SetOf(uplink'[w]))
  <2> SUFFICES ASSUME NEW w \in Visits
               PROVE  /\ SetOf(uplink'[w]) \subseteq SetOf(uplink[w])
                      /\ Precede(sent, {n}, SetOf(uplink'[w]))
    OBVIOUS
  <2>1. CASE w = v
    BY <1>3, <1>5, <2>1
  <2>2. CASE w # v
    <3>1. \A m \in SetOf(uplink[w]) : sent[m] # sent[n]
      BY <1>4, <2>2 DEF IInv, UplinkLine
    <3>2. QED
      BY <1>5, <2>2, <3>1 DEF Precede, Below
  <2>3. QED
    BY <2>1, <2>2
<1>10. StationLine'
  <2> SUFFICES ASSUME NEW s \in Stations
               PROVE  /\ Got(s)' \subseteq 1 .. Len(sent)
                      /\ Precede(sent, SetOf(transmitted[s]), Handling(s))
                      /\ Precede(sent, Taken(s), SetOf(inbox'[s]))
                      /\ Ordered(sent, inbox'[s])
                      /\ \A w \in Visits : Precede(sent, Got(s)', SetOf(uplink'[w]))
    BY <1>1 DEF StationLine, Taken, Handling
  <2>1. /\ Got(s) \subseteq 1 .. Len(sent)
        /\ Precede(sent, SetOf(transmitted[s]), Handling(s))
        /\ Precede(sent, Taken(s), SetOf(inbox[s]))
        /\ Ordered(sent, inbox[s])
        /\ \A w \in Visits : Precede(sent, Got(s), SetOf(uplink[w]))
    BY DEF IInv, StationLine
  <2>2. Taken(s)' = Taken(s) /\ Got(s)' \subseteq Got(s) \cup {n}
    BY <1>1, <1>6 DEF Taken, Handling, Got
  <2>3. Precede(sent, Got(s), {n})
    BY <1>3, <2>1 DEF Precede
  <2>4. Precede(sent, Taken(s), {n}) /\ Precede(sent, SetOf(inbox[s]), {n})
    BY <2>3 DEF Precede, Got
  <2>5. Precede(sent, Taken(s), SetOf(inbox'[s]))
    BY <1>6, <2>1, <2>4 DEF Precede
  <2>6. ASSUME NEW w \in Visits PROVE Precede(sent, Got(s)', SetOf(uplink'[w]))
    BY <1>9, <2>1, <2>2 DEF Precede
  <2>7. QED
    BY <1>4, <1>6, <2>1, <2>2, <2>4, <2>5, <2>6
<1>11. QED
  BY <1>7, <1>8, <1>10 DEF IInv

\* A station is handed the next command.
LEMMA ReceiveStep == ASSUME IInv, NEW s \in Stations, Receive(s) PROVE IInv'
<1> DEFINE n == Head(inbox[s])
<1>1. /\ busy[s] = 0 /\ inbox[s] # <<>>
      /\ busy' = [busy EXCEPT ![s] = n] /\ inbox' = [inbox EXCEPT ![s] = Tail(@)]
      /\ UNCHANGED <<visit, ws, sent, relay, uplink, link, transmitted, handled, faults>>
  BY DEF Receive, page
<1>2. inbox[s] \in Seq(Messages) /\ Ordered(sent, inbox[s])
  BY DEF IInv, Types, TypeOK, StationLine
<1>3. /\ n \in Messages /\ n \in SetOf(inbox[s])
      /\ Tail(inbox[s]) \in Seq(Messages)
      /\ SetOf(Tail(inbox[s])) \subseteq SetOf(inbox[s])
      /\ Ordered(sent, Tail(inbox[s])) /\ Precede(sent, {n}, SetOf(Tail(inbox[s])))
  BY <1>1, <1>2, TakenFrom
<1> HIDE DEF n
<1>4. /\ busy'[s] = n /\ inbox'[s] = Tail(inbox[s])
      /\ busy' \in [Stations -> {0} \cup Messages] /\ inbox' \in [Stations -> Seq(Messages)]
      /\ \A t \in Stations \ {s} : busy'[t] = busy[t] /\ inbox'[t] = inbox[t]
  BY <1>1, <1>3 DEF IInv, Types, TypeOK
<1>5. Types'
  BY <1>1, <1>4 DEF IInv, Types, TypeOK
<1>6. UplinkLine'
  BY <1>1 DEF IInv, UplinkLine
<1>7. ASSUME NEW t \in Stations
      PROVE  /\ Got(t)' \subseteq 1 .. Len(sent)
             /\ Precede(sent, SetOf(transmitted[t]), Handling(t)')
             /\ Precede(sent, Taken(t)', SetOf(inbox'[t]))
             /\ Ordered(sent, inbox'[t])
             /\ \A v \in Visits : Precede(sent, Got(t)', SetOf(uplink[v]))
  <2>1. /\ Got(t) \subseteq 1 .. Len(sent)
        /\ Precede(sent, SetOf(transmitted[t]), Handling(t))
        /\ Precede(sent, Taken(t), SetOf(inbox[t]))
        /\ Ordered(sent, inbox[t])
        /\ \A v \in Visits : Precede(sent, Got(t), SetOf(uplink[v]))
    BY DEF IInv, StationLine
  <2>2. CASE t = s
    <3>1. Handling(s)' \subseteq {n} /\ Handling(s) = {} /\ Taken(s) = SetOf(transmitted[s])
      BY <1>1, <1>4 DEF Handling, Taken
    <3>2. Taken(s)' \subseteq Taken(s) \cup {n}
      BY <1>1, <3>1 DEF Taken
    <3>3. Got(s)' \subseteq Got(s)
      BY <1>3, <1>4, <3>2 DEF Got
    <3>4. Precede(sent, SetOf(transmitted[s]), Handling(s)')
      BY <1>3, <2>1, <2>2, <3>1 DEF Precede
    <3>5. Precede(sent, Taken(s)', SetOf(inbox'[s]))
      BY <1>3, <1>4, <2>1, <2>2, <3>2 DEF Precede
    <3>6. \A v \in Visits : Precede(sent, Got(s)', SetOf(uplink[v]))
      BY <2>1, <2>2, <3>3 DEF Precede
    <3>7. QED
      BY <1>3, <1>4, <2>1, <2>2, <3>3, <3>4, <3>5, <3>6
  <2>3. CASE t # s
    <3>1. Taken(t)' = Taken(t) /\ Got(t)' = Got(t) /\ Handling(t)' = Handling(t)
      BY <1>1, <1>4, <2>3 DEF Taken, Got, Handling
    <3>2. QED
      BY <1>4, <2>1, <2>3, <3>1
  <2>4. QED
    BY <2>2, <2>3
<1>8. StationLine'
  BY <1>1, <1>7 DEF StationLine
<1>9. QED
  BY <1>5, <1>6, <1>8 DEF IInv

\* Of the station s, what comes in and what it handles goes; it may have transmitted
\* what it handled.
Works(s) ==
    /\ UNCHANGED <<visit, ws, sent, relay, uplink>>
    /\ transmitted' = transmitted \/
          (busy[s] # 0 /\ transmitted' = [transmitted EXCEPT ![s] = Append(@, busy[s])])
    /\ transmitted' = transmitted \/ busy'[s] = 0
    /\ busy' \in {busy, [busy EXCEPT ![s] = 0]}
    /\ \E k \in 0 .. Len(inbox[s]) : inbox' = [inbox EXCEPT ![s] = SubSeq(@, 1, k)]
    /\ link' \in [Stations -> {"off", "open", "cut"}]
    /\ handled' \in [Stations -> SUBSET Messages]
    /\ faults' \in 0 .. MaxFaults

LEMMA WorksStep == ASSUME IInv, NEW s \in Stations, Works(s) PROVE IInv'
<1>1. PICK k \in 0 .. Len(inbox[s]) : inbox' = [inbox EXCEPT ![s] = SubSeq(@, 1, k)]
  BY DEF Works
<1>2. inbox[s] \in Seq(Messages)
  BY DEF IInv, Types, TypeOK
<1>3. /\ SubSeq(inbox[s], 1, k) \in Seq(Messages)
      /\ SetOf(SubSeq(inbox[s], 1, k)) \subseteq SetOf(inbox[s])
      /\ Ordered(sent, inbox[s]) => Ordered(sent, SubSeq(inbox[s], 1, k))
  BY <1>2, Shortened
<1>4. /\ inbox' \in [Stations -> Seq(Messages)] /\ inbox'[s] = SubSeq(inbox[s], 1, k)
      /\ \A t \in Stations \ {s} : inbox'[t] = inbox[t]
  BY <1>1, <1>3 DEF IInv, Types, TypeOK
<1>5. /\ transmitted' \in [Stations -> Seq(Messages)]
      /\ SetOf(transmitted'[s]) \subseteq Taken(s)
      /\ \A t \in Stations \ {s} : transmitted'[t] = transmitted[t]
  <2>1. CASE transmitted' = transmitted
    BY <2>1 DEF IInv, Types, TypeOK, Taken
  <2>2. CASE busy[s] # 0 /\ transmitted' = [transmitted EXCEPT ![s] = Append(@, busy[s])]
    BY <2>2, Transmits DEF IInv
  <2>3. QED
    BY <2>1, <2>2 DEF Works
<1>6. /\ busy' \in [Stations -> {0} \cup Messages] /\ busy'[s] \in {busy[s], 0}
      /\ \A t \in Stations \ {s} : busy'[t] = busy[t]
  BY DEF Works, IInv, Types, TypeOK
<1>7. UNCHANGED <<visit, ws, sent, relay, uplink>>
      /\ (transmitted' = transmitted \/ busy'[s] = 0)
  BY DEF Works
<1>8. Types'
  BY <1>4, <1>5, <1>6, <1>7 DEF Works, IInv, Types, TypeOK
<1>9. \A t \in Stations :
         /\ SetOf(transmitted'[t]) \subseteq Taken(t)
         /\ Handling(t)' \subseteq Handling(t)
         /\ transmitted'[t] = transmitted[t] \/ Handling(t)' = {}
         /\ SetOf(inbox'[t]) \subseteq SetOf(inbox[t])
         /\ Ordered(sent, inbox[t]) => Ordered(sent, inbox'[t])
  <2> SUFFICES ASSUME NEW t \in Stations
               PROVE  /\ SetOf(transmitted'[t]) \subseteq Taken(t)
                      /\ Handling(t)' \subseteq Handling(t)
                      /\ transmitted'[t] = transmitted[t] \/ Handling(t)' = {}
                      /\ SetOf(inbox'[t]) \subseteq SetOf(inbox[t])
                      /\ Ordered(sent, inbox[t]) => Ordered(sent, inbox'[t])
    OBVIOUS
  <2>1. CASE t = s
    BY <1>3, <1>4, <1>5, <1>6, <1>7, <2>1 DEF Handling
  <2>2. CASE t # s
    BY <1>4, <1>5, <1>6, <2>2 DEF Handling, Taken
  <2>3. QED
    BY <2>1, <2>2
<1>10. UplinkLine' /\ StationLine'
  BY <1>7, <1>9, Fewer DEF IInv
<1>11. QED
  BY <1>8, <1>10 DEF IInv

\* The steps that work: a stop, a broken connection, and MakeTCData.
LEMMA AtWork ==
    ASSUME IInv, NEW s \in Stations,
           StationStops(s) \/ StationCut(s) \/ MakeTCData(s) \/ MakeTCDataThrows(s)
    PROVE  Works(s)
<1>1. /\ link \in [Stations -> {"off", "open", "cut"}] /\ faults \in 0 .. MaxFaults
      /\ handled \in [Stations -> SUBSET Messages] /\ busy \in [Stations -> {0} \cup Messages]
      /\ inbox \in [Stations -> Seq(Messages)] /\ inbox[s] \in Seq(Messages)
  BY DEF IInv, Types, TypeOK
<1>2. /\ 0 \in 0 .. Len(inbox[s]) /\ Len(inbox[s]) \in 0 .. Len(inbox[s])
      /\ SubSeq(inbox[s], 1, 0) = <<>> /\ SubSeq(inbox[s], 1, Len(inbox[s])) = inbox[s]
  BY <1>1
<1>3. inbox = [inbox EXCEPT ![s] = inbox[s]]
  BY <1>1
<1>4. CASE StationStops(s) \/ MakeTCDataThrows(s)
  <2>1. /\ \E k \in 0 .. Len(inbox[s]) : inbox' = [inbox EXCEPT ![s] = SubSeq(@, 1, k)]
        /\ busy' = [busy EXCEPT ![s] = 0] /\ busy'[s] = 0
        /\ link' \in [Stations -> {"off", "open", "cut"}]
    BY <1>1, <1>2, <1>4 DEF StationStops, MakeTCDataThrows, StationGone
  <2>2. /\ UNCHANGED <<visit, ws, sent, relay, uplink, handled>> /\ faults' \in 0 .. MaxFaults
        /\ transmitted' = transmitted \/
              (busy[s] # 0 /\ transmitted' = [transmitted EXCEPT ![s] = Append(@, busy[s])])
    <3>1. CASE StationStops(s)
      BY <1>1, <3>1, UplinkAssumption DEF StationStops, Fault, page
    <3>2. CASE MakeTCDataThrows(s)
      BY <1>1, <3>2 DEF MakeTCDataThrows, page
    <3>3. QED
      BY <1>4, <3>1, <3>2
  <2>3. QED
    BY <1>1, <2>1, <2>2 DEF Works
<1>5. CASE StationCut(s)
  <2>1. /\ \E k \in 0 .. Len(inbox[s]) : inbox' = [inbox EXCEPT ![s] = SubSeq(@, 1, k)]
        /\ UNCHANGED <<visit, ws, sent, relay, uplink, busy, transmitted, handled>>
        /\ link' = [link EXCEPT ![s] = "cut"] /\ faults' \in 0 .. MaxFaults
    <3>1. /\ \E k \in 0 .. Len(inbox[s]) : inbox' = [inbox EXCEPT ![s] = SubSeq(@, 1, k)]
          /\ UNCHANGED <<visit, ws, sent, relay, uplink, busy, transmitted, handled>>
          /\ link' = [link EXCEPT ![s] = "cut"]
      BY Zenon, <1>5 DEF StationCut, page
    <3>2. faults' \in 0 .. MaxFaults
      BY <1>1, <1>5, UplinkAssumption DEF StationCut, Fault
    <3>3. QED
      BY <3>1, <3>2
  <2>2. link' \in [Stations -> {"off", "open", "cut"}]
    BY <1>1, <2>1
  <2>3. QED
    BY <1>1, <2>1, <2>2 DEF Works
<1>6. CASE MakeTCData(s)
  <2>1. /\ busy[s] # 0 /\ handled' = [handled EXCEPT ![s] = @ \cup {busy[s]}]
        /\ busy' = [busy EXCEPT ![s] = 0]
        /\ UNCHANGED <<visit, ws, sent, relay, uplink, link, inbox, faults>>
        /\ transmitted' \in {transmitted, [transmitted EXCEPT ![s] = Append(@, busy[s])]}
    BY <1>6 DEF MakeTCData, Finish, page
  <2>2. handled' \in [Stations -> SUBSET Messages] /\ busy'[s] = 0
    BY <1>1, <2>1
  <2>3. \E k \in 0 .. Len(inbox[s]) : inbox' = [inbox EXCEPT ![s] = SubSeq(@, 1, k)]
    BY <1>2, <1>3, <2>1
  <2>4. QED
    BY <1>1, <2>1, <2>2, <2>3 DEF Works
<1>7. QED
  BY <1>4, <1>5, <1>6

-----------------------------------------------------------------------------
(***************************************************************************)
(* The specification.                                                      *)
(***************************************************************************)

LEMMA Start == ASSUME Init PROVE IInv
<1>1. /\ visit = 1 /\ ws = "new" /\ sent = <<>> /\ relay = TRUE /\ faults = 0
      /\ uplink = [v \in Visits |-> <<>>] /\ link = [s \in Stations |-> "off"]
      /\ inbox = [s \in Stations |-> <<>>] /\ busy = [s \in Stations |-> 0]
      /\ transmitted = [s \in Stations |-> <<>>] /\ handled = [s \in Stations |-> {}]
  BY DEF Init
<1>2. visit \in Visits /\ faults \in 0 .. MaxFaults /\ sent \in Seq(Visits) /\ Len(sent) <= MaxSends
  BY <1>1, UplinkAssumption DEF Visits
<1>3. Types
  BY <1>1, <1>2, Empty DEF Types, TypeOK
<1>4. UplinkLine
  BY <1>1, Empty DEF UplinkLine
<1>5. ASSUME NEW s \in Stations PROVE Handling(s) = {} /\ Taken(s) = {} /\ Got(s) = {}
  BY <1>1, Empty DEF Handling, Taken, Got
<1>6. StationLine
  BY <1>1, <1>5, Empty DEF StationLine, Precede
<1>7. QED
  BY <1>3, <1>4, <1>6 DEF IInv

LEMMA NextStep == ASSUME IInv, [Next]_vars PROVE IInv'
<1>1. ASSUME NEW s \in Stations, StationStarts(s) \/ StationStops(s) \/ StationCut(s) \/ Station(s)
      PROVE  IInv'
  BY <1>1, QuietStep, ReceiveStep, AtWork, WorksStep DEF Station
<1>2. CASE UNCHANGED vars
  BY <1>2 DEF vars, page, station, IInv, Types, TypeOK, UplinkLine, StationLine, Taken, Got,
              Handling
<1>3. QED
  BY <1>1, <1>2, QuietStep, SendStep, ForwardStep DEF Next

\* The invariant holds in every reachable state.
THEOREM Invariance == Spec => []IInv
<1>1. Init => IInv
  BY Start
<1>2. IInv /\ [Next]_vars => IInv'
  BY NextStep
<1>3. QED
  BY <1>1, <1>2, PTL DEF Spec

\* The types of the variables.
THEOREM TypeCorrect == Spec => []TypeOK
<1>1. IInv => TypeOK
  BY DEF IInv, Types
<1>2. QED
  BY <1>1, Invariance, PTL

\* The modem is given what the station is handling: a step of CommandFeed.
LEMMA MapsToTransmit ==
    ASSUME IInv, NEW s \in Stations, busy[s] # 0, sent' = sent,
           transmitted' = [transmitted EXCEPT ![s] = Append(@, busy[s])]
    PROVE  Feed!Transmit(s, busy[s])
<1>1. busy[s] \in Handling(s) /\ busy[s] \in Got(s)
  BY DEF Handling, Taken, Got
<1>2. busy[s] \in 1 .. Len(sent)
  BY <1>1 DEF IInv, StationLine
<1>3. ASSUME NEW i \in 1 .. Len(transmitted[s])
      PROVE  /\ transmitted[s][i] # busy[s]
             /\ sent[transmitted[s][i]] = sent[busy[s]] => transmitted[s][i] < busy[s]
  <2>1. transmitted[s][i] \in SetOf(transmitted[s])
    BY DEF SetOf
  <2>2. Below(sent, transmitted[s][i], busy[s])
    BY <1>1, <2>1 DEF IInv, StationLine, Precede
  <2>3. QED
    BY <1>2, <2>2 DEF Below
<1>4. QED
  BY <1>2, <1>3 DEF Feed!Transmit

\* The page, the relay and the ground stations: whatever is stopped, cut or loaded
\* again, no station sends a command to the modem twice, nor two commands of one
\* visit in the other order.
THEOREM Implements == Spec => ImplementsFeed
<1>1. Init => Feed!Init
  BY DEF Init, Feed!Init
<1>2. IInv /\ [Next]_vars => [Feed!Next]_(Feed!vars)
  <2> SUFFICES ASSUME IInv, [Next]_vars, ~UNCHANGED <<sent, transmitted>> PROVE Feed!Next
    BY DEF Feed!vars
  <2>1. CASE PageSends
    <3>1. Feed!Send(visit) /\ visit \in Visits
      BY <2>1 DEF PageSends, station, Feed!Send, IInv, Types, TypeOK
    <3>2. QED
      BY <3>1 DEF Feed!Next
  <2>2. ASSUME NEW s \in Stations,
               StationStops(s) \/ StationCut(s) \/ MakeTCData(s) \/ MakeTCDataThrows(s)
        PROVE  Feed!Next
    <3>1. Works(s)
      BY <2>2, AtWork
    <3>2. busy[s] # 0 /\ sent' = sent /\ transmitted' = [transmitted EXCEPT ![s] = Append(@, busy[s])]
      BY <3>1 DEF Works
    <3>3. Feed!Transmit(s, busy[s]) /\ busy[s] \in 1 .. Len(sent)
      BY <3>2, MapsToTransmit DEF Feed!Transmit
    <3>4. QED
      BY <3>3 DEF Feed!Next
  <2>3. CASE PageConnects \/ PageReloads \/ PageCut \/ RelayStops \/ RelayStarts
               \/ (\E v \in Visits : RelayForwards(v))
               \/ (\E s \in Stations : StationStarts(s) \/ Receive(s))
    BY <2>3 DEF PageConnects, PageReloads, PageCut, RelayStops, RelayStarts, RelayForwards,
                StationStarts, Receive, page, station
  <2>4. CASE UNCHANGED vars
    BY <2>4 DEF vars, page, station
  <2>5. QED
    BY <2>1, <2>2, <2>3, <2>4 DEF Next, Station
<1>3. QED
  BY <1>1, <1>2, Invariance, PTL DEF Spec, ImplementsFeed, Feed!Spec

-----------------------------------------------------------------------------
(***************************************************************************)
(* What follows from that: what CommandFeed ensures of itself.             *)
(***************************************************************************)

FeedTypes ==
    /\ sent \in Seq(Visits)
    /\ transmitted \in [Stations -> Seq(Nat)]
    /\ \A s \in Stations : \A i \in 1 .. Len(transmitted[s]) : transmitted[s][i] \in 1 .. Len(sent)

FeedInv == FeedTypes /\ Feed!OnceInOrder

\* A command that is sent changes nothing of what was transmitted.
LEMMA FeedSends ==
    ASSUME FeedInv, NEW v \in Visits, Feed!Send(v)
    PROVE  FeedInv'
<1>1. /\ sent \in Seq(Visits) /\ sent' = Append(sent, v) /\ transmitted' = transmitted
  BY DEF FeedInv, FeedTypes, Feed!Send
<1>2. /\ sent' \in Seq(Visits) /\ Len(sent) \in Nat /\ Len(sent') = Len(sent) + 1
      /\ \A n \in 1 .. Len(sent) : sent'[n] = sent[n]
  BY <1>1
<1>3. ASSUME NEW s \in Stations, NEW i \in 1 .. Len(transmitted[s])
      PROVE  /\ transmitted[s][i] \in 1 .. Len(sent')
             /\ sent'[transmitted[s][i]] = sent[transmitted[s][i]]
  <2>1. transmitted[s][i] \in 1 .. Len(sent)
    BY DEF FeedInv, FeedTypes
  <2>2. QED
    BY <1>2, <2>1
<1>4. FeedTypes'
  BY <1>1, <1>2, <1>3 DEF FeedInv, FeedTypes
<1>5. Feed!OnceInOrder'
  <2>1. Feed!OnceInOrder
    BY DEF FeedInv
  <2>2. ASSUME NEW s \in Stations,
               NEW i \in 1 .. Len(transmitted'[s]), NEW j \in 1 .. Len(transmitted'[s]), i < j
        PROVE  /\ transmitted'[s][i] # transmitted'[s][j]
               /\ sent'[transmitted'[s][i]] = sent'[transmitted'[s][j]]
                     => transmitted'[s][i] < transmitted'[s][j]
    <3>1. i \in 1 .. Len(transmitted[s]) /\ j \in 1 .. Len(transmitted[s]) /\ transmitted' = transmitted
      BY <1>1, <2>2
    <3>2. /\ sent'[transmitted[s][i]] = sent[transmitted[s][i]]
          /\ sent'[transmitted[s][j]] = sent[transmitted[s][j]]
      BY <1>3, <3>1
    <3>3. /\ transmitted[s][i] # transmitted[s][j]
          /\ sent[transmitted[s][i]] = sent[transmitted[s][j]] => transmitted[s][i] < transmitted[s][j]
      BY <2>1, <2>2, <3>1, Zenon DEF Feed!OnceInOrder
    <3>4. QED
      BY <3>1, <3>2, <3>3, Zenon
  <2>3. QED
    BY <2>2, Zenon DEF Feed!OnceInOrder
<1>6. QED
  BY <1>4, <1>5 DEF FeedInv

\* A command that is transmitted comes after those it may come after.
LEMMA FeedTransmits ==
    ASSUME FeedInv, NEW s \in Stations, NEW n \in 1 .. Len(sent), Feed!Transmit(s, n)
    PROVE  FeedInv'
<1> DEFINE q == transmitted[s]
           r == Append(q, n)
<1>1. /\ sent' = sent /\ Len(sent) \in Nat /\ n \in Nat
      /\ transmitted \in [Stations -> Seq(Nat)] /\ q \in Seq(Nat)
      /\ transmitted' = [transmitted EXCEPT ![s] = r]
      /\ \A i \in 1 .. Len(q) : q[i] # n /\ (sent[q[i]] = sent[n] => q[i] < n)
  BY DEF FeedInv, FeedTypes, Feed!Transmit
<1>2. /\ transmitted' \in [Stations -> Seq(Nat)] /\ transmitted'[s] = r
      /\ \A t \in Stations : t # s => transmitted'[t] = transmitted[t]
  <2>1. r \in Seq(Nat)
    BY <1>1
  <2> HIDE DEF r
  <2>2. QED
    BY <1>1, <2>1
<1>3. /\ Len(q) \in Nat /\ Len(r) = Len(q) + 1 /\ r[Len(q) + 1] = n
      /\ \A i \in 1 .. Len(q) : r[i] = q[i]
  BY <1>1
<1>4. ASSUME NEW t \in Stations
      PROVE  /\ \A i \in 1 .. Len(transmitted'[t]) : transmitted'[t][i] \in 1 .. Len(sent)
             /\ \A i, j \in 1 .. Len(transmitted'[t]) :
                   i < j => /\ transmitted'[t][i] # transmitted'[t][j]
                            /\ sent[transmitted'[t][i]] = sent[transmitted'[t][j]]
                                  => transmitted'[t][i] < transmitted'[t][j]
  <2>1. CASE t # s
    BY <1>2, <2>1 DEF FeedInv, FeedTypes, Feed!OnceInOrder
  <2>2. CASE t = s
    <3>1. /\ \A i \in 1 .. Len(q) : q[i] \in 1 .. Len(sent)
          /\ \A i, j \in 1 .. Len(q) : i < j => q[i] # q[j] /\ (sent[q[i]] = sent[q[j]] => q[i] < q[j])
      BY DEF FeedInv, FeedTypes, Feed!OnceInOrder
    <3> HIDE DEF q, r
    <3>2. \A i \in 1 .. Len(r) : r[i] \in 1 .. Len(sent)
      BY <1>3, <3>1
    <3>3. \A i, j \in 1 .. Len(r) : i < j => r[i] # r[j] /\ (sent[r[i]] = sent[r[j]] => r[i] < r[j])
      <4> SUFFICES ASSUME NEW i \in 1 .. Len(r), NEW j \in 1 .. Len(r), i < j
                   PROVE  r[i] # r[j] /\ (sent[r[i]] = sent[r[j]] => r[i] < r[j])
        OBVIOUS
      <4>1. i \in 1 .. Len(q) /\ (j \in 1 .. Len(q) \/ j = Len(q) + 1)
        BY <1>3
      <4>2. QED
        BY <1>1, <1>3, <3>1, <4>1
    <3>4. QED
      BY <1>2, <2>2, <3>2, <3>3
  <2>3. QED
    BY <2>1, <2>2
<1>5. FeedTypes'
  BY <1>1, <1>2, <1>4 DEF FeedInv, FeedTypes
<1>6. Feed!OnceInOrder'
  <2>1. ASSUME NEW t \in Stations
        PROVE  \A i, j \in 1 .. Len(transmitted'[t]) :
                   i < j => /\ transmitted'[t][i] # transmitted'[t][j]
                            /\ sent'[transmitted'[t][i]] = sent'[transmitted'[t][j]]
                                  => transmitted'[t][i] < transmitted'[t][j]
    <3>1. \A i, j \in 1 .. Len(transmitted'[t]) :
              i < j => /\ transmitted'[t][i] # transmitted'[t][j]
                       /\ sent[transmitted'[t][i]] = sent[transmitted'[t][j]]
                             => transmitted'[t][i] < transmitted'[t][j]
      BY <1>4, Zenon
    <3>2. sent' = sent
      BY <1>1
    <3>3. QED
      BY <3>1, <3>2
  <2>2. QED
    BY <2>1, Zenon DEF Feed!OnceInOrder
<1>7. QED
  BY <1>5, <1>6 DEF FeedInv

LEMMA FeedOrders == Feed!Spec => []Feed!OnceInOrder
<1>1. Feed!Init => FeedInv
  BY DEF Feed!Init, FeedInv, FeedTypes, Feed!OnceInOrder
<1>2. FeedInv /\ [Feed!Next]_(Feed!vars) => FeedInv'
  <2> SUFFICES ASSUME FeedInv, [Feed!Next]_(Feed!vars) PROVE FeedInv'
    OBVIOUS
  <2>1. CASE Feed!Next
    BY <2>1, FeedSends, FeedTransmits DEF Feed!Next
  <2>2. CASE UNCHANGED Feed!vars
    BY <2>2 DEF Feed!vars, FeedInv, FeedTypes, Feed!OnceInOrder
  <2>3. QED
    BY <2>1, <2>2
<1>3. FeedInv => Feed!OnceInOrder
  BY DEF FeedInv
<1>4. QED
  BY <1>1, <1>2, <1>3, PTL DEF Feed!Spec

\* A station gives no command to the modem twice, nor one after a later one of the same
\* visit of the page, whatever stops, breaks or is reloaded.
THEOREM TransmitsOnceInOrder == Spec => []Feed!OnceInOrder
  BY Implements, FeedOrders, PTL DEF ImplementsFeed

-----------------------------------------------------------------------------
(***************************************************************************)
(* The frame a command is made into (TcFrame).                             *)
(*                                                                         *)
(* MakeTCData packs a list of any length, so what it makes is the end of a *)
(* recursion: it is followed by induction over the positions of the list,  *)
(* in the form that a first position at which a fact fails cannot exist.   *)
(***************************************************************************)

\* A set of natural numbers has a least one.
LEMMA LeastNatural ==
    ASSUME NEW T \in SUBSET Nat, T # {}
    PROVE  \E n \in T : \A m \in T : n <= m
<1>1. PICK n \in T : \A m \in T : ~(<<m, n>> \in OpToRel(<, Nat))
  BY WFMin, NatLessThanWellFounded, Zenon
<1>2. \A m \in T : ~(m < n)
  BY <1>1, Zenon DEF OpToRel
<1>3. QED
  BY <1>2

\* Induction over the positions of a list: the least one that is not in T is neither 0
\* nor the next of one that is.
LEMMA Upwards ==
    ASSUME NEW n \in Nat, NEW T, 0 \in T, \A i \in 1 .. n : i - 1 \in T => i \in T
    PROVE  0 .. n \subseteq T
<1> DEFINE Others == {i \in 0 .. n : i \notin T}
<1> SUFFICES ASSUME Others # {} PROVE FALSE
  OBVIOUS
<1>1. PICK i \in Others : \A k \in Others : i <= k
  <2>1. Others \in SUBSET Nat
    OBVIOUS
  <2>2. QED
    BY <2>1, LeastNatural
<1>2. i \in 1 .. n /\ i - 1 \in 0 .. n /\ ~(i <= i - 1)
  OBVIOUS
<1>3. i - 1 \notin Others
  BY <1>1, <1>2
<1>4. QED
  BY <1>2, <1>3

\* f begins with first and applies the steps one after the other.
Chain(n, first, steps, f) ==
    f = [i \in 0 .. n |-> IF i = 0 THEN first ELSE steps[i][f[i - 1]]]

\* A chain can be made one step longer.
LEMMA ChainGrows ==
    ASSUME NEW n \in Nat, n # 0, NEW first, NEW steps, NEW e, Chain(n - 1, first, steps, e)
    PROVE  \E f : Chain(n, first, steps, f)
<1> DEFINE f == [i \in 0 .. n |-> IF i = 0 THEN first ELSE steps[i][e[i - 1]]]
<1>1. ASSUME NEW i \in 0 .. n - 1 PROVE e[i] = f[i]
  <2>1. e[i] = IF i = 0 THEN first ELSE steps[i][e[i - 1]]
    BY SMT DEF Chain
  <2>2. i \in 0 .. n
    OBVIOUS
  <2>3. QED
    BY <2>1, <2>2
<1>2. \A i \in 0 .. n : f[i] = IF i = 0 THEN first ELSE steps[i][e[i - 1]]
  OBVIOUS
<1>3. f = [i \in 0 .. n |-> f[i]]
  OBVIOUS
<1> HIDE DEF f
<1>4. ASSUME NEW i \in 0 .. n
      PROVE  f[i] = IF i = 0 THEN first ELSE steps[i][f[i - 1]]
  <2>1. i # 0 => i - 1 \in 0 .. n - 1
    OBVIOUS
  <2>2. QED
    BY <1>1, <1>2, <2>1
<1>5. f = [i \in 0 .. n |-> IF i = 0 THEN first ELSE steps[i][f[i - 1]]]
  BY <1>3, <1>4
<1>6. Chain(n, first, steps, f)
  BY <1>5 DEF Chain
<1>7. QED
  BY <1>6

\* So there is a chain of every length: the recursion has a solution.
LEMMA ChainExists ==
    ASSUME NEW n \in Nat, NEW first, NEW steps
    PROVE  \E f : Chain(n, first, steps, f)
<1> DEFINE T == {i \in 0 .. n : \E f : Chain(i, first, steps, f)}
<1>1. 0 \in T
  <2>1. Chain(0, first, steps, [i \in 0 .. 0 |-> first])
    BY DEF Chain
  <2>2. QED
    BY <2>1
<1>2. ASSUME NEW i \in 1 .. n, i - 1 \in T PROVE i \in T
  BY <1>2, ChainGrows
<1> HIDE DEF T
<1>3. 0 .. n \subseteq T
  BY <1>1, <1>2, Upwards
<1>4. QED
  BY <1>3 DEF T

\* The values such steps lead through.
Runs(V, n) == [0 .. n -> V]

\* All of f is in V if its first value is and no step leaves V.
LEMMA StaysIn ==
    ASSUME NEW n \in Nat, NEW V, NEW f, f = [i \in 0 .. n |-> f[i]],
           f[0] \in V, \A i \in 1 .. n : f[i - 1] \in V => f[i] \in V
    PROVE  f \in Runs(V, n)
<1> DEFINE T == {i \in 0 .. n : f[i] \in V}
<1>1. 0 \in T
  OBVIOUS
<1>2. ASSUME NEW i \in 1 .. n, i - 1 \in T PROVE i \in T
  BY <1>2
<1> HIDE DEF T
<1>3. 0 .. n \subseteq T
  BY <1>1, <1>2, Upwards
<1>4. \A i \in 0 .. n : f[i] \in V
  BY <1>3 DEF T
<1>5. QED
  BY <1>4 DEF Runs

\* One step on V for each position of a list.
StepsOn(V, n) == [1 .. n -> [V -> V]]

\* And one that stays in V if every step does.
LEMMA ChainIn ==
    ASSUME NEW n \in Nat, NEW V, NEW first \in V, NEW steps \in StepsOn(V, n)
    PROVE  \E f \in Runs(V, n) :
              f[0] = first /\ \A i \in 1 .. n : f[i] = steps[i][f[i - 1]]
<1>1. PICK f : Chain(n, first, steps, f)
  BY ChainExists
<1>2. /\ f = [i \in 0 .. n |-> f[i]]
      /\ \A i \in 0 .. n : f[i] = IF i = 0 THEN first ELSE steps[i][f[i - 1]]
  BY <1>1 DEF Chain
<1>3. f[0] = first
  BY <1>2
<1>4. ASSUME NEW i \in 1 .. n PROVE f[i] = steps[i][f[i - 1]]
  <2>1. i \in 0 .. n /\ i # 0
    OBVIOUS
  <2>2. QED
    BY <1>2, <2>1
<1>5. ASSUME NEW i \in 1 .. n, f[i - 1] \in V PROVE f[i] \in V
  BY <1>4, <1>5 DEF StepsOn
<1>6. f \in Runs(V, n)
  BY <1>2, <1>3, <1>5, StaysIn
<1>7. QED
  BY <1>3, <1>4, <1>6

-----------------------------------------------------------------------------
Low(n)  == n % 256
High(n) == (n \div 256) % 256

\* The bytes of LittleEndian.
LEMMA LowHigh ==
    ASSUME NEW n \in Int
    PROVE  /\ Low(n) \in Bytes /\ High(n) \in Bytes
           /\ LittleEndian(n, 1) = <<Low(n)>>
           /\ LittleEndian(n, 2) = <<Low(n), High(n)>>
<1>1. LittleEndian(n, 1) = <<n % 256>>
  BY DEF LittleEndian, Weight
<1>2. LittleEndian(n, 2) = <<n % 256, (n \div 256) % 256>>
  BY DEF LittleEndian, Weight
<1>3. n % 256 \in Bytes /\ (n \div 256) % 256 \in Bytes
  BY DEF Bytes
<1>4. QED
  BY <1>1, <1>2, <1>3, Zenon DEF Low, High

LEMMA BytesOf ==
    ASSUME NEW n \in Int
    PROVE  /\ LittleEndian(n, 1) \in Seq(Bytes) /\ Len(LittleEndian(n, 1)) = 1
           /\ LittleEndian(n, 2) \in Seq(Bytes) /\ Len(LittleEndian(n, 2)) = 2
<1>1. \A x, y \in Bytes : /\ <<x>> \in Seq(Bytes) /\ Len(<<x>>) = 1
                          /\ <<x, y>> \in Seq(Bytes) /\ Len(<<x, y>>) = 2
  OBVIOUS
<1>2. QED
  BY <1>1, LowHigh, Zenon

LEMMA ReadsU8 ==
    ASSUME NEW n \in Int, 0 <= n, n <= 255
    PROVE  Low(n) = n
  BY DEF Low

LEMMA ReadsU16 ==
    ASSUME NEW n \in Int, 0 <= n, n < Word
    PROVE  Low(n) + 256 * High(n) = n
  BY DEF Low, High, Word

LEMMA ReadsS8 ==
    ASSUME NEW n \in Int, -128 <= n, n <= 127
    PROVE  Low(n) = n + IF n < 0 THEN 256 ELSE 0
  BY DEF Low

LEMMA ReadsS16 ==
    ASSUME NEW n \in Int, -32768 <= n, n <= 32767
    PROVE  Low(n) + 256 * High(n) = n + IF n < 0 THEN Word ELSE 0
<1>1. CASE n < 0
  BY <1>1 DEF Low, High, Word
<1>2. CASE n >= 0
  BY <1>2 DEF Low, High, Word
<1>3. QED
  BY <1>1, <1>2

LEMMA IntegerTypes ==
    /\ DOMAIN IntTypes = {"u8", "u16", "s8", "s16"}
    /\ IntTypes["u8"].bytes = 1 /\ IntTypes["u8"].least = 0 /\ IntTypes["u8"].greatest = 255
    /\ IntTypes["u16"].bytes = 2 /\ IntTypes["u16"].least = 0
    /\ IntTypes["u16"].greatest = Word - 1
    /\ IntTypes["s8"].bytes = 1 /\ IntTypes["s8"].least = -128 /\ IntTypes["s8"].greatest = 127
    /\ IntTypes["s16"].bytes = 2 /\ IntTypes["s16"].least = -32768
    /\ IntTypes["s16"].greatest = 32767
  BY DEF IntTypes, Word

\* What is packed of a number that its type can hold.
LEMMA PacksInteger ==
    ASSUME NEW p \in Params, PackOne(p) # Refused, p.type \in DOMAIN IntTypes
    PROVE  /\ Number(p) \in Int
           /\ IntTypes[p.type].least <= Number(p) /\ Number(p) <= IntTypes[p.type].greatest
           /\ PackOne(p) = LittleEndian(Number(p), IntTypes[p.type].bytes)
<1>1. /\ Number(p) \in IntTypes[p.type].least .. IntTypes[p.type].greatest
      /\ PackOne(p) = LittleEndian(Number(p), IntTypes[p.type].bytes)
  BY IntegerTypes DEF PackOne
<1>2. IntTypes[p.type].least \in Int /\ IntTypes[p.type].greatest \in Int
  BY IntegerTypes DEF Word
<1> DEFINE l == IntTypes[p.type].least
           g == IntTypes[p.type].greatest
<1>3. Number(p) \in l .. g /\ l \in Int /\ g \in Int
  BY <1>1, <1>2
<1> HIDE DEF l, g
<1>4. Number(p) \in Int /\ l <= Number(p) /\ Number(p) <= g
  BY <1>3
<1>5. QED
  BY <1>1, <1>4 DEF l, g

\* As Reads, of what the reader of the type has made of the value.
ReadsNumber(p, bytes) ==
    LET n == Number(p) IN
    CASE p.type \in {"u8", "u16"} -> ReadNumber(bytes) = n
      [] p.type = "s8"   -> ReadNumber(bytes) = n + IF n < 0 THEN 256 ELSE 0
      [] p.type = "s16"  -> ReadNumber(bytes) = n + IF n < 0 THEN Word ELSE 0
      [] p.type = "bool" -> (bytes = <<0>>) = (n = 0)
      [] p.type = "str"  -> \A i \in 1 .. Len(bytes) :
                               bytes[i] = IF i <= Len(p.text) THEN p.text[i] ELSE 0

\* What is made of a parameter that can be packed: as many bytes as its type says,
\* which read as its number.
PacksWell(p) ==
    /\ PackOne(p) \in Seq(Bytes)
    /\ Width(p) \in Nat
    /\ Len(PackOne(p)) = Width(p)
    /\ ReadsNumber(p, PackOne(p))

\* The bytes of a number, and what they read as.
LEMMA NumberReads ==
    ASSUME NEW n \in Int
    PROVE  /\ ReadNumber(LittleEndian(n, 1)) = Low(n)
           /\ ReadNumber(LittleEndian(n, 2)) = Low(n) + 256 * High(n)
<1> DEFINE x == Low(n)
           y == High(n)
<1>1. LittleEndian(n, 1) = <<x>> /\ LittleEndian(n, 2) = <<x, y>>
  BY LowHigh
<1> HIDE DEF x, y
<1>2. ReadNumber(LittleEndian(n, 1)) = x /\ ReadNumber(LittleEndian(n, 2)) = x + 256 * y
  BY <1>1 DEF ReadNumber
<1>3. QED
  BY <1>2 DEF x, y

LEMMA PacksInt ==
    ASSUME NEW p \in Params, PackOne(p) # Refused, p.type \in DOMAIN IntTypes
    PROVE  PacksWell(p)
<1> DEFINE n == Number(p)
<1>1. n \in Int
  BY PacksInteger
<1>2. CASE p.type = "u8"
  <2>1. PackOne(p) = LittleEndian(n, 1) /\ 0 <= n /\ n <= 255
    BY <1>2, PacksInteger, IntegerTypes
  <2>2. ReadNumber(PackOne(p)) = n
    BY <1>1, <2>1, ReadsU8, NumberReads
  <2>3. Width(p) = 1 /\ ReadsNumber(p, PackOne(p))
    BY <1>2, <2>2 DEF Width, ReadsNumber
  <2>4. QED
    BY <1>1, <2>1, <2>3, BytesOf DEF PacksWell
<1>3. CASE p.type = "u16"
  <2>1. PackOne(p) = LittleEndian(n, 2) /\ 0 <= n /\ n <= Word - 1
    BY <1>3, PacksInteger, IntegerTypes
  <2>2. n < Word
    BY <1>1, <2>1 DEF Word
  <2>3. ReadNumber(PackOne(p)) = n
    BY <1>1, <2>1, <2>2, ReadsU16, NumberReads
  <2>4. Width(p) = 2 /\ ReadsNumber(p, PackOne(p))
    BY <1>3, <2>3 DEF Width, ReadsNumber
  <2>5. QED
    BY <1>1, <2>1, <2>4, BytesOf DEF PacksWell
<1>4. CASE p.type = "s8"
  <2>1. PackOne(p) = LittleEndian(n, 1) /\ -128 <= n /\ n <= 127
    BY <1>4, PacksInteger, IntegerTypes
  <2>2. ReadNumber(PackOne(p)) = n + IF n < 0 THEN 256 ELSE 0
    BY <1>1, <2>1, ReadsS8, NumberReads
  <2>3. Width(p) = 1 /\ ReadsNumber(p, PackOne(p))
    BY <1>4, <2>2 DEF Width, ReadsNumber
  <2>4. QED
    BY <1>1, <2>1, <2>3, BytesOf DEF PacksWell
<1>5. CASE p.type = "s16"
  <2>1. PackOne(p) = LittleEndian(n, 2)
    BY <1>5, PacksInteger, IntegerTypes
  <2>2. -32768 <= n /\ n <= 32767
    BY <1>5, PacksInteger, IntegerTypes
  <2>3. ReadNumber(PackOne(p)) = n + IF n < 0 THEN Word ELSE 0
    BY <1>1, <2>1, <2>2, ReadsS16, NumberReads
  <2>4. Width(p) = 2 /\ ReadsNumber(p, PackOne(p))
    BY <1>5, <2>3 DEF Width, ReadsNumber
  <2>5. QED
    BY <1>1, <2>1, <2>4, BytesOf DEF PacksWell
<1>6. QED
  BY <1>2, <1>3, <1>4, <1>5, IntegerTypes

LEMMA PacksBool ==
    ASSUME NEW p \in Params, PackOne(p) # Refused, p.type = "bool"
    PROVE  PacksWell(p)
<1>1. PackOne(p) = IF Number(p) = 0 THEN <<0>> ELSE <<1>>
  BY IntegerTypes DEF PackOne
<1>2. Width(p) = 1 /\ (ReadsNumber(p, PackOne(p)) <=> ((PackOne(p) = <<0>>) = (Number(p) = 0)))
  BY DEF Width, ReadsNumber
<1>3. <<0>> \in Seq(Bytes) /\ <<1>> \in Seq(Bytes)
  BY DEF Bytes
<1>4. <<0>> # <<1>> /\ Len(<<0>>) = 1 /\ Len(<<1>>) = 1
  OBVIOUS
<1>5. CASE Number(p) = 0
  <2>1. PackOne(p) = <<0>>
    BY <1>1, <1>5
  <2>2. QED
    BY <1>2, <1>3, <1>4, <1>5, <2>1 DEF PacksWell
<1>6. CASE Number(p) # 0
  <2>1. PackOne(p) = <<1>>
    BY <1>1, <1>6
  <2>2. QED
    BY <1>2, <1>3, <1>4, <1>6, <2>1 DEF PacksWell
<1>7. QED
  BY <1>5, <1>6

LEMMA PacksStr ==
    ASSUME NEW p \in Params, PackOne(p) # Refused, p.type = "str"
    PROVE  PacksWell(p)
<1> DEFINE t == p.text
           n == p.size
           s == [i \in 1 .. n |-> IF i <= Len(t) THEN t[i] ELSE 0]
<1>1. n \in Int /\ t \in Seq(Bytes) /\ 0 \in Bytes
  BY DEF Params, Bytes
<1>2. n > 0 /\ Len(t) <= n /\ PackOne(p) = s
  BY IntegerTypes DEF PackOne
<1>3. /\ Width(p) = n
      /\ ReadsNumber(p, PackOne(p)) <=> \A i \in 1 .. Len(PackOne(p)) :
              PackOne(p)[i] = IF i <= Len(t) THEN t[i] ELSE 0
  BY DEF Width, ReadsNumber
<1> HIDE DEF t, n
<1>4. s \in Seq(Bytes) /\ Len(s) = n
  BY <1>1, <1>2
<1>5. \A i \in 1 .. Len(s) : s[i] = IF i <= Len(t) THEN t[i] ELSE 0
  BY <1>4
<1> HIDE DEF s
<1>6. QED
  BY <1>1, <1>2, <1>3, <1>4, <1>5 DEF PacksWell

\* Whatever the type, a parameter that is packed is packed into its width and reads back.
LEMMA PacksAll ==
    ASSUME NEW p \in Params, PackOne(p) # Refused
    PROVE  PacksWell(p)
<1>1. p.type \in DOMAIN IntTypes \/ p.type = "bool" \/ p.type = "str"
  BY DEF PackOne
<1>2. QED
  BY <1>1, PacksInt, PacksBool, PacksStr

\* What a reader makes of a value is the value without its fraction, unless it is a text
\* below zero.
LEMMA GivenNumber ==
    ASSUME NEW p \in Params, Number(p) # NaN
    PROVE  /\ Whole(p) \in Int
           /\ p.type \in {"u8", "u16"} =>
                 \/ Number(p) = Whole(p)
                 \/ p.form = "numeral" /\ Whole(p) < 0 /\ Number(p) = Whole(p) + ULong
           /\ p.type \in {"s8", "s16"} => Number(p) = Whole(p)
           /\ p.type = "bool" => (Number(p) = 0 <=> Whole(p) = 0)
<1> DEFINE w == Whole(p)
<1>1. w \in Int
  BY DEF Whole, Params
<1> HIDE DEF w
<1>2. ULong \in Nat
  BY TcAssumption
<1>3. ASSUME ToU64(p) # NaN
      PROVE  \/ ToU64(p) = w
             \/ p.form = "numeral" /\ w < 0 /\ w > -ULong /\ ToU64(p) = w + ULong
  <2>1. CASE p.form \in {"integer", "real"}
    BY <1>3, <2>1 DEF ToU64, w
  <2>2. CASE p.form = "numeral" /\ w \in 0 .. ULong - 1
    BY <2>2 DEF ToU64, w
  <2>3. CASE p.form = "numeral" /\ w \in -(ULong - 1) .. -1
    <3>1. w < 0 /\ w > -ULong
      BY <1>1, <1>2, <2>3
    <3>2. ~(w \in 0 .. ULong - 1)
      BY <1>2, <3>1
    <3>3. ToU64(p) = w + ULong
      BY <2>3, <3>2 DEF ToU64, w
    <3>4. QED
      BY <2>3, <3>1, <3>3
  <2>4. QED
    BY <1>3, <2>1, <2>2, <2>3 DEF ToU64, w
<1>4. CASE p.type \in {"u8", "u16"}
  BY <1>1, <1>3, <1>4 DEF Number, w
<1>5. CASE p.type \in {"s8", "s16"}
  BY <1>1, <1>5 DEF Number, ToI64, w
<1>6. CASE p.type = "bool"
  <2>1. Number(p) = ToBool1(p)
    BY <1>6 DEF Number
  <2>2. CASE p.form = "numeral"
    <3>1. Number(p) = ToU64(p)
      BY <2>1, <2>2 DEF ToBool1
    <3>2. QED
      BY <1>1, <1>2, <1>3, <1>6, <3>1 DEF w
  <2>3. CASE p.form # "numeral"
    BY <1>1, <1>6, <2>1, <2>3 DEF ToBool1, w
  <2>4. QED
    BY <2>2, <2>3
<1>7. QED
  BY <1>1, <1>4, <1>5, <1>6 DEF w

\* So what is packed reads as the value that was given.
LEMMA ReadsGiven ==
    ASSUME NEW p \in Params, PackOne(p) # Refused
    PROVE  Reads(p, PackOne(p))
<1> DEFINE b == PackOne(p)
<1>1. ReadsNumber(p, b)
  BY PacksAll DEF PacksWell
<1>2. NaN \notin Int /\ ULong \in Nat
  BY TcAssumption
<1>3. CASE p.type \in {"u8", "u16"}
  <2>1. p.type \in DOMAIN IntTypes
    BY <1>3, IntegerTypes
  <2>2. Number(p) \in Int /\ Number(p) <= Word - 1
    <3>1. /\ Number(p) \in Int /\ Number(p) <= IntTypes[p.type].greatest
      BY <2>1, PacksInteger
    <3>2. QED
      BY <1>3, <3>1, IntegerTypes DEF Word
  <2>3. ReadNumber(b) = Number(p)
    BY <1>1, <1>3 DEF ReadsNumber
  <2> HIDE DEF b
  <2>4. \/ ReadNumber(b) = Whole(p)
        \/ /\ p.form = "numeral" /\ Whole(p) < Word - ULong
           /\ ReadNumber(b) = Whole(p) + ULong
    BY <1>2, <1>3, <2>2, <2>3, GivenNumber DEF Word
  <2>5. Reads(p, b)
    BY <1>3, <2>4 DEF Reads
  <2>6. QED
    BY <2>5 DEF b
<1>4. CASE p.type \in {"s8", "s16"}
  <2>1. p.type \in DOMAIN IntTypes
    BY <1>4, IntegerTypes
  <2>2. Number(p) = Whole(p)
    BY <1>2, <1>4, <2>1, PacksInteger, GivenNumber
  <2> HIDE DEF b
  <2>3. Reads(p, b)
    BY <1>1, <1>4, <2>2 DEF ReadsNumber, Reads
  <2>4. QED
    BY <2>3 DEF b
<1>5. CASE p.type = "bool"
  <2>1. Number(p) # NaN
    BY <1>5, IntegerTypes DEF PackOne
  <2>2. (Number(p) = 0) = (Whole(p) = 0)
    BY <1>5, <2>1, GivenNumber
  <2> HIDE DEF b
  <2>3. Reads(p, b)
    BY <1>1, <1>5, <2>2 DEF ReadsNumber, Reads
  <2>4. QED
    BY <2>3 DEF b
<1>6. CASE p.type = "str"
  <2> HIDE DEF b
  <2>1. Reads(p, b)
    BY <1>1, <1>6 DEF ReadsNumber, Reads
  <2>2. QED
    BY <2>1 DEF b
<1>7. QED
  BY <1>3, <1>4, <1>5, <1>6, IntegerTypes DEF PackOne

\* The parameters can all be packed.
Packing(params) == params \in Seq(Params) /\ Packs(params)

LEMMA PacksEach ==
    ASSUME NEW params, Packing(params), NEW i \in 1 .. Len(params)
    PROVE  PacksWell(params[i])
  BY PacksAll DEF Packing, Packs

\* PayloadAfter is what its recursion says: a chain of appends.
LEMMA PayloadIs ==
    ASSUME NEW params, Packing(params)
    PROVE  LET n == Len(params)
               f == PayloadAfter(params)
           IN  /\ f \in [0 .. n -> Seq(Bytes)]
               /\ f[0] = <<>>
               /\ \A i \in 1 .. n : f[i] = f[i - 1] \o PackOne(params[i])
<1> DEFINE n == Len(params)
           Good(g) == g = [i \in 0 .. n |-> IF i = 0 THEN <<>> ELSE g[i - 1] \o PackOne(params[i])]
           steps == [i \in 1 .. n |-> [s \in Seq(Bytes) |-> s \o PackOne(params[i])]]
<1>1. n \in Nat /\ <<>> \in Seq(Bytes)
  BY DEF Packing
<1>2. \A i \in 1 .. n : PackOne(params[i]) \in Seq(Bytes)
  BY PacksEach DEF PacksWell
<1>3. \A s \in Seq(Bytes), i \in 1 .. n : s \o PackOne(params[i]) \in Seq(Bytes)
  BY <1>2
<1> HIDE DEF n
<1>4. steps \in [1 .. n -> [Seq(Bytes) -> Seq(Bytes)]]
  BY <1>3
<1>5. \A i \in 1 .. n, s \in Seq(Bytes) : steps[i][s] = s \o PackOne(params[i])
  OBVIOUS
<1> HIDE DEF steps
<1>6. PICK e \in Runs(Seq(Bytes), n) :
          e[0] = <<>> /\ \A i \in 1 .. n : e[i] = steps[i][e[i - 1]]
  <2> DEFINE V == Seq(Bytes)
             z == <<>>
  <2>1. z \in V /\ steps \in StepsOn(V, n)
    BY <1>1, <1>4 DEF StepsOn
  <2> HIDE DEF V, z
  <2>2. \E e \in Runs(V, n) : e[0] = z /\ \A i \in 1 .. n : e[i] = steps[i][e[i - 1]]
    BY <1>1, <2>1, ChainIn
  <2>3. QED
    BY <2>2 DEF V, z
<1>7. ASSUME NEW i \in 0 .. n PROVE e[i] = IF i = 0 THEN <<>> ELSE e[i - 1] \o PackOne(params[i])
  <2>1. CASE i = 0
    BY <1>6, <2>1
  <2>2. CASE i # 0
    <3>1. i \in 1 .. n /\ i - 1 \in 0 .. n
      BY <1>1, <2>2
    <3>2. QED
      BY <1>5, <1>6, <2>2, <3>1 DEF Runs
  <2>3. QED
    BY <2>1, <2>2
<1>8. Good(e)
  BY <1>6, <1>7, Zenon DEF Runs
<1> DEFINE f == PayloadAfter(params)
<1>9. Good(f)
  BY <1>8, Zenon DEF PayloadAfter, n
<1> HIDE DEF f
<1>10. \A i \in 0 .. n : f[i] = IF i = 0 THEN <<>> ELSE f[i - 1] \o PackOne(params[i])
  BY <1>9
<1>11. f = [i \in 0 .. n |-> f[i]]
  BY <1>9
<1> HIDE DEF Good
<1>12. f[0] = <<>>
  BY <1>1, <1>10
<1>13. ASSUME NEW i \in 1 .. n PROVE f[i] = f[i - 1] \o PackOne(params[i])
  <2>1. i \in 0 .. n /\ i # 0
    BY <1>1
  <2>2. QED
    BY <1>10, <2>1
<1>14. \A i \in 1 .. n : f[i - 1] \in Seq(Bytes) => f[i] \in Seq(Bytes)
  BY <1>3, <1>13
<1>15. f \in Runs(Seq(Bytes), n)
  BY <1>1, <1>11, <1>12, <1>14, StaysIn
<1>16. QED
  BY <1>12, <1>13, <1>15 DEF f, n, Runs

\* And Ends is a chain of sums.
LEMMA EndsIs ==
    ASSUME NEW params, Packing(params)
    PROVE  LET n == Len(params)
               f == Ends(params)
           IN  /\ f \in [0 .. n -> Nat]
               /\ f[0] = 12
               /\ \A i \in 1 .. n : f[i] = f[i - 1] + Width(params[i])
<1> DEFINE n == Len(params)
           Good(g) == g = [i \in 0 .. n |-> IF i = 0 THEN 12 ELSE g[i - 1] + Width(params[i])]
           steps == [i \in 1 .. n |-> [k \in Nat |-> k + Width(params[i])]]
<1>1. n \in Nat /\ 12 \in Nat
  BY DEF Packing
<1>2. \A i \in 1 .. n : Width(params[i]) \in Nat
  BY PacksEach DEF PacksWell
<1>3. \A k \in Nat, i \in 1 .. n : k + Width(params[i]) \in Nat
  BY <1>2
<1> HIDE DEF n
<1>4. steps \in [1 .. n -> [Nat -> Nat]]
  BY <1>3
<1>5. \A i \in 1 .. n, k \in Nat : steps[i][k] = k + Width(params[i])
  OBVIOUS
<1> HIDE DEF steps
<1>6. PICK e \in Runs(Nat, n) :
          e[0] = 12 /\ \A i \in 1 .. n : e[i] = steps[i][e[i - 1]]
  <2> DEFINE V == Nat
             z == 12
  <2>1. z \in V /\ steps \in StepsOn(V, n)
    BY <1>1, <1>4 DEF StepsOn
  <2> HIDE DEF V, z
  <2>2. \E e \in Runs(V, n) : e[0] = z /\ \A i \in 1 .. n : e[i] = steps[i][e[i - 1]]
    BY <1>1, <2>1, ChainIn
  <2>3. QED
    BY <2>2 DEF V, z
<1>7. ASSUME NEW i \in 0 .. n PROVE e[i] = IF i = 0 THEN 12 ELSE e[i - 1] + Width(params[i])
  <2>1. CASE i = 0
    BY <1>6, <2>1
  <2>2. CASE i # 0
    <3>1. i \in 1 .. n /\ i - 1 \in 0 .. n
      BY <1>1, <2>2
    <3>2. QED
      BY <1>5, <1>6, <2>2, <3>1 DEF Runs
  <2>3. QED
    BY <2>1, <2>2
<1>8. Good(e)
  BY <1>6, <1>7, Zenon DEF Runs
<1> DEFINE f == Ends(params)
<1>9. Good(f)
  BY <1>8, Zenon DEF Ends, n
<1> HIDE DEF f
<1>10. \A i \in 0 .. n : f[i] = IF i = 0 THEN 12 ELSE f[i - 1] + Width(params[i])
  BY <1>9
<1>11. f = [i \in 0 .. n |-> f[i]]
  BY <1>9
<1> HIDE DEF Good
<1>12. f[0] = 12
  BY <1>1, <1>10
<1>13. ASSUME NEW i \in 1 .. n PROVE f[i] = f[i - 1] + Width(params[i])
  <2>1. i \in 0 .. n /\ i # 0
    BY <1>1
  <2>2. QED
    BY <1>10, <2>1
<1>14. \A i \in 1 .. n : f[i - 1] \in Nat => f[i] \in Nat
  BY <1>3, <1>13
<1>15. f \in Runs(Nat, n)
  BY <1>1, <1>11, <1>12, <1>14, StaysIn
<1>16. QED
  BY <1>12, <1>13, <1>15 DEF f, n, Runs

-----------------------------------------------------------------------------
\* Two strings of bytes, one behind the other.
LEMMA Joined ==
    ASSUME NEW a \in Seq(Bytes), NEW b \in Seq(Bytes)
    PROVE  /\ a \o b \in Seq(Bytes) /\ Len(a \o b) = Len(a) + Len(b)
           /\ \A k \in 1 .. Len(a) : (a \o b)[k] = a[k]
           /\ \A k \in 1 .. Len(b) : (a \o b)[Len(a) + k] = b[k]
  OBVIOUS

\* Without the first the second is left.
LEMMA Dropped ==
    ASSUME NEW a \in Seq(Bytes), NEW b \in Seq(Bytes)
    PROVE  SubSeq(a \o b, Len(a) + 1, Len(a \o b)) = b
<1> DEFINE q == a \o b
           s == SubSeq(q, Len(a) + 1, Len(q))
<1>1. /\ q \in Seq(Bytes) /\ Len(q) = Len(a) + Len(b) /\ Len(a) \in Nat /\ Len(b) \in Nat
      /\ \A k \in 1 .. Len(b) : q[Len(a) + k] = b[k]
  BY Joined
<1> HIDE DEF q
<1>2. /\ s \in Seq(Bytes) /\ Len(s) = Len(b)
      /\ \A k \in 1 .. Len(b) : s[k] = q[Len(a) + k]
  BY <1>1
<1> HIDE DEF s
<1>3. \A k \in 1 .. Len(b) : s[k] = b[k]
  BY <1>1, <1>2
<1>4. s = b
  BY <1>2, <1>3
<1>5. QED
  BY <1>4 DEF s, q

\* Where parameter j is among the bytes of q, which start after the twelfth.
Placed(params, q, j) ==
    \A k \in 1 .. Width(params[j]) : q[Ends(params)[j - 1] - 12 + k] = PackOne(params[j])[k]

\* What is packed next moves no parameter that is there.
LEMMA PlacedStays ==
    ASSUME NEW params, Packing(params), NEW q \in Seq(Bytes), NEW r \in Seq(Bytes),
           NEW j \in 1 .. Len(params), Ends(params)[j] <= Len(q) + 12,
           Ends(params)[j - 1] >= 12, Placed(params, q, j)
    PROVE  Placed(params, q \o r, j)
<1> DEFINE w == Width(params[j])
           from == Ends(params)[j - 1]
<1>1. /\ w \in Nat /\ from \in Nat /\ Len(q) \in Nat
      /\ from + w <= Len(q) + 12 /\ from >= 12
  <2>1. j \in 1 .. Len(params) /\ j - 1 \in 0 .. Len(params) /\ Len(params) \in Nat
    BY DEF Packing
  <2>2. Ends(params)[j] = from + w
    BY EndsIs
  <2>3. w \in Nat /\ from \in Nat
    BY <2>1, EndsIs, PacksEach DEF PacksWell
  <2>4. QED
    BY <2>2, <2>3
<1> HIDE DEF w, from
<1>2. ASSUME NEW k \in 1 .. w PROVE from - 12 + k \in 1 .. Len(q)
  BY <1>1
<1>3. ASSUME NEW k \in 1 .. w PROVE (q \o r)[from - 12 + k] = q[from - 12 + k]
  BY <1>2, Joined
<1>4. QED
  BY <1>3 DEF Placed, w, from

\* The end of a parameter is where the payload ends once it is packed, and it is found
\* there ever after.
LEMMA Layout ==
    ASSUME NEW params, Packing(params)
    PROVE  \A i \in 0 .. Len(params) :
              /\ Len(PayloadAfter(params)[i]) + 12 = Ends(params)[i]
              /\ \A j \in 1 .. i : /\ 12 <= Ends(params)[j - 1] /\ Ends(params)[j] <= Ends(params)[i]
                                   /\ Placed(params, PayloadAfter(params)[i], j)
<1> DEFINE n == Len(params)
           P == PayloadAfter(params)
           E == Ends(params)
           Here(i) == Len(P[i]) + 12 = E[i]
           Kept(i, j) == 12 <= E[j - 1] /\ E[j] <= E[i] /\ Placed(params, P[i], j)
           T == {i \in 0 .. n : Here(i) /\ \A j \in 1 .. i : Kept(i, j)}
<1>1. /\ n \in Nat
      /\ P[0] = <<>> /\ E[0] = 12
      /\ \A i \in 0 .. n : P[i] \in Seq(Bytes) /\ E[i] \in Nat
      /\ \A i \in 1 .. n : P[i] = P[i - 1] \o PackOne(params[i])
      /\ \A i \in 1 .. n : E[i] = E[i - 1] + Width(params[i])
  <2>1. n \in Nat
    BY DEF Packing
  <2>2. P \in [0 .. n -> Seq(Bytes)] /\ E \in [0 .. n -> Nat]
    BY PayloadIs, EndsIs
  <2>3. QED
    BY <2>1, <2>2, PayloadIs, EndsIs
<1>2. ASSUME NEW i \in 1 .. n
      PROVE  /\ PackOne(params[i]) \in Seq(Bytes) /\ Width(params[i]) \in Nat
             /\ Len(PackOne(params[i])) = Width(params[i])
  BY PacksEach DEF PacksWell
<1> HIDE DEF n, P, E
<1>3. 0 \in T
  BY <1>1
<1>4. ASSUME NEW i \in 1 .. n, i - 1 \in T PROVE i \in T
  <2> DEFINE q == P[i - 1]
             r == PackOne(params[i])
  <2>1. i - 1 \in 0 .. n /\ i \in 0 .. n
    BY <1>1
  <2>2. Len(q) + 12 = E[i - 1] /\ \A j \in 1 .. i - 1 : Kept(i - 1, j)
    BY <1>4
  <2>3. q \in Seq(Bytes) /\ E[i - 1] \in Nat /\ E[i] \in Nat
    BY <1>1, <2>1
  <2>4. r \in Seq(Bytes) /\ Width(params[i]) \in Nat /\ Len(r) = Width(params[i])
    BY <1>2
  <2>5. P[i] = q \o r /\ E[i] = E[i - 1] + Width(params[i])
    BY <1>1
  <2> HIDE DEF q, r
  <2>6. Len(q) \in Nat /\ Len(q \o r) = Len(q) + Len(r)
    BY <2>3, <2>4
  <2>7. Here(i)
    BY <2>2, <2>3, <2>4, <2>5, <2>6
  <2>8. ASSUME NEW j \in 1 .. i - 1 PROVE Kept(i, j)
    <3>1. 12 <= E[j - 1] /\ E[j] <= E[i - 1] /\ Placed(params, q, j)
      BY <2>2 DEF q
    <3>2. j \in 1 .. n /\ E[j] \in Nat
      BY <1>1, <2>1
    <3>3. E[j] <= Len(q) + 12 /\ E[j] <= E[i]
      BY <2>2, <2>3, <2>4, <2>5, <3>1, <3>2
    <3>4. Placed(params, q \o r, j)
      BY <2>3, <2>4, <3>1, <3>2, <3>3, PlacedStays DEF n, E
    <3>5. QED
      BY <2>5, <3>1, <3>3, <3>4
  <2>9. Kept(i, i)
    <3>1. ASSUME NEW k \in 1 .. Width(params[i]) PROVE P[i][E[i - 1] - 12 + k] = r[k]
      <4>1. k \in 1 .. Len(r)
        BY <2>4
      <4>2. E[i - 1] - 12 = Len(q)
        BY <2>2, <2>3, <2>6
      <4>3. (q \o r)[Len(q) + k] = r[k]
        BY <2>3, <2>4, <4>1, Joined
      <4>4. QED
        BY <2>5, <4>2, <4>3
    <3>2. Placed(params, P[i], i)
      BY <3>1 DEF Placed, E, r
    <3>3. 12 <= E[i - 1] /\ E[i] <= E[i]
      BY <2>2, <2>3, <2>6
    <3>4. QED
      BY <3>2, <3>3
  <2>10. \A j \in 1 .. i : j \in 1 .. i - 1 \/ j = i
    BY <2>1
  <2> HIDE DEF Kept, Here
  <2>11. QED
    BY <2>1, <2>7, <2>8, <2>9, <2>10
<1> HIDE DEF T
<1>5. 0 .. n \subseteq T
  BY <1>1, <1>3, <1>4, Upwards
<1>6. QED
  BY <1>5 DEF T, n, P, E

-----------------------------------------------------------------------------
Weights == {1, 2, 4, 8, 16, 32, 64, 128}

Having(bytes, weight) == {i \in 1 .. Len(bytes) : HasBit(bytes[i], weight)}

\* A parity is a bit.
LEMMA ParityIs ==
    ASSUME NEW bytes \in Seq(Bytes), NEW w
    PROVE  /\ IsFiniteSet(Having(bytes, w)) /\ Cardinality(Having(bytes, w)) \in Nat
           /\ Parity(bytes, w) = (1 + Cardinality(Having(bytes, w))) % 2
           /\ Parity(bytes, w) \in {0, 1}
<1>1. Having(bytes, w) \subseteq 1 .. Len(bytes) /\ Len(bytes) \in Nat
  BY DEF Having
<1>2. IsFiniteSet(1 .. Len(bytes))
  BY <1>1, FS_Interval
<1>3. IsFiniteSet(Having(bytes, w)) /\ Cardinality(Having(bytes, w)) \in Nat
  BY <1>1, <1>2, FS_Subset, FS_CardinalityType
<1>4. Parity(bytes, w) = (1 + Cardinality(Having(bytes, w))) % 2
  BY DEF Parity, Having
<1> DEFINE m == Cardinality(Having(bytes, w))
<1>5. \A k \in Nat : (1 + k) % 2 \in {0, 1}
  OBVIOUS
<1>6. QED
  BY <1>3, <1>4, <1>5

\* The bits of the checksum are the parities.
LEMMA ChecksumBits ==
    ASSUME NEW z \in Seq(Bytes)
    PROVE  Checksum(z) \in Bytes /\ \A w \in Weights : HasBit(Checksum(z), w) <=> Parity(z, w) = 1
<1> DEFINE n == Checksum(z)
           a == Parity(z, 1)
           b == Parity(z, 2)
           c == Parity(z, 4)
           d == Parity(z, 8)
           e == Parity(z, 16)
           f == Parity(z, 32)
           g == Parity(z, 64)
           h == Parity(z, 128)
<1>1. /\ a \in {0, 1} /\ b \in {0, 1} /\ c \in {0, 1} /\ d \in {0, 1}
      /\ e \in {0, 1} /\ f \in {0, 1} /\ g \in {0, 1} /\ h \in {0, 1}
  BY ParityIs
<1>2. n = a + 2 * b + 4 * c + 8 * d + 16 * e + 32 * f + 64 * g + 128 * h
  BY DEF Checksum
<1> HIDE DEF n, a, b, c, d, e, f, g, h
<1>3. n \in Bytes /\ n \div 1 = n
  BY <1>1, <1>2 DEF Bytes
<1>4. (n \div 1) % 2 = a
  BY <1>1, <1>2, <1>3
<1>5. (n \div 2) % 2 = b
  BY <1>1, <1>2
<1>6. (n \div 4) % 2 = c
  BY <1>1, <1>2
<1>7. (n \div 8) % 2 = d
  BY <1>1, <1>2
<1>8. (n \div 16) % 2 = e
  BY <1>1, <1>2
<1>9. (n \div 32) % 2 = f
  BY <1>1, <1>2
<1>10. (n \div 64) % 2 = g
  BY <1>1, <1>2
<1>11. (n \div 128) % 2 = h
  BY <1>1, <1>2
<1>12. \A w \in Weights : (n \div w) % 2 = Parity(z, w)
  BY <1>4, <1>5, <1>6, <1>7, <1>8, <1>9, <1>10, <1>11 DEF Weights, a, b, c, d, e, f, g, h
<1>13. QED
  BY <1>3, <1>12 DEF HasBit, n

\* A checksum put where a zero was makes all bytes cancel out.
LEMMA Cancels ==
    ASSUME NEW z \in Seq(Bytes), NEW y \in Seq(Bytes), NEW p \in 1 .. Len(z),
           z[p] = 0, Len(y) = Len(z), y[p] = Checksum(z),
           \A i \in 1 .. Len(z) : i # p => y[i] = z[i]
    PROVE  Checksum(y) = 0
<1>1. ASSUME NEW w \in Weights PROVE Parity(y, w) = 0
  <2> DEFINE A == Having(z, w)
             m == Cardinality(A)
  <2>1. IsFiniteSet(A) /\ m \in Nat /\ Parity(z, w) = (1 + m) % 2
    BY ParityIs
  <2>2. ~HasBit(0, w)
    BY DEF HasBit, Weights
  <2>3. p \notin A
    BY <2>2 DEF Having
  <2>4. HasBit(y[p], w) <=> Parity(z, w) = 1
    BY ChecksumBits
  <2>5. CASE Parity(z, w) = 1
    <3>1. Having(y, w) = A \cup {p}
      BY <2>4, <2>5 DEF Having
    <3>2. Cardinality(A \cup {p}) = IF p \in A THEN Cardinality(A) ELSE Cardinality(A) + 1
      <4> HIDE DEF A, m
      <4>1. QED
        BY <2>1, FS_AddElement, Zenon
    <3>3. Cardinality(Having(y, w)) = m + 1
      BY <2>3, <3>1, <3>2, Zenon
    <3>4. Parity(y, w) = (1 + (m + 1)) % 2
      BY <3>3, ParityIs
    <3>5. \A k \in Nat : (1 + k) % 2 = 1 => (1 + (k + 1)) % 2 = 0
      OBVIOUS
    <3>6. QED
      BY <2>1, <2>5, <3>4, <3>5
  <2>6. CASE Parity(z, w) # 1
    <3>1. Having(y, w) = A
      BY <2>3, <2>4, <2>6 DEF Having
    <3>2. Parity(y, w) = Parity(z, w)
      BY <2>1, <3>1, ParityIs
    <3>3. QED
      BY <2>6, <3>2, ParityIs
  <2>7. QED
    BY <2>5, <2>6
<1>2. /\ Parity(y, 1) = 0 /\ Parity(y, 2) = 0 /\ Parity(y, 4) = 0 /\ Parity(y, 8) = 0
      /\ Parity(y, 16) = 0 /\ Parity(y, 32) = 0 /\ Parity(y, 64) = 0 /\ Parity(y, 128) = 0
  BY <1>1 DEF Weights
<1>3. QED
  BY <1>2 DEF Checksum

Commands == [msgid : Nat, cc : Nat, params : Seq(Params), csp : CspFields]

LEMMA InWord ==
    ASSUME NEW n \in Nat
    PROVE  n % Word \in 0 .. n /\ (n < Word => n % Word = n)
  BY DEF Word

\* A byte between a head and the rest.
Between(a, x, q, y) ==
    /\ y \in Seq(Bytes) /\ Len(y) = Len(a) + 1 + Len(q)
    /\ \A k \in 1 .. Len(a) : y[k] = a[k]
    /\ y[Len(a) + 1] = x
    /\ \A k \in 1 .. Len(q) : y[Len(a) + 1 + k] = q[k]

LEMMA PutBetween ==
    ASSUME NEW a \in Seq(Bytes), NEW x \in Bytes, NEW q \in Seq(Bytes)
    PROVE  Between(a, x, q, a \o <<x>> \o q)
<1> DEFINE b == a \o <<x>>
           y == b \o q
<1>1. b \in Seq(Bytes) /\ Len(b) = Len(a) + 1
  OBVIOUS
<1>2. b[Len(a) + 1] = x /\ \A k \in 1 .. Len(a) : b[k] = a[k]
  OBVIOUS
<1> HIDE DEF b
<1>3. y \in Seq(Bytes) /\ Len(y) = Len(b) + Len(q)
  BY <1>1
<1>4. \A k \in 1 .. Len(b) : y[k] = b[k]
  BY <1>1
<1>5. \A k \in 1 .. Len(q) : y[Len(b) + k] = q[k]
  BY <1>1
<1> HIDE DEF y
<1>6. Between(a, x, q, y)
  BY <1>1, <1>2, <1>3, <1>4, <1>5 DEF Between
<1>7. QED
  BY <1>6 DEF y, b

LEMMA HeaderIs ==
    ASSUME NEW c \in Commands, NEW payload \in Seq(Bytes)
    PROVE  /\ CommandHeader(c, payload) \in Seq(Bytes) /\ Len(CommandHeader(c, payload)) = 7
           /\ CommandHeader(c, payload)[6] = LengthByte(c, payload)
           /\ CommandHeader(c, payload)[1] = Msgid(c) \div 256
           /\ CommandHeader(c, payload)[2] = Msgid(c) % 256
           /\ CommandHeader(c, payload)[7] = Cc(c)
<1> DEFINE a == Msgid(c) \div 256
           b == Msgid(c) % 256
           d == LengthByte(c, payload)
           e == Cc(c)
<1>1. \A n \in Nat : (n % Word) \div 256 \in Bytes /\ (n % Word) % 256 \in Bytes
  BY DEF Word, Bytes
<1>2. a \in Bytes /\ b \in Bytes
  BY <1>1 DEF Commands, Msgid
<1>3. \A n \in Nat : n % 256 \in Bytes
  BY DEF Bytes
<1>4. e \in Bytes
  BY <1>3 DEF Commands, Cc
<1>5. 1 + Len(payload) \in Nat /\ 77 \in Bytes /\ 192 \in Bytes /\ 0 \in Bytes
  BY DEF Bytes
<1>6. d \in Bytes
  BY <1>3, <1>5 DEF LengthByte
<1>7. CommandHeader(c, payload) = <<a, b, 192, 0, 0, d, e>>
  BY DEF CommandHeader
<1> HIDE DEF a, b, d, e
<1>8. /\ CommandHeader(c, payload) \in Seq(Bytes) /\ CommandHeader(c, payload)[6] = d
      /\ CommandHeader(c, payload)[1] = a /\ CommandHeader(c, payload)[2] = b
      /\ CommandHeader(c, payload)[7] = e
  BY <1>2, <1>4, <1>5, <1>6, <1>7
<1>9. Len(CommandHeader(c, payload)) = 7
  BY <1>7
<1>10. QED
  BY <1>8, <1>9 DEF a, b, d, e

\* Where everything is in the inner command.
LEMMA InnerIs ==
    ASSUME NEW c \in Commands, NEW payload \in Seq(Bytes)
    PROVE  LET inner == Inner(c, payload)
           IN  /\ inner \in Seq(Bytes) /\ Len(inner) = 8 + Len(payload)
               /\ inner[6] = LengthByte(c, payload)
               /\ inner[1] = Msgid(c) \div 256 /\ inner[2] = Msgid(c) % 256 /\ inner[7] = Cc(c)
               /\ \A k \in 1 .. Len(payload) : inner[8 + k] = payload[k]
               /\ Len(inner) < Word => Checksum(inner) = 0
<1> DEFINE head == CommandHeader(c, payload)
           o == 0
           z == head \o <<o>> \o payload
           cs == Checksum(Summed(z))
           y == head \o <<cs>> \o payload
<1>1. Inner(c, payload) = y
  BY DEF Inner
<1>2. head \in Seq(Bytes) /\ o \in Bytes
  BY HeaderIs DEF Bytes
<1>3. Len(head) = 7 /\ Len(payload) \in Nat
  BY HeaderIs
<1> HIDE DEF head, o
<1>4. Between(head, o, payload, z)
  BY <1>2, PutBetween
<1> HIDE DEF z
<1>5. Summed(z) \in Seq(Bytes)
  <2> DEFINE m == Len(z) % Word
  <2>1. z \in Seq(Bytes)
    BY <1>4 DEF Between
  <2>2. m \in 0 .. Len(z) /\ Len(z) \in Nat
    BY <2>1, InWord
  <2> HIDE DEF m
  <2>3. SubSeq(z, 1, m) \in Seq(Bytes)
    BY <2>1, <2>2
  <2>4. QED
    BY <2>3 DEF Summed, m
<1>6. cs \in Bytes
  BY <1>5, ChecksumBits
<1> HIDE DEF cs
<1>7. Between(head, cs, payload, y)
  BY <1>2, <1>6, PutBetween
<1> HIDE DEF y
<1>8. ASSUME NEW i \in 1 .. Len(z), i # 8 PROVE y[i] = z[i]
  <2>1. CASE i \in 1 .. Len(head)
    BY <1>4, <1>7, <2>1 DEF Between
  <2>2. CASE i \notin 1 .. Len(head)
    <3>1. Len(z) = 8 + Len(payload)
      BY <1>3, <1>4 DEF Between
    <3>2. i - 8 \in 1 .. Len(payload) /\ Len(head) + 1 + (i - 8) = i
      BY <1>3, <1>8, <2>2, <3>1
    <3>3. y[Len(head) + 1 + (i - 8)] = z[Len(head) + 1 + (i - 8)]
      BY <1>4, <1>7, <3>2 DEF Between
    <3>4. QED
      BY <3>2, <3>3
  <2>3. QED
    BY <2>1, <2>2
<1>9. /\ y \in Seq(Bytes) /\ z \in Seq(Bytes)
      /\ Len(y) = 8 + Len(payload) /\ Len(z) = 8 + Len(payload)
      /\ y[8] = cs /\ z[8] = 0
      /\ y[1] = head[1] /\ y[2] = head[2] /\ y[6] = head[6] /\ y[7] = head[7]
      /\ \A k \in 1 .. Len(payload) : y[8 + k] = payload[k]
  BY <1>3, <1>4, <1>7 DEF Between, o
<1>10. ASSUME Len(y) < Word PROVE Checksum(y) = 0
  <2>1. Len(z) = Len(y) /\ Len(z) \in Nat
    BY <1>3, <1>9
  <2>2. Len(z) % Word = Len(z)
    BY <1>10, <2>1, InWord
  <2>3. Summed(z) = z
    BY <1>9, <2>2 DEF Summed
  <2>4. y[8] = Checksum(z) /\ 8 \in 1 .. Len(z)
    BY <1>3, <1>9, <2>3 DEF cs
  <2>5. QED
    BY <1>8, <1>9, <2>1, <2>4, Cancels
<1>11. /\ y[6] = LengthByte(c, payload)
       /\ y[1] = Msgid(c) \div 256 /\ y[2] = Msgid(c) % 256 /\ y[7] = Cc(c)
  BY <1>9, HeaderIs DEF head
<1>12. QED
  BY <1>1, <1>9, <1>10, <1>11

\* The CSP header gives back what its fields can hold.
LEMMA CspIs ==
    ASSUME NEW h \in CspFields
    PROVE  LET x == CspHeader(h)
           IN  /\ x \in Seq(Bytes) /\ Len(x) = 4
               /\ x[1] \div 64 = h.pri % 4
               /\ (x[1] % 64) \div 2 = h.src % 32
               /\ (x[1] % 2) * 16 + x[2] \div 16 = h.dst % 32
               /\ (x[2] % 16) * 4 + x[3] \div 64 = h.dport % 64
               /\ x[3] % 64 = h.sport % 64
               /\ x[4] = h.flags % 256
<1> DEFINE p  == h.pri % 4
           s  == h.src % 32
           d  == h.dst % 32
           dp == h.dport % 64
           sp == h.sport % 64
           f  == h.flags % 256
           a  == p * 64 + s * 2 + d \div 16
           b  == (d % 16) * 16 + dp \div 4
           c  == (dp % 4) * 64 + sp
<1>1. /\ h.pri \in Nat /\ h.src \in Nat /\ h.dst \in Nat
      /\ h.dport \in Nat /\ h.sport \in Nat /\ h.flags \in Nat
  BY DEF CspFields
<1>2. p \in 0 .. 3 /\ s \in 0 .. 31 /\ d \in 0 .. 31 /\ dp \in 0 .. 63 /\ sp \in 0 .. 63
  BY <1>1
<1>3. f \in Bytes
  BY <1>1 DEF Bytes
<1>4. CspHeader(h) = <<a, b, c, f>>
  BY Zenon DEF CspHeader
<1> HIDE DEF p, s, d, dp, sp, f
<1>5. a \in Bytes /\ b \in Bytes /\ c \in Bytes
  BY <1>2 DEF Bytes
<1>6. a \div 64 = p
  BY <1>2
<1>7. (a % 64) \div 2 = s
  BY <1>2
<1>8. (a % 2) * 16 + b \div 16 = d
  BY <1>2
<1>9. (b % 16) * 4 + c \div 64 = dp
  BY <1>2
<1>10. c % 64 = sp
  BY <1>2
<1> HIDE DEF a, b, c
<1> DEFINE x == CspHeader(h)
<1>11. x \in Seq(Bytes) /\ Len(x) = 4 /\ x[1] = a /\ x[2] = b /\ x[3] = c /\ x[4] = f
  BY <1>3, <1>4, <1>5
<1> HIDE DEF x
<1>12. /\ x \in Seq(Bytes) /\ Len(x) = 4
       /\ x[1] \div 64 = p /\ (x[1] % 64) \div 2 = s
       /\ (x[1] % 2) * 16 + x[2] \div 16 = d
       /\ (x[2] % 16) * 4 + x[3] \div 64 = dp /\ x[3] % 64 = sp /\ x[4] = f
  BY <1>6, <1>7, <1>8, <1>9, <1>10, <1>11
<1>13. QED
  BY <1>12 DEF x, p, s, d, dp, sp, f

LEMMA PayloadType ==
    ASSUME NEW params, Packing(params)
    PROVE  Payload(params) \in Seq(Bytes) /\ Len(params) \in Nat
<1>1. Len(params) \in 0 .. Len(params) /\ Len(params) \in Nat
  BY DEF Packing
<1>2. QED
  BY <1>1, PayloadIs DEF Payload

DataOf(c) == CspHeader(c.csp) \o Inner(c, Payload(c.params))

\* The bytes that are sent: four of CSP header and the inner command.
LEMMA DataIs ==
    ASSUME NEW c \in Commands, Packs(c.params)
    PROVE  LET x == CspHeader(c.csp)
               inner == Inner(c, Payload(c.params))
               bytes == DataOf(c)
           IN  /\ bytes \in Seq(Bytes) /\ Len(bytes) = 4 + Len(inner) /\ Len(inner) \in Nat
               /\ \A k \in 1 .. 4 : bytes[k] = x[k]
               /\ \A k \in 1 .. Len(inner) : bytes[4 + k] = inner[k]
               /\ SubSeq(bytes, 5, Len(bytes)) = inner
<1> DEFINE x == CspHeader(c.csp)
           inner == Inner(c, Payload(c.params))
           bytes == x \o inner
<1>1. Packing(c.params) /\ c.csp \in CspFields
  BY DEF Packing, Commands
<1>2. x \in Seq(Bytes)
  BY <1>1, CspIs
<1>3. inner \in Seq(Bytes)
  BY <1>1, PayloadType, InnerIs
<1>4. Len(x) = 4
  BY <1>1, CspIs
<1> HIDE DEF x, inner
<1>5. /\ bytes \in Seq(Bytes) /\ Len(bytes) = Len(x) + Len(inner) /\ Len(inner) \in Nat
      /\ \A k \in 1 .. Len(x) : bytes[k] = x[k]
      /\ \A k \in 1 .. Len(inner) : bytes[Len(x) + k] = inner[k]
      /\ SubSeq(bytes, Len(x) + 1, Len(bytes)) = inner
  BY <1>2, <1>3, Joined, Dropped
<1>6. bytes = DataOf(c)
  BY DEF DataOf, x, inner
<1> HIDE DEF bytes
<1>7. /\ Len(bytes) = 4 + Len(inner)
      /\ \A k \in 1 .. 4 : bytes[k] = x[k]
      /\ \A k \in 1 .. Len(inner) : bytes[4 + k] = inner[k]
      /\ SubSeq(bytes, 4 + 1, Len(bytes)) = inner
  BY <1>4, <1>5, Zenon
<1>8. QED
  BY <1>5, <1>6, <1>7 DEF x, inner

-----------------------------------------------------------------------------
(***************************************************************************)
(* The frame of a command that was sent.                                   *)
(***************************************************************************)
FrameInv == cmd \in Inputs /\ (frame = <<>> \/ frame = Packed(cmd))

\* The frame that is sent is the one its command packs into, and there is none before:
\* MakeTCData sends what it has built once, at its end.
THEOREM FrameInvariance == TCSpec => []FrameInv
<1>1. TCInit => FrameInv
  BY DEF TCInit, FrameInv
<1>2. FrameInv /\ [TCNext]_tcVars => FrameInv'
  BY DEF FrameInv, TCNext, tcVars
<1>3. QED
  BY <1>1, <1>2, PTL DEF TCSpec

LEMMA Sent ==
    ASSUME FrameInv, frame # <<>>
    PROVE  /\ cmd \in Commands /\ Packing(cmd.params)
           /\ frame[1] = Encapsulate(DataOf(cmd), Tail32(DataOf(cmd), cmd.csp.flags))
<1>1. cmd \in Commands
  BY TcAssumption DEF FrameInv, Commands
<1>2. frame = Packed(cmd)
  BY DEF FrameInv
<1>3. Packs(cmd.params)
  BY <1>2 DEF Packed
<1>4. frame = <<Encapsulate(DataOf(cmd), Tail32(DataOf(cmd), cmd.csp.flags))>>
  BY <1>2, <1>3 DEF Packed, DataOf
<1>5. QED
  BY <1>1, <1>3, <1>4 DEF Packing, Commands

LEMMA LengthsAgree ==
    ASSUME NEW c \in Commands, Packing(c.params)
    PROVE  LET inner == Inner(c, Payload(c.params))
           IN  inner[6] + 7 = Len(inner) \/ IsFixed(c) \/ Len(inner) - 8 >= 255
<1> DEFINE payload == Payload(c.params)
           n == Len(payload)
<1>1. payload \in Seq(Bytes)
  BY PayloadType
<1>2. /\ Len(Inner(c, payload)) = 8 + n
      /\ Inner(c, payload)[6] = LengthByte(c, payload)
  BY <1>1, InnerIs
<1>3. n \in Nat
  BY <1>1
<1>4. LengthByte(c, payload) = IF IsFixed(c) THEN 77 ELSE (1 + n) % 256
  BY DEF LengthByte
<1> HIDE DEF n, payload
<1>5. n < 255 => (1 + n) % 256 = 1 + n
  BY <1>3
<1>6. n >= 255 \/ IsFixed(c) \/ LengthByte(c, payload) + 7 = 8 + n
  BY <1>3, <1>4, <1>5
<1>7. QED
  BY <1>2, <1>3, <1>6 DEF payload

LEMMA SentAgrees ==
    ASSUME FrameInv, frame # <<>>
    PROVE  HeadersAgree
<1> DEFINE c == cmd
           h == cmd.csp
           bytes == DataOf(c)
           inner == Inner(c, Payload(c.params))
           tail == Tail32(bytes, h.flags)
           x == CspHeader(h)
<1>1. /\ c \in Commands /\ Packing(c.params) /\ Packs(c.params) /\ h \in CspFields
      /\ frame[1] = Encapsulate(bytes, tail)
  BY Sent DEF Packing, Commands
<1>2. /\ Len(bytes) \in Nat /\ SubSeq(bytes, 5, Len(bytes)) = inner
      /\ \A k \in 1 .. 4 : bytes[k] = x[k]
  BY <1>1, DataIs
<1>3. /\ frame[1].bytes = bytes /\ frame[1].tail = tail
      /\ frame[1].header.length = 12 + Len(bytes) + 4 * Len(tail) + 8
  BY <1>1 DEF Encapsulate
<1>4. h.flags % 2 = 1 \/ h.flags % 2 = 0
  BY <1>1 DEF CspFields
<1>5. /\ h.flags % 2 = 1 => tail # <<>> /\ Len(tail) = 1
      /\ h.flags % 2 # 1 => tail = <<>> /\ Len(tail) = 0
  BY DEF Tail32
<1>6. /\ x[1] \div 64 = h.pri % 4
      /\ (x[1] % 64) \div 2 = h.src % 32
      /\ (x[1] % 2) * 16 + x[2] \div 16 = h.dst % 32
      /\ (x[2] % 16) * 4 + x[3] \div 64 = h.dport % 64
      /\ x[3] % 64 = h.sport % 64
      /\ x[4] = h.flags % 256
  BY <1>1, CspIs
<1>7. Len(inner) < Word => Checksum(inner) = 0
  BY <1>1, PayloadType, InnerIs
<1>8. /\ inner[6] + 7 = Len(inner) \/ IsFixed(c) \/ Len(inner) - 8 >= 255
      /\ inner[1] * 256 + inner[2] = c.msgid % Word
      /\ inner[7] = c.cc % 256
  <2>1. /\ inner[1] = Msgid(c) \div 256 /\ inner[2] = Msgid(c) % 256 /\ inner[7] = Cc(c)
    BY <1>1, PayloadType, InnerIs
  <2>2. Msgid(c) \in Nat
    BY <1>1 DEF Commands, Msgid, Word
  <2>3. \A n \in Nat : (n \div 256) * 256 + (n % 256) = n
    OBVIOUS
  <2>4. inner[1] * 256 + inner[2] = Msgid(c)
    <3> HIDE DEF inner
    <3>1. QED
      BY <2>1, <2>2, <2>3
  <2>5. QED
    BY <1>1, <2>1, <2>4, LengthsAgree DEF Msgid, Cc
<1> HIDE DEF c, bytes, inner, tail, x
<1>9. frame[1].header.length = 20 + Len(bytes) + IF h.flags % 2 = 1 THEN 4 ELSE 0
  <2> DEFINE n == Len(bytes)
             t == Len(tail)
  <2>1. frame[1].header.length = 12 + n + 4 * t + 8 /\ n \in Nat
    BY <1>2, <1>3
  <2>2. (h.flags % 2 = 1 => t = 1) /\ (h.flags % 2 # 1 => t = 0)
    BY <1>5
  <2> HIDE DEF n, t
  <2>3. CASE h.flags % 2 = 1
    BY <2>1, <2>2, <2>3 DEF n
  <2>4. CASE h.flags % 2 # 1
    BY <2>1, <2>2, <2>4 DEF n
  <2>5. QED
    BY <2>3, <2>4
<1>10. (frame[1].tail = <<>>) = (h.flags % 2 = 0)
  BY <1>3, <1>4, <1>5
<1>11. /\ bytes[1] = x[1] /\ bytes[2] = x[2] /\ bytes[3] = x[3] /\ bytes[4] = x[4]
       /\ SubSeq(bytes, 5, Len(bytes)) = inner /\ frame[1].bytes = bytes
  BY <1>2, <1>3
<1> DEFINE f == frame[1]
           data == SubSeq(f.bytes, 5, Len(f.bytes))
<1>12. f.header.length = 20 + Len(f.bytes) + IF h.flags % 2 = 1 THEN 4 ELSE 0
  BY <1>9, <1>11, Zenon
<1>13. /\ f.bytes[1] \div 64 = h.pri % 4
       /\ (f.bytes[1] % 64) \div 2 = h.src % 32
       /\ (f.bytes[1] % 2) * 16 + f.bytes[2] \div 16 = h.dst % 32
       /\ (f.bytes[2] % 16) * 4 + f.bytes[3] \div 64 = h.dport % 64
       /\ f.bytes[3] % 64 = h.sport % 64
       /\ f.bytes[4] = h.flags % 256
  BY <1>6, <1>11, Zenon
<1>14. /\ Len(data) < Word => Checksum(data) = 0
       /\ data[6] + 7 = Len(data) \/ IsFixed(c) \/ Len(data) - 8 >= 255
       /\ data[1] * 256 + data[2] = c.msgid % Word
       /\ data[7] = c.cc % 256
  BY <1>7, <1>8, <1>11, Zenon
<1>15. QED
  BY <1>10, <1>12, <1>13, <1>14, Zenon DEF HeadersAgree, c

\* Of whatever commands: the lengths, the CSP fields and the checksum that
\* EncapsulateTC, build_csp_id_be and build_inner_cmd write agree with the bytes they
\* are about, but for the wraps that HeadersAgree names.
THEOREM FramesAgree == TCSpec => []HeadersAgree
<1>1. FrameInv => HeadersAgree
  BY SentAgrees DEF HeadersAgree
<1>2. QED
  BY <1>1, FrameInvariance, PTL

LEMMA ReadsBack ==
    ASSUME NEW c \in Commands, Packing(c.params)
    PROVE  /\ Len(DataOf(c)) = Ends(c.params)[Len(c.params)]
           /\ \A i \in 1 .. Len(c.params) :
                 SubSeq(DataOf(c), Ends(c.params)[i - 1] + 1, Ends(c.params)[i])
                    = PackOne(c.params[i])
<1> DEFINE params == c.params
           n == Len(params)
           E == Ends(params)
           payload == Payload(params)
           bytes == DataOf(c)
<1>1. payload \in Seq(Bytes) /\ n \in Nat
  BY PayloadType
<1>2. /\ Len(payload) + 12 = E[n]
      /\ \A j \in 1 .. n : 12 <= E[j - 1] /\ E[j] <= E[n] /\ Placed(params, payload, j)
  <2>1. n \in 0 .. n
    BY <1>1
  <2>2. payload = PayloadAfter(params)[n]
    BY DEF Payload
  <2> HIDE DEF payload, E
  <2>3. QED
    BY <2>1, <2>2, Layout DEF E
<1>3. /\ bytes \in Seq(Bytes) /\ Len(bytes) = 12 + Len(payload)
      /\ \A k \in 1 .. Len(payload) : bytes[12 + k] = payload[k]
  <2> DEFINE inner == Inner(c, payload)
  <2>1. /\ Len(inner) = 8 + Len(payload) /\ Len(payload) \in Nat
        /\ \A k \in 1 .. Len(payload) : inner[8 + k] = payload[k]
    BY <1>1, InnerIs
  <2>2. /\ bytes \in Seq(Bytes) /\ Len(bytes) = 4 + Len(inner)
        /\ \A k \in 1 .. Len(inner) : bytes[4 + k] = inner[k]
    BY DataIs DEF Packing
  <2> HIDE DEF inner, bytes, payload
  <2>3. ASSUME NEW k \in 1 .. Len(payload) PROVE bytes[12 + k] = payload[k]
    <3>1. 8 + k \in 1 .. Len(inner) /\ 4 + (8 + k) = 12 + k
      BY <2>1
    <3>2. QED
      BY <2>1, <2>2, <3>1
  <2>4. QED
    BY <2>1, <2>2, <2>3
<1>4. ASSUME NEW i \in 1 .. n PROVE SubSeq(bytes, E[i - 1] + 1, E[i]) = PackOne(params[i])
  <2> DEFINE from == E[i - 1]
             to == E[i]
             w == Width(params[i])
             q == PackOne(params[i])
             s == SubSeq(bytes, from + 1, to)
  <2>1. /\ from \in Nat /\ w \in Nat /\ to = from + w /\ Len(bytes) \in Nat
        /\ q \in Seq(Bytes) /\ Len(q) = w
    <3>1. i - 1 \in 0 .. n
      BY <1>1
    <3>2. from \in Nat /\ to = from + w
      BY <3>1, EndsIs
    <3>3. QED
      BY <1>3, <3>2, PacksEach DEF PacksWell
  <2>2. 12 <= from /\ to <= Len(bytes)
    BY <1>1, <1>2, <1>3
  <2>3. \A k \in 1 .. w : payload[from - 12 + k] = q[k]
    BY <1>2 DEF Placed
  <2> HIDE DEF from, to, w, q, bytes, payload
  <2>4. /\ s \in Seq(Bytes) /\ Len(s) = w
        /\ \A k \in 1 .. w : s[k] = bytes[from + k]
    BY <1>3, <2>1, <2>2
  <2>5. ASSUME NEW k \in 1 .. w PROVE bytes[from + k] = q[k]
    <3>1. from - 12 + k \in 1 .. Len(payload) /\ 12 + (from - 12 + k) = from + k
      BY <1>1, <1>3, <2>1, <2>2
    <3>2. QED
      BY <1>3, <2>3, <3>1
  <2> HIDE DEF s
  <2>6. /\ s \in Seq(Bytes) /\ q \in Seq(Bytes) /\ Len(s) = Len(q)
        /\ \A k \in 1 .. Len(q) : s[k] = q[k]
    BY <2>1, <2>4, <2>5
  <2>7. s = q
    BY <2>6
  <2>8. QED
    BY <2>7 DEF s, q, from, to
<1>5. QED
  BY <1>2, <1>3, <1>4

LEMMA SentReads ==
    ASSUME FrameInv, frame # <<>>
    PROVE  ParametersReadBack
<1>1. /\ cmd \in Commands /\ Packing(cmd.params) /\ frame[1].bytes = DataOf(cmd)
  BY Sent DEF Encapsulate
<1>2. ASSUME NEW i \in 1 .. Len(cmd.params)
      PROVE  Reads(cmd.params[i], PackOne(cmd.params[i]))
  BY <1>1, ReadsGiven DEF Packing, Packs
<1>3. QED
  BY <1>1, <1>2, ReadsBack DEF ParametersReadBack

\* Of whatever commands: a receiver that knows the types of the parameters finds each
\* one where the types before it put it, with the value pack_one_by_type was given, but
\* for a fraction and for a text far below zero given for an unsigned type.
THEOREM ParametersRead == TCSpec => []ParametersReadBack
<1>1. FrameInv => ParametersReadBack
  BY SentReads DEF ParametersReadBack
<1>2. QED
  BY <1>1, FrameInvariance, PTL

-----------------------------------------------------------------------------
\* The parameters of two commands have the same types and sizes.
SameForm(ps, qs) ==
    Len(ps) = Len(qs) /\ \A i \in 1 .. Len(ps) : ps[i].type = qs[i].type /\ ps[i].size = qs[i].size

Padded(p, i) == IF i <= Len(p.text) THEN p.text[i] ELSE 0

SameValue(p, q) ==
    /\ p.type \in DOMAIN IntTypes => Number(p) = Number(q)
    /\ p.type = "bool" => (Number(p) = 0 <=> Number(q) = 0)
    /\ p.type = "str" => \A i \in 1 .. p.size : Padded(p, i) = Padded(q, i)

\* What a number of one or two bytes reads as tells it from every other of its type.
LEMMA SameNumber ==
    ASSUME NEW p \in Params, PackOne(p) # Refused, NEW q \in Params, PackOne(q) # Refused,
           p.type = q.type, p.type \in DOMAIN IntTypes, PackOne(p) = PackOne(q)
    PROVE  Number(p) = Number(q)
<1> DEFINE n == ReadNumber(PackOne(p))
<1>1. ReadsNumber(p, PackOne(p)) /\ ReadsNumber(q, PackOne(p))
  BY PacksAll DEF PacksWell
<1>2. /\ Number(p) \in Int /\ Number(q) \in Int
      /\ IntTypes[p.type].least <= Number(p) /\ Number(p) <= IntTypes[p.type].greatest
      /\ IntTypes[p.type].least <= Number(q) /\ Number(q) <= IntTypes[p.type].greatest
  BY PacksInteger
<1>3. CASE p.type = "u8" \/ p.type = "u16"
  <2>1. n = Number(p) /\ n = Number(q)
    BY <1>1, <1>3 DEF ReadsNumber
  <2>2. QED
    BY <2>1
<1>4. CASE p.type = "s8"
  <2>1. n = Number(p) + (IF Number(p) < 0 THEN 256 ELSE 0) /\ n = Number(q) + (IF Number(q) < 0 THEN 256 ELSE 0)
    BY <1>1, <1>4 DEF ReadsNumber
  <2>2. -128 <= Number(p) /\ Number(p) <= 127 /\ -128 <= Number(q) /\ Number(q) <= 127
    BY <1>2, <1>4, IntegerTypes
  <2> HIDE DEF n
  <2>3. QED
    BY <1>2, <2>1, <2>2
<1>5. CASE p.type = "s16"
  <2>1. n = Number(p) + (IF Number(p) < 0 THEN Word ELSE 0) /\ n = Number(q) + (IF Number(q) < 0 THEN Word ELSE 0)
    BY <1>1, <1>5 DEF ReadsNumber
  <2>2. -32768 <= Number(p) /\ Number(p) <= 32767 /\ -32768 <= Number(q) /\ Number(q) <= 32767
    BY <1>2, <1>5, IntegerTypes
  <2> HIDE DEF n
  <2>3. QED
    BY <1>2, <2>1, <2>2 DEF Word
<1>6. QED
  BY <1>3, <1>4, <1>5, IntegerTypes

\* And so for the other types, as far as the bytes tell: a text is padded with zeros, and
\* a truth is zero or not.
LEMMA SameBytes ==
    ASSUME NEW p \in Params, PackOne(p) # Refused, NEW q \in Params, PackOne(q) # Refused,
           p.type = q.type, p.size = q.size, PackOne(p) = PackOne(q)
    PROVE  SameValue(p, q)
<1> DEFINE b == PackOne(p)
<1>1. ReadsNumber(p, b) /\ ReadsNumber(q, b) /\ Len(b) = Width(p)
  BY PacksAll DEF PacksWell
<1> HIDE DEF b
<1>2. ASSUME p.type = "bool" PROVE Number(p) = 0 <=> Number(q) = 0
  BY <1>1, <1>2 DEF ReadsNumber
<1>3. ASSUME p.type = "str", NEW i \in 1 .. p.size PROVE Padded(p, i) = Padded(q, i)
  <2>1. Len(b) = p.size
    BY <1>1, <1>3 DEF Width
  <2>2. /\ \A k \in 1 .. Len(b) : b[k] = Padded(p, k)
        /\ \A k \in 1 .. Len(b) : b[k] = Padded(q, k)
    BY <1>1, <1>3 DEF ReadsNumber, Padded
  <2>3. QED
    BY <2>1, <2>2
<1>4. p.type \in DOMAIN IntTypes => Number(p) = Number(q)
  BY SameNumber
<1>5. QED
  BY <1>2, <1>3, <1>4, Zenon DEF SameValue

\* Parameters of the same types lie in the same places.
LEMMA SamePlaces ==
    ASSUME NEW ps, Packing(ps), NEW qs, Packing(qs), SameForm(ps, qs)
    PROVE  \A i \in 0 .. Len(ps) : Ends(ps)[i] = Ends(qs)[i]
<1> DEFINE n == Len(ps)
           T == {i \in 0 .. n : Ends(ps)[i] = Ends(qs)[i]}
<1>1. n \in Nat /\ Len(qs) = n
  BY DEF Packing, SameForm
<1>2. /\ Ends(ps)[0] = 12 /\ Ends(qs)[0] = 12
      /\ \A i \in 1 .. n : Ends(ps)[i] = Ends(ps)[i - 1] + Width(ps[i])
      /\ \A i \in 1 .. n : Ends(qs)[i] = Ends(qs)[i - 1] + Width(qs[i])
  BY <1>1, EndsIs
<1>3. ASSUME NEW i \in 1 .. n PROVE Width(ps[i]) = Width(qs[i])
  <2>1. ps[i].type = qs[i].type /\ ps[i].size = qs[i].size
    BY DEF SameForm
  <2>2. QED
    BY <2>1 DEF Width
<1> HIDE DEF n
<1>4. 0 \in T
  BY <1>1, <1>2
<1>5. ASSUME NEW i \in 1 .. n, i - 1 \in T PROVE i \in T
  BY <1>1, <1>2, <1>3, <1>5
<1> HIDE DEF T
<1>6. 0 .. n \subseteq T
  BY <1>1, <1>4, <1>5, Upwards
<1>7. QED
  BY <1>6 DEF T, n

\* Commands with the same bytes have the same values.
LEMMA SameData ==
    ASSUME NEW c \in Commands, Packing(c.params), NEW d \in Commands, Packing(d.params),
           SameForm(c.params, d.params), DataOf(c) = DataOf(d)
    PROVE  \A i \in 1 .. Len(c.params) : SameValue(c.params[i], d.params[i])
<1> DEFINE ps == c.params
           qs == d.params
<1> SUFFICES ASSUME NEW i \in 1 .. Len(ps) PROVE SameValue(ps[i], qs[i])
  OBVIOUS
<1>1. /\ Len(ps) = Len(qs) /\ Len(ps) \in Nat
      /\ ps[i].type = qs[i].type /\ ps[i].size = qs[i].size
      /\ ps[i] \in Params /\ qs[i] \in Params
      /\ PackOne(ps[i]) # Refused /\ PackOne(qs[i]) # Refused
  BY DEF SameForm, Packing, Packs
<1>2. Ends(ps)[i - 1] = Ends(qs)[i - 1] /\ Ends(ps)[i] = Ends(qs)[i]
  <2>1. i - 1 \in 0 .. Len(ps) /\ i \in 0 .. Len(ps)
    BY <1>1
  <2>2. QED
    BY <2>1, SamePlaces
<1>3. /\ SubSeq(DataOf(c), Ends(ps)[i - 1] + 1, Ends(ps)[i]) = PackOne(ps[i])
      /\ SubSeq(DataOf(d), Ends(qs)[i - 1] + 1, Ends(qs)[i]) = PackOne(qs[i])
  BY <1>1, ReadsBack
<1>4. PackOne(ps[i]) = PackOne(qs[i])
  BY <1>2, <1>3
<1> HIDE DEF ps, qs
<1>5. QED
  BY <1>1, <1>4, SameBytes

\* Two commands with parameters of the same types that are given the same frame are the
\* same command, as far as the fields of the frame hold it and up to what the readers
\* of the types make of the values: no frame that MakeTCData sends could have been
\* meant otherwise.
THEOREM FramesTellApart ==
    ASSUME NEW c \in Inputs, Packs(c.params), NEW d \in Inputs, Packs(d.params),
           SameForm(c.params, d.params), Packed(c) = Packed(d)
    PROVE  /\ c.msgid % Word = d.msgid % Word /\ c.cc % 256 = d.cc % 256
           /\ CspHeader(c.csp) = CspHeader(d.csp)
           /\ \A i \in 1 .. Len(c.params) : SameValue(c.params[i], d.params[i])
<1>1. /\ c \in Commands /\ d \in Commands
      /\ Packing(c.params) /\ Packing(d.params) /\ c.csp \in CspFields /\ d.csp \in CspFields
  BY TcAssumption DEF Commands, Packing
<1>2. DataOf(c) = DataOf(d)
  <2> DEFINE f == Encapsulate(DataOf(c), Tail32(DataOf(c), c.csp.flags))
             g == Encapsulate(DataOf(d), Tail32(DataOf(d), d.csp.flags))
  <2>1. Packed(c)[1] = f /\ Packed(d)[1] = g
    BY DEF Packed, DataOf
  <2>2. f.bytes = DataOf(c) /\ g.bytes = DataOf(d)
    BY DEF Encapsulate
  <2> HIDE DEF f, g
  <2>3. QED
    BY <2>1, <2>2
<1> DEFINE x(e) == CspHeader(e.csp)
           y(e) == Inner(e, Payload(e.params))
<1>3. ASSUME NEW e \in Commands, Packing(e.params)
      PROVE  /\ x(e) \in Seq(Bytes) /\ Len(x(e)) = 4
             /\ \A k \in 1 .. 4 : DataOf(e)[k] = x(e)[k]
             /\ SubSeq(DataOf(e), 5, Len(DataOf(e))) = y(e)
  <2>1. Packs(e.params) /\ e.csp \in CspFields
    BY <1>3 DEF Commands, Packing
  <2>2. QED
    BY <2>1, CspIs, DataIs
<1>4. ASSUME NEW e \in Commands, Packing(e.params)
      PROVE  /\ y(e)[1] = Msgid(e) \div 256 /\ y(e)[2] = Msgid(e) % 256
             /\ y(e)[7] = Cc(e) /\ Msgid(e) \in Nat
  <2>1. Msgid(e) \in Nat
    BY DEF Commands, Msgid, Word
  <2>2. QED
    BY <1>4, <2>1, PayloadType, InnerIs
<1> HIDE DEF x, y
<1>5. y(c) = y(d)
  BY <1>1, <1>2, <1>3
<1>6. x(c) = x(d)
  <2> DEFINE a == x(c)
             b == x(d)
  <2>1. /\ a \in Seq(Bytes) /\ Len(a) = 4 /\ b \in Seq(Bytes) /\ Len(b) = 4
        /\ \A k \in 1 .. 4 : a[k] = b[k]
    BY <1>1, <1>2, <1>3
  <2> HIDE DEF a, b
  <2>2. a = b
    BY <2>1
  <2>3. QED
    BY <2>2 DEF a, b
<1>7. Msgid(c) = Msgid(d) /\ Cc(c) = Cc(d)
  <2>1. \A m, n \in Nat : m \div 256 = n \div 256 /\ m % 256 = n % 256 => m = n
    OBVIOUS
  <2>2. QED
    BY <1>1, <1>4, <1>5, <2>1
<1>8. QED
  BY <1>1, <1>2, <1>6, <1>7, SameData DEF Msgid, Cc, x
=============================================================================
