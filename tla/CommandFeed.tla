----------------------------- MODULE CommandFeed -----------------------------
(***************************************************************************)
(* What the path from the command page to the modem promises.  Commands    *)
(* are numbered in the order they are sent, and each belongs to one visit  *)
(* of the page.  A ground station transmits a command at most once, and    *)
(* the commands of one visit in the order they were sent; any of them may  *)
(* be lost.                                                                *)
(***************************************************************************)
EXTENDS Naturals, Sequences

CONSTANTS
    Stations,
    Visits          \* the numbers of the visits

VARIABLES
    sent,           \* the visit each command was sent in
    transmitted     \* what each station has transmitted, oldest first

vars == <<sent, transmitted>>

Init ==
    /\ sent = <<>>
    /\ transmitted = [s \in Stations |-> <<>>]

Send(v) ==
    /\ sent' = Append(sent, v)
    /\ UNCHANGED transmitted

Transmit(s, n) ==
    /\ n \in 1 .. Len(sent)
    /\ \A i \in 1 .. Len(transmitted[s]) :
          /\ transmitted[s][i] # n
          /\ sent[transmitted[s][i]] = sent[n] => transmitted[s][i] < n
    /\ transmitted' = [transmitted EXCEPT ![s] = Append(@, n)]
    /\ UNCHANGED sent

Next ==
    \/ \E v \in Visits : Send(v)
    \/ \E s \in Stations, n \in 1 .. Len(sent) : Transmit(s, n)

Spec == Init /\ [][Next]_vars

\* No station transmits a command twice, nor a command after a later one of its visit.
OnceInOrder ==
    \A s \in Stations : \A i, j \in 1 .. Len(transmitted[s]) :
        i < j => /\ transmitted[s][i] # transmitted[s][j]
                 /\ sent[transmitted[s][i]] = sent[transmitted[s][j]]
                       => transmitted[s][i] < transmitted[s][j]
=============================================================================
