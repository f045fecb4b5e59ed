------------------------------ MODULE FrameFeed ------------------------------
(***************************************************************************)
(* What the receiving side of the ground station promises about the units  *)
(* the Expedite server sends (frames, or bare beacons), numbered in the    *)
(* order they are sent: what is decoded was sent, is decoded at most once, *)
(* and in the order of sending.  Any of it may be lost, and what is lost   *)
(* may be taken for a beacon that nobody sent: then every unit it is made  *)
(* of comes after those decoded before and before those decoded later.     *)
(***************************************************************************)
EXTENDS Naturals, Sequences

VARIABLES
    sent,       \* the units sent so far
    decoded,    \* the units decoded so far, oldest first
    misread     \* the units of which bytes were taken for a beacon

vars == <<sent, decoded, misread>>

Init ==
    /\ sent = 0
    /\ decoded = <<>>
    /\ misread = {}

Send ==
    /\ sent' = sent + 1
    /\ UNCHANGED <<decoded, misread>>

AfterDecoded(u) == \A i \in 1 .. Len(decoded) : decoded[i] < u

Decode(u) ==
    /\ AfterDecoded(u)
    /\ \A m \in misread : m < u
    /\ decoded' = Append(decoded, u)
    /\ UNCHANGED <<sent, misread>>

\* Of the unit after those sent, the first bytes may be on their way.
Misread(units) ==
    /\ \A u \in units : AfterDecoded(u)
    /\ misread' = misread \cup units
    /\ UNCHANGED <<sent, decoded>>

Next ==
    \/ Send
    \/ \E u \in 1 .. sent : Decode(u)
    \/ \E units \in SUBSET (1 .. sent + 1) : Misread(units)

Spec == Init /\ [][Next]_vars

\* Nothing is decoded twice or after what was sent later, nothing that was not sent,
\* and nothing of which bytes were taken for something else.
OnceInOrder ==
    /\ \A i \in 1 .. Len(decoded) : decoded[i] \in 1 .. sent
    /\ \A i, j \in 1 .. Len(decoded) : i < j => decoded[i] < decoded[j]
    /\ \A i \in 1 .. Len(decoded) : decoded[i] \notin misread
=============================================================================
