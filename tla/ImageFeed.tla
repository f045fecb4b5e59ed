------------------------------ MODULE ImageFeed ------------------------------
(***************************************************************************)
(* What the image path of the ground station promises, seen from outside:  *)
(* packets arrive one after the other, and each packet flagged as the last *)
(* of its image delivers everything that has arrived since the previous    *)
(* delivery, itself included, as one file.  What is pending may be lost    *)
(* (the process dies, or the file cannot be written), but a delivery is    *)
(* never a part of what was pending and never spans two flagged packets.   *)
(***************************************************************************)
EXTENDS Naturals, Sequences

CONSTANT Packets    \* records with a field last, TRUE for an image's last packet

VARIABLES
    pending,    \* the packets not yet delivered
    delivered   \* the deliveries so far, oldest first

vars == <<pending, delivered>>

Init ==
    /\ pending = <<>>
    /\ delivered = <<>>

Receive(p) ==
    /\ ~p.last
    /\ pending' = Append(pending, p)
    /\ UNCHANGED delivered

Deliver(p) ==
    /\ p.last
    /\ pending' = <<>>
    /\ delivered' = Append(delivered, Append(pending, p))

Lose ==
    /\ pending' = <<>>
    /\ UNCHANGED delivered

Next ==
    \/ \E p \in Packets : Receive(p) \/ Deliver(p)
    \/ Lose

Spec == Init /\ [][Next]_vars

\* Each delivery has one packet that ends an image, and this is its last.
OneImageEach ==
    \A i \in 1 .. Len(delivered) :
        /\ delivered[i] # <<>>
        /\ \A k \in 1 .. Len(delivered[i]) : delivered[i][k].last <=> k = Len(delivered[i])
=============================================================================
