---------------------------- MODULE SendRecvProofs ----------------------------
(***************************************************************************)
(* Proofs about SendRecv for any sequence of units, connections and        *)
(* timeouts: its types, that it implements FrameFeed (nothing is decoded   *)
(* twice, out of order or in bytes that have been taken for a beacon), and *)
(* that whole frames are decoded.                                          *)
(*                                                                         *)
(* The invariant looks at the line: what the connection has brought and    *)
(* what it carries.  Its pieces are in the order of sending, the rest of a *)
(* frame follows its first piece, and all were sent before "next" (Tidy).  *)
(* What was decoded lies before whatever may still be decoded (Fresh), so  *)
(* does what was misread, up to a part of its last unit (Spent), and every *)
(* whole frame before the position of parse_stream was decoded (Walked).   *)
(***************************************************************************)
EXTENDS SendRecv, TLAPS

Types == TypeOK /\ next \in [unit : 1 .. Len(Kind) + 1, part : {1, 2}]

line == acc \o wire

Heads(p) == Kind[p.unit] = "frame" /\ p.part = 1

Less(p, q) == p.unit < q.unit \/ (p.unit = q.unit /\ p.part < q.part)

\* The server has sent p, and n is what it sends next.
WasSent(p, n) == p.unit < n.unit \/ (p.unit = n.unit /\ p.part = 1 /\ n.part = 2)

Tidy(q, n) ==
    /\ \A i, j \in 1 .. Len(q) : i < j => Less(q[i], q[j])
    /\ \A i \in 1 .. Len(q) : WasSent(q[i], n)
    /\ \A i, j \in 1 .. Len(q) :
          j = i + 1 /\ q[i].part = 1 => q[j].unit = q[i].unit /\ q[j].part = 2

\* On a connection that is up the server goes on with the unit it has begun.
GoesOn ==
    conn = "up" /\ Len(line) > 0 /\ line[Len(line)].part = 1
        => next.unit = line[Len(line)].unit /\ next.part = 2

\* The units in d lie before those of the pieces of q from i on.
Behind(d, q, i) == \A k \in 1 .. Len(d), j \in 1 .. Len(q) : j >= i => d[k] < q[j].unit

Fresh ==
    /\ \A k \in 1 .. Len(decoded) : decoded[k] < next.unit
    /\ pc = "recv" => Behind(decoded, line, 1)
    /\ pc = "parse" =>
          /\ Behind(decoded, acc, off)
          /\ frames = 0 => Behind(decoded, acc, 1)
          /\ \A j \in 1 .. Len(acc) : j >= off => frames < acc[j].unit

\* The bytes of a misread unit m that may still come before p are its last ones.
UpTo(m, p) == m < p.unit \/ (m = p.unit /\ p.part = 2)

Spent ==
    /\ \A m \in misread : UpTo(m, next)
    /\ pc = "recv" => \A m \in misread, j \in 1 .. Len(line) : UpTo(m, line[j])
    /\ pc = "parse" => \A m \in misread, j \in 1 .. Len(acc) : UpTo(m, acc[j])

Unconnected == pc \in {"loop", "connect", "stopped"} => conn = "none" /\ wire = <<>>

Walked ==
    \A i, j \in 1 .. Len(acc) :
        /\ j = i + 1 /\ Heads(acc[i])
        /\ pc = "close" \/ (pc = "parse" /\ i < off)
        => acc[i].unit \in Decoded

IInv == Types /\ Tidy(line, next) /\ GoesOn /\ Fresh /\ Spent /\ Unconnected /\ Walked

-----------------------------------------------------------------------------
(***************************************************************************)
(* The line.                                                               *)
(***************************************************************************)

LEMMA Kinds == Len(Kind) \in Nat /\ \A u \in Units : Kind[u] \in {"frame", "bare"}
  BY SendRecvAssumption DEF Units

LEMMA Joined ==
    ASSUME NEW a \in Seq(Pieces), NEW b \in Seq(Pieces)
    PROVE  /\ a \o b \in Seq(Pieces) /\ Len(a \o b) = Len(a) + Len(b)
           /\ Len(a) \in Nat /\ Len(b) \in Nat
           /\ \A i \in 1 .. Len(a) : i \in 1 .. Len(a \o b) /\ (a \o b)[i] = a[i]
           /\ \A i \in 1 .. Len(b) : (a \o b)[Len(a) + i] = b[i]
           /\ b = <<>> => a \o b = a
           /\ a = <<>> => a \o b = b
  OBVIOUS

\* Pieces that were in the line before are as tidy.
LEMMA TidyPart ==
    ASSUME NEW q \in Seq(Pieces), NEW r \in Seq(Pieces), NEW n, Tidy(q, n), Len(r) <= Len(q),
           \A i \in 1 .. Len(r) : r[i] = q[i]
    PROVE  Tidy(r, n)
<1>1. \A i \in 1 .. Len(r) : i \in 1 .. Len(q)
  OBVIOUS
<1>2. QED
  BY <1>1 DEF Tidy

\* recv moves the boundary between what has arrived and what is on its way.
LEMMA Moved ==
    ASSUME NEW a \in Seq(Pieces), NEW b \in Seq(Pieces), NEW k \in 1 .. Len(b)
    PROVE  /\ (a \o SubSeq(b, 1, k)) \o SubSeq(b, k + 1, Len(b)) = a \o b
           /\ a \o SubSeq(b, 1, k) \in Seq(Pieces)
           /\ SubSeq(b, k + 1, Len(b)) \in Seq(Pieces)
           /\ {b[i] : i \in 1 .. k} \subseteq Pieces
<1> DEFINE x == SubSeq(b, 1, k)
           y == SubSeq(b, k + 1, Len(b))
<1>1. /\ x \in Seq(Pieces) /\ Len(x) = k /\ \A i \in 1 .. k : x[i] = b[i]
      /\ k \in Nat /\ Len(b) \in Nat /\ k <= Len(b) /\ Len(a) \in Nat
  OBVIOUS
<1>2. /\ y \in Seq(Pieces) /\ Len(y) = Len(b) - k /\ \A i \in 1 .. Len(b) - k : y[i] = b[k + i]
  <2>1. k + 1 \in 1 .. Len(b) + 1 /\ Len(b) \in Nat
    BY <1>1
  <2>2. y \in Seq(Pieces) /\ Len(y) = Len(b) - k
    BY <2>1
  <2>3. ASSUME NEW i \in 1 .. Len(b) - k PROVE y[i] = b[k + i]
    <3>1. i \in 1 .. Len(b) - (k + 1) + 1 /\ (k + 1) + i - 1 = k + i
      BY <1>1
    <3>2. y[i] = b[(k + 1) + i - 1]
      BY <1>1, <3>1
    <3>3. QED
      BY <3>1, <3>2
  <2>4. QED
    BY <2>2, <2>3
<1> HIDE DEF x, y
<1>3. /\ a \o x \in Seq(Pieces) /\ Len(a \o x) = Len(a) + k
      /\ \A i \in 1 .. Len(a) : (a \o x)[i] = a[i]
      /\ \A i \in 1 .. k : (a \o x)[Len(a) + i] = b[i]
  BY <1>1, Joined
<1>4. /\ a \o b \in Seq(Pieces) /\ Len(a \o b) = Len(a) + Len(b)
      /\ \A i \in 1 .. Len(a) : (a \o b)[i] = a[i]
      /\ \A i \in 1 .. Len(b) : (a \o b)[Len(a) + i] = b[i]
  BY Joined
<1> DEFINE c == a \o x
           d == a \o b
<1> HIDE DEF c, d
<1>5. /\ c \o y \in Seq(Pieces) /\ Len(c \o y) = Len(c) + Len(y)
      /\ \A i \in 1 .. Len(c) : (c \o y)[i] = c[i]
      /\ \A i \in 1 .. Len(y) : (c \o y)[Len(c) + i] = y[i]
  BY <1>2, <1>3, Joined DEF c
<1>6. ASSUME NEW i \in 1 .. Len(a) + Len(b) PROVE (c \o y)[i] = d[i]
  <2>1. CASE i \in 1 .. Len(a)
    <3>1. i \in 1 .. Len(c)
      BY <1>1, <1>3, <2>1 DEF c
    <3>2. QED
      BY <1>3, <1>4, <1>5, <2>1, <3>1 DEF c, d
  <2>2. CASE i > Len(a) /\ i <= Len(a) + k
    <3>1. PICK h \in 1 .. k : i = Len(a) + h
      <4>1. i - Len(a) \in 1 .. k /\ i = Len(a) + (i - Len(a))
        BY <1>1, <2>2
      <4>2. QED
        BY <4>1
    <3>2. i \in 1 .. Len(c) /\ h \in 1 .. Len(b)
      BY <1>1, <1>3, <3>1 DEF c
    <3>3. QED
      BY <1>3, <1>4, <1>5, <3>1, <3>2 DEF c, d
  <2>3. CASE i > Len(a) + k
    <3>1. PICK h \in 1 .. Len(b) - k : i = (Len(a) + k) + h
      <4>1. i - (Len(a) + k) \in 1 .. Len(b) - k /\ i = (Len(a) + k) + (i - (Len(a) + k))
        BY <1>1, <2>3
      <4>2. QED
        BY <4>1
    <3>2. /\ h \in 1 .. Len(y) /\ i = Len(c) + h
          /\ k + h \in 1 .. Len(b) /\ i = Len(a) + (k + h)
      BY <1>1, <1>2, <1>3, <3>1 DEF c
    <3>3. (c \o y)[i] = y[h] /\ y[h] = b[k + h]
      BY <1>2, <1>5, <3>1, <3>2
    <3>4. d[i] = b[k + h]
      BY <1>4, <3>2 DEF d
    <3>5. QED
      BY <3>3, <3>4
  <2>4. i \in 1 .. Len(a) \/ (i > Len(a) /\ i <= Len(a) + k) \/ i > Len(a) + k
    BY <1>1
  <2>5. QED
    BY Zenon, <2>1, <2>2, <2>3, <2>4
<1>7. Len(c \o y) = Len(a) + Len(b) /\ Len(d) = Len(a) + Len(b) /\ d \in Seq(Pieces)
  BY <1>1, <1>2, <1>3, <1>4, <1>5 DEF c, d
<1>8. ASSUME NEW q \in Seq(Pieces), NEW r \in Seq(Pieces), Len(q) = Len(r),
             \A i \in 1 .. Len(q) : q[i] = r[i]
      PROVE  q = r
  BY <1>8
<1>9. c \o y = d
  BY <1>5, <1>6, <1>7, <1>8
<1>10. {b[i] : i \in 1 .. k} \subseteq Pieces
  BY <1>1
<1>11. QED
  BY <1>2, <1>3, <1>9, <1>10 DEF c, d, x, y

-----------------------------------------------------------------------------
(***************************************************************************)
(* The steps.                                                              *)
(***************************************************************************)

LEMMA Typed ==
    ASSUME Types
    PROVE  /\ acc \in Seq(Pieces) /\ wire \in Seq(Pieces) /\ line \in Seq(Pieces)
           /\ Len(line) = Len(acc) + Len(wire) /\ Len(acc) \in Nat /\ Len(wire) \in Nat
           /\ \A i \in 1 .. Len(acc) : i \in 1 .. Len(line) /\ line[i] = acc[i]
           /\ \A i \in 1 .. Len(acc) :
                 acc[i] \in Pieces /\ acc[i].unit \in Units /\ acc[i].part \in {1, 2}
           /\ \A i \in 1 .. Len(line) : line[i] \in Pieces
           /\ next.unit \in 1 .. Len(Kind) + 1 /\ next.part \in {1, 2}
<1>1. acc \in Seq(Pieces) /\ wire \in Seq(Pieces)
  BY DEF Types, TypeOK
<1>2. /\ line \in Seq(Pieces) /\ Len(line) = Len(acc) + Len(wire)
      /\ Len(acc) \in Nat /\ Len(wire) \in Nat
      /\ \A i \in 1 .. Len(acc) : i \in 1 .. Len(line) /\ line[i] = acc[i]
  BY <1>1, Joined DEF line
<1>3. \A i \in 1 .. Len(acc) :
         acc[i] \in Pieces /\ acc[i].unit \in Units /\ acc[i].part \in {1, 2}
  <2>1. \A i \in 1 .. Len(acc) : acc[i] \in Pieces
    BY <1>1
  <2>2. QED
    BY <2>1 DEF Pieces
<1>4. \A i \in 1 .. Len(line) : line[i] \in Pieces
  BY <1>2
<1>5. QED
  BY <1>1, <1>2, <1>3, <1>4 DEF Types

\* The server sends a piece.
LEMMA SendsStep == ASSUME IInv, ServerSends PROVE IInv'
<1>1. /\ conn = "up" /\ next.unit <= Len(Kind) /\ wire' = Append(wire, next)
      /\ next' = IF next.part = 1 THEN [next EXCEPT !.part = 2]
                                  ELSE [unit |-> next.unit + 1, part |-> 1]
      /\ UNCHANGED <<run, pc, acc, off, frames, conn, decoded, misread, received>>
  BY DEF ServerSends, MoreToSend, NextUnit, local, history
<1>2. /\ acc \in Seq(Pieces) /\ wire \in Seq(Pieces) /\ line \in Seq(Pieces)
      /\ next \in [unit : 1 .. Len(Kind) + 1, part : {1, 2}] /\ Len(Kind) \in Nat
      /\ Len(line) \in Nat
  BY Typed, Kinds DEF IInv, Types
<1>3. next \in Pieces /\ next.unit \in Units
  BY <1>1, <1>2 DEF Pieces, Units
<1>4. /\ line' = Append(line, next) /\ line' \in Seq(Pieces) /\ wire' \in Seq(Pieces)
      /\ Len(line') = Len(line) + 1 /\ line'[Len(line) + 1] = next
      /\ \A i \in 1 .. Len(line) : line'[i] = line[i] /\ line[i] \in Pieces
  <2>1. ASSUME NEW a \in Seq(Pieces), NEW b \in Seq(Pieces), NEW x \in Pieces
        PROVE  a \o Append(b, x) = Append(a \o b, x)
    OBVIOUS
  <2>2. line' = Append(line, next)
    BY <1>1, <1>2, <1>3, <2>1 DEF line
  <2>3. QED
    BY <1>1, <1>2, <1>3, <2>2
<1>5. /\ next' \in [unit : 1 .. Len(Kind) + 1, part : {1, 2}]
      /\ \/ next.part = 1 /\ next'.unit = next.unit /\ next'.part = 2
         \/ next.part = 2 /\ next'.unit = next.unit + 1
  <2>1. CASE next.part = 1
    BY <1>1, <1>2, <2>1
  <2>2. CASE next.part = 2
    BY <1>1, <1>2, <2>2
  <2>3. QED
    BY <1>2, <2>1, <2>2
<1>6. Types'
  BY <1>1, <1>4, <1>5 DEF IInv, Types, TypeOK
<1>7. \A i \in 1 .. Len(line) : Less(line[i], next) /\ WasSent(line[i], next')
  <2> SUFFICES ASSUME NEW i \in 1 .. Len(line)
               PROVE  Less(line[i], next) /\ WasSent(line[i], next')
    OBVIOUS
  <2>1. WasSent(line[i], next) /\ line[i].unit \in Nat /\ next.unit \in Nat
    <3>1. line[i] \in Pieces
      BY <1>4
    <3>2. QED
      BY <1>2, <3>1 DEF IInv, Tidy, Pieces, Units
  <2>2. CASE line[i].unit < next.unit
    BY <1>5, <2>1, <2>2 DEF Less, WasSent
  <2>3. CASE line[i].unit = next.unit /\ line[i].part = 1 /\ next.part = 2
    BY <1>5, <2>1, <2>3 DEF Less, WasSent
  <2>4. QED
    BY <2>1, <2>2, <2>3 DEF WasSent
<1>8. WasSent(next, next')
  BY <1>2, <1>5 DEF WasSent
<1>9. Tidy(line', next')
  <2>1. \A i \in 1 .. Len(line') : i \in 1 .. Len(line) \/ i = Len(line) + 1
    BY <1>2, <1>4
  <2>2. ASSUME NEW i \in 1 .. Len(line'), NEW j \in 1 .. Len(line'), i < j
        PROVE  Less(line'[i], line'[j])
    <3>1. i \in 1 .. Len(line)
      BY <1>2, <1>4, <2>2
    <3>2. CASE j \in 1 .. Len(line)
      BY <1>4, <2>2, <3>1, <3>2 DEF IInv, Tidy
    <3>3. CASE j = Len(line) + 1
      BY <1>4, <1>7, <3>1, <3>3
    <3>4. QED
      BY <2>1, <3>2, <3>3
  <2>3. ASSUME NEW i \in 1 .. Len(line') PROVE WasSent(line'[i], next')
    BY <1>4, <1>7, <1>8, <2>1
  <2>4. ASSUME NEW i \in 1 .. Len(line'), NEW j \in 1 .. Len(line'), j = i + 1, line'[i].part = 1
        PROVE  line'[j].unit = line'[i].unit /\ line'[j].part = 2
    <3>1. i \in 1 .. Len(line) /\ line'[i] = line[i]
      BY <1>2, <1>4, <2>4
    <3>2. CASE j \in 1 .. Len(line)
      BY <1>4, <2>4, <3>1, <3>2 DEF IInv, Tidy
    <3>3. CASE j = Len(line) + 1
      <4>1. i = Len(line) /\ Len(line) > 0
        BY <1>2, <2>4, <3>1, <3>3
      <4>2. next.unit = line[i].unit /\ next.part = 2
        BY <1>1, <2>4, <3>1, <4>1 DEF IInv, GoesOn
      <4>3. QED
        BY <1>4, <3>1, <3>3, <4>2
    <3>4. QED
      BY <2>1, <3>2, <3>3
  <2>5. QED
    BY <2>2, <2>3, <2>4 DEF Tidy
<1>10. GoesOn'
  BY <1>2, <1>4, <1>5 DEF GoesOn
<1>11. Fresh'
  <2>1. next.unit \in Nat /\ next'.unit \in Nat /\ next.unit <= next'.unit
    BY <1>2, <1>5
  <2>2. \A k \in 1 .. Len(decoded) : decoded[k] < next.unit /\ decoded[k] \in Nat
    BY DEF IInv, Fresh, Types, TypeOK, Units
  <2>3. \A k \in 1 .. Len(decoded) : decoded[k] < next'.unit
    BY <2>1, <2>2
  <2>4. ASSUME pc = "recv" PROVE Behind(decoded, line', 1)
    <3> SUFFICES ASSUME NEW k \in 1 .. Len(decoded), NEW j \in 1 .. Len(line')
                 PROVE  decoded[k] < line'[j].unit
      BY DEF Behind
    <3>1. j \in 1 .. Len(line) \/ j = Len(line) + 1
      BY <1>2, <1>4
    <3>2. CASE j \in 1 .. Len(line)
      BY <1>4, <2>4, <3>2 DEF IInv, Fresh, Behind
    <3>3. CASE j = Len(line) + 1
      BY <1>4, <2>2, <3>3
    <3>4. QED
      BY <3>1, <3>2, <3>3
  <2>5. QED
    BY <1>1, <2>3, <2>4 DEF IInv, Fresh
<1>12. Unconnected' /\ Walked'
  BY <1>1 DEF IInv, Unconnected, Walked, Decoded
<1>13. Spent'
  <2>1. \A m \in misread : m \in Nat /\ UpTo(m, next)
    BY DEF IInv, Spent, Types, TypeOK, Units
  <2>2. \A m \in misread : UpTo(m, next')
    BY <1>2, <1>5, <2>1 DEF UpTo
  <2>3. ASSUME pc = "recv", NEW m \in misread, NEW j \in 1 .. Len(line')
        PROVE  UpTo(m, line'[j])
    <3>1. j \in 1 .. Len(line) \/ j = Len(line) + 1
      BY <1>2, <1>4
    <3>2. CASE j \in 1 .. Len(line)
      BY <1>4, <2>3, <3>2 DEF IInv, Spent
    <3>3. CASE j = Len(line) + 1
      BY <1>4, <2>1, <3>3
    <3>4. QED
      BY <3>1, <3>2, <3>3
  <2>4. QED
    BY <1>1, <2>2, <2>3 DEF IInv, Spent
<1>14. QED
  BY <1>6, <1>9, <1>10, <1>11, <1>12, <1>13 DEF IInv

\* The server goes past what it cannot send.
LEMMA SkipsStep == ASSUME IInv, ServerSkips PROVE IInv'
<1>1. /\ conn # "up" /\ next.unit <= Len(Kind) /\ next' = [unit |-> next.unit + 1, part |-> 1]
      /\ UNCHANGED <<run, pc, acc, off, frames, conn, wire, decoded, misread, received>>
  BY DEF ServerSkips, MoreToSend, NextUnit, local, history
<1>2. /\ next.unit \in 1 .. Len(Kind) + 1 /\ Len(Kind) \in Nat /\ line' = line
      /\ \A i \in 1 .. Len(line) : line[i] \in Pieces
      /\ \A k \in 1 .. Len(decoded) : decoded[k] \in Nat
  <2>1. line' = line
    BY <1>1 DEF line
  <2>2. next.unit \in 1 .. Len(Kind) + 1 /\ \A i \in 1 .. Len(line) : line[i] \in Pieces
    BY Typed DEF IInv
  <2>3. decoded \in Seq(Units)
    BY DEF IInv, Types, TypeOK
  <2>4. \A k \in 1 .. Len(decoded) : decoded[k] \in Nat
    BY <2>3 DEF Units
  <2>5. QED
    BY <2>1, <2>2, <2>4, Kinds
<1>3. next' \in [unit : 1 .. Len(Kind) + 1, part : {1, 2}] /\ next'.unit = next.unit + 1
  BY <1>1, <1>2
<1>4. Types'
  BY <1>1, <1>3 DEF IInv, Types, TypeOK
<1>5. \A i \in 1 .. Len(line) : WasSent(line[i], next')
  <2> SUFFICES ASSUME NEW i \in 1 .. Len(line) PROVE WasSent(line[i], next')
    OBVIOUS
  <2>1. WasSent(line[i], next) /\ line[i].unit \in Nat
    BY <1>2 DEF IInv, Tidy, Pieces, Units
  <2>2. QED
    BY <1>2, <1>3, <2>1 DEF WasSent
<1>6. Tidy(line', next')
  BY <1>2, <1>5 DEF IInv, Tidy
<1>7. GoesOn'
  BY <1>1 DEF GoesOn
<1>8. Fresh'
  BY <1>1, <1>2, <1>3 DEF IInv, Fresh
<1>9. Unconnected' /\ Walked'
  BY <1>1 DEF IInv, Unconnected, Walked, Decoded
<1>10. Spent'
  <2>1. \A m \in misread : m \in Nat /\ UpTo(m, next)
    BY DEF IInv, Spent, Types, TypeOK, Units
  <2>2. \A m \in misread : UpTo(m, next')
    BY <1>2, <1>3, <2>1 DEF UpTo
  <2>3. QED
    BY <1>1, <1>2, <2>2 DEF IInv, Spent
<1>11. QED
  BY <1>4, <1>6, <1>7, <1>8, <1>9, <1>10 DEF IInv

\* Steps of the environment and of the receiver that leave the buffer and the line
\* as they are.
LEMMA QuietStep ==
    ASSUME IInv, ServerCloses \/ Signal \/ TestRun \/ ConnectFails \/ UNCHANGED vars
    PROVE  IInv'
<1>1. /\ UNCHANGED <<acc, off, frames, wire, next, decoded, misread, received>>
      /\ conn' = conn \/ (conn = "up" /\ conn' = "fin")
      /\ run' \in {run, FALSE}
      /\ pc' = pc \/ (pc \in {"loop", "connect"} /\ pc' \in {"loop", "connect", "stopped"})
      /\ pc' = pc \/ conn' = conn
  BY DEF ServerCloses, Signal, TestRun, ConnectFails, vars, local, network, history
<1>2. line' = line
  BY <1>1 DEF line
<1>3. Types'
  BY <1>1 DEF IInv, Types, TypeOK
<1>4. Tidy(line', next') /\ GoesOn'
  BY <1>1, <1>2 DEF IInv, GoesOn
<1>5. Fresh' /\ Spent' /\ Walked'
  BY <1>1, <1>2 DEF IInv, Fresh, Spent, Walked, Decoded
<1>6. Unconnected'
  BY <1>1 DEF IInv, Unconnected
<1>7. QED
  BY <1>3, <1>4, <1>5, <1>6 DEF IInv

\* What was on its way is lost.
LEMMA LosesStep == ASSUME IInv, ConnectionBreaks \/ Close PROVE IInv'
<1>1. /\ UNCHANGED <<run, acc, off, frames, next, decoded, misread, received>> /\ wire' = <<>>
      /\ \/ pc' = pc /\ conn \in {"up", "fin"} /\ conn' = "broken"
         \/ pc = "close" /\ pc' = "loop" /\ conn' = "none"
  BY DEF ConnectionBreaks, Close, local, history
<1>2. /\ acc \in Seq(Pieces) /\ line \in Seq(Pieces) /\ Len(acc) <= Len(line)
      /\ \A i \in 1 .. Len(acc) : i \in 1 .. Len(line) /\ line[i] = acc[i]
  BY Typed DEF IInv
<1>3. <<>> \in Seq(Pieces) /\ line' = acc
  BY <1>1, <1>2, Joined DEF line
<1>4. Types'
  BY <1>1, <1>3 DEF IInv, Types, TypeOK
<1>5. Tidy(line', next')
  BY <1>1, <1>2, <1>3, TidyPart DEF IInv
<1>6. GoesOn'
  BY <1>1 DEF GoesOn
<1>7. Fresh'
  <2>1. pc' = "recv" => Behind(decoded, acc, 1)
    BY <1>1, <1>2 DEF IInv, Fresh, Behind
  <2>2. QED
    BY <1>1, <1>3, <2>1 DEF IInv, Fresh
<1>8. Spent'
  BY <1>1, <1>2, <1>3 DEF IInv, Spent
<1>9. Unconnected' /\ Walked'
  BY <1>1 DEF IInv, Unconnected, Walked, Decoded
<1>10. QED
  BY <1>4, <1>5, <1>6, <1>7, <1>8, <1>9 DEF IInv

\* A new connection brings a new buffer.
LEMMA ConnectStep == ASSUME IInv, ConnectSucceeds PROVE IInv'
<1>1. /\ pc = "connect" /\ conn' = "up" /\ acc' = <<>> /\ pc' = "recv"
      /\ UNCHANGED <<run, off, frames, wire, next, decoded, misread, received>>
  BY DEF ConnectSucceeds, history
<1>2. wire = <<>> /\ <<>> \in Seq(Pieces)
  BY <1>1 DEF IInv, Unconnected
<1>3. line' = <<>>
  BY <1>1, <1>2 DEF line
<1>4. Types'
  BY <1>1, <1>2 DEF IInv, Types, TypeOK
<1>5. Tidy(line', next') /\ GoesOn' /\ Behind(decoded, line', 1)
  BY <1>3 DEF Tidy, GoesOn, Behind
<1>6. Fresh' /\ Spent' /\ Unconnected' /\ Walked'
  BY <1>1, <1>3, <1>5 DEF IInv, Fresh, Spent, Unconnected, Walked
<1>7. QED
  BY <1>4, <1>5, <1>6 DEF IInv

\* recv returns.
LEMMA RecvStep == ASSUME IInv, Recv PROVE IInv'
<1>1. PICK k \in 1 .. Len(wire) :
         /\ acc' = acc \o SubSeq(wire, 1, k)
         /\ wire' = SubSeq(wire, k + 1, Len(wire))
         /\ received' = received \cup {wire[i] : i \in 1 .. k}
  BY DEF Recv
<1>2. pc = "recv" /\ UNCHANGED <<run, pc, off, frames, conn, next, decoded, misread>>
  BY DEF Recv
<1>3. /\ line' = line /\ acc' \in Seq(Pieces) /\ wire' \in Seq(Pieces)
      /\ received' \subseteq Pieces
  <2>1. acc \in Seq(Pieces) /\ wire \in Seq(Pieces) /\ received \subseteq Pieces
    BY DEF IInv, Types, TypeOK
  <2>2. /\ (acc \o SubSeq(wire, 1, k)) \o SubSeq(wire, k + 1, Len(wire)) = acc \o wire
        /\ acc \o SubSeq(wire, 1, k) \in Seq(Pieces)
        /\ SubSeq(wire, k + 1, Len(wire)) \in Seq(Pieces)
        /\ {wire[i] : i \in 1 .. k} \subseteq Pieces
    BY <2>1, Moved
  <2>3. line' = line
    BY <1>1, <2>2 DEF line
  <2>4. acc' \in Seq(Pieces) /\ wire' \in Seq(Pieces) /\ received' \subseteq Pieces
    BY <1>1, <2>1, <2>2
  <2>5. QED
    BY <2>3, <2>4
<1>4. Types'
  BY <1>2, <1>3 DEF IInv, Types, TypeOK
<1>5. Tidy(line', next') /\ GoesOn'
  BY <1>2, <1>3 DEF IInv, GoesOn
<1>6. Fresh' /\ Spent' /\ Unconnected' /\ Walked'
  BY <1>2, <1>3 DEF IInv, Fresh, Spent, Unconnected, Walked
<1>7. QED
  BY <1>4, <1>5, <1>6 DEF IInv

\* The bytes collected are going to be processed, or there are none.
LEMMA RecvEndsStep == ASSUME IInv, RecvEnds PROVE IInv'
<1>1. /\ pc = "recv" /\ UNCHANGED <<run, acc, conn, wire, next, decoded, misread, received>>
      /\ \/ acc = <<>> /\ pc' = "close" /\ UNCHANGED <<off, frames>>
         \/ pc' = "parse" /\ off' = 1 /\ frames' = 0
  BY DEF RecvEnds, network, history
<1>2. /\ line' = line /\ Len(acc) \in Nat /\ Len(Kind) \in Nat
      /\ \A i \in 1 .. Len(acc) : /\ i \in 1 .. Len(line) /\ line[i] = acc[i]
                                  /\ acc[i].unit \in Units
  BY <1>1, Typed, Kinds DEF IInv, line
<1>3. Types'
  BY <1>1, <1>2 DEF IInv, Types, TypeOK
<1>4. Tidy(line', next') /\ GoesOn'
  BY <1>1, <1>2 DEF IInv, GoesOn
<1>5. Fresh'
  <2>1. Behind(decoded, acc, 1)
    BY <1>1, <1>2 DEF IInv, Fresh, Behind
  <2>2. \A j \in 1 .. Len(acc) : 0 < acc[j].unit
    BY <1>2 DEF Units
  <2>3. QED
    BY <1>1, <2>1, <2>2 DEF IInv, Fresh
<1>6. Spent'
  BY <1>1, <1>2 DEF IInv, Spent
<1>7. Unconnected' /\ Walked'
  BY <1>1, <1>2 DEF Unconnected, Walked
<1>8. QED
  BY <1>3, <1>4, <1>5, <1>6, <1>7 DEF IInv

\* What decoding a unit adds.
LEMMA DecodedMore ==
    ASSUME Types, NEW u \in Units, decoded' = Append(decoded, u)
    PROVE  /\ decoded' \in Seq(Units) /\ Decoded \subseteq Decoded' /\ u \in Decoded'
           /\ Len(decoded') = Len(decoded) + 1 /\ Len(decoded) \in Nat
           /\ \A k \in 1 .. Len(decoded') : k \in 1 .. Len(decoded) \/ decoded'[k] = u
           /\ \A k \in 1 .. Len(decoded) : decoded'[k] = decoded[k]
<1>1. decoded \in Seq(Units)
  BY DEF Types, TypeOK
<1>2. /\ decoded' \in Seq(Units) /\ Len(decoded') = Len(decoded) + 1 /\ Len(decoded) \in Nat
      /\ decoded'[Len(decoded) + 1] = u
      /\ \A k \in 1 .. Len(decoded) : k \in 1 .. Len(decoded') /\ decoded'[k] = decoded[k]
  BY <1>1
<1>3. Decoded \subseteq Decoded'
  BY <1>2 DEF Decoded
<1>4. Len(decoded) + 1 \in 1 .. Len(decoded')
  BY <1>2
<1>5. u \in Decoded'
  BY <1>2, <1>4 DEF Decoded
<1>6. \A k \in 1 .. Len(decoded') : k \in 1 .. Len(decoded) \/ decoded'[k] = u
  BY <1>2
<1>7. QED
  BY <1>2, <1>3, <1>5, <1>6

\* The frame at off: its rest follows, both were sent, and none of it has been decoded.
LEMMA FrameAtOff ==
    ASSUME IInv, pc = "parse", WholeFrame
    PROVE  /\ off \in 1 .. Len(acc) /\ off + 1 \in 1 .. Len(acc) /\ Heads(acc[off])
           /\ acc[off].unit \in Units /\ acc[off].unit < next.unit
           /\ acc[off + 1].unit = acc[off].unit /\ acc[off + 1].part = 2
           /\ \A k \in 1 .. Len(decoded) : decoded[k] < acc[off].unit
           /\ \A m \in misread : m < acc[off].unit
           /\ frames < acc[off].unit
<1>1. /\ Len(acc) \in Nat /\ off \in 1 .. Len(acc) + 1
  BY Typed DEF IInv, Types, TypeOK
<1>2. off \in 1 .. Len(acc) /\ off + 1 \in 1 .. Len(acc) /\ Heads(acc[off])
  BY <1>1 DEF WholeFrame, AtFrame, Heads
<1>3. /\ acc[off] = line[off] /\ acc[off + 1] = line[off + 1]
      /\ off \in 1 .. Len(line) /\ off + 1 \in 1 .. Len(line) /\ acc[off].unit \in Units
  BY <1>2, Typed DEF IInv
<1>4. acc[off + 1].unit = acc[off].unit /\ acc[off + 1].part = 2 /\ WasSent(acc[off + 1], next)
  BY <1>2, <1>3 DEF IInv, Tidy, Heads
<1>5. acc[off].unit < next.unit
  BY <1>4 DEF WasSent
<1>6. /\ \A k \in 1 .. Len(decoded) : decoded[k] < acc[off].unit
      /\ \A m \in misread : m < acc[off].unit
      /\ frames < acc[off].unit
  BY <1>1, <1>2 DEF IInv, Fresh, Behind, Spent, UpTo, Heads
<1>7. QED
  BY <1>2, <1>3, <1>4, <1>5, <1>6

\* A frame is decoded.
LEMMA ParseFrameStep == ASSUME IInv, ParseFrame PROVE IInv'
<1> DEFINE u == acc[off].unit
<1>1. /\ pc = "parse" /\ WholeFrame /\ decoded' = Append(decoded, u)
      /\ frames' = frames + 1 /\ off' = off + 2
      /\ UNCHANGED <<run, pc, acc, conn, wire, next, misread, received>>
  BY DEF ParseFrame, network
<1>2. /\ off \in 1 .. Len(acc) /\ off + 1 \in 1 .. Len(acc) /\ Heads(acc[off])
      /\ u \in Units /\ u < next.unit
      /\ acc[off + 1].unit = u /\ acc[off + 1].part = 2
      /\ \A k \in 1 .. Len(decoded) : decoded[k] < u
      /\ frames < u
  BY <1>1, FrameAtOff
<1> HIDE DEF u
<1>3. /\ Types /\ Len(acc) \in Nat /\ Len(Kind) \in Nat /\ frames \in 0 .. Len(Kind)
      /\ u \in 1 .. Len(Kind)
      /\ \A i \in 1 .. Len(acc) : /\ i \in 1 .. Len(line) /\ line[i] = acc[i]
                                  /\ acc[i].unit \in Units /\ acc[i].part \in {1, 2}
  BY <1>2, Typed, Kinds DEF IInv, Types, TypeOK, Units
<1>4. /\ decoded' \in Seq(Units) /\ Decoded \subseteq Decoded' /\ u \in Decoded'
      /\ \A k \in 1 .. Len(decoded') : k \in 1 .. Len(decoded) \/ decoded'[k] = u
      /\ \A k \in 1 .. Len(decoded) : decoded'[k] = decoded[k]
  BY <1>1, <1>2, <1>3, DecodedMore
<1>5. Types'
  <2>1. frames' \in 0 .. Len(Kind) /\ off' \in 1 .. Len(acc) + 1
    BY <1>1, <1>2, <1>3
  <2>2. TypeOK
    BY <1>3 DEF Types
  <2>3. /\ run' \in BOOLEAN
        /\ pc' \in {"loop", "connect", "recv", "parse", "close", "stopped"}
        /\ acc' \in Seq(Pieces) /\ wire' \in Seq(Pieces)
        /\ conn' \in {"none", "up", "fin", "broken"}
        /\ next'.unit \in 1 .. Len(Kind) + 1 /\ next'.part \in {1, 2}
        /\ misread' \subseteq Units /\ received' \subseteq Pieces
    BY ONLY <1>1, <2>2 DEF TypeOK
  <2>4. off' \in 1 .. Len(acc') + 1
    BY ONLY <1>1, <2>1
  <2>5. TypeOK'
    BY ONLY <1>4, <2>1, <2>3, <2>4 DEF TypeOK
  <2>6. next' \in [unit : 1 .. Len(Kind) + 1, part : {1, 2}]
    BY ONLY <1>1, <1>3 DEF Types
  <2>7. QED
    BY <2>5, <2>6 DEF Types
<1>6. Tidy(line', next') /\ GoesOn' /\ Unconnected'
  BY <1>1 DEF IInv, line, GoesOn, Unconnected
<1>7. \A j \in 1 .. Len(acc) : j >= off + 2 => u < acc[j].unit
  <2> SUFFICES ASSUME NEW j \in 1 .. Len(acc), j >= off + 2 PROVE u < acc[j].unit
    OBVIOUS
  <2>1. off + 1 < j
    BY <1>2
  <2>2. Less(acc[off + 1], acc[j])
    BY <1>2, <1>3, <2>1 DEF IInv, Tidy
  <2>3. acc[j].part \in {1, 2}
    BY <1>3
  <2>4. QED
    BY <1>2, <2>2, <2>3 DEF Less
<1>8. Fresh'
  <2>1. \A k \in 1 .. Len(decoded') : decoded'[k] < next.unit
    BY <1>2, <1>4 DEF IInv, Fresh
  <2>2. \A k \in 1 .. Len(decoded') : decoded'[k] <= u /\ decoded'[k] \in Nat
    <3>1. \A k \in 1 .. Len(decoded) : decoded[k] \in Nat
      BY <1>3 DEF Types, TypeOK, Units
    <3>2. QED
      BY <1>2, <1>3, <1>4, <3>1
  <2>3. \A j \in 1 .. Len(acc) : acc[j].unit \in Nat
    BY <1>3 DEF Units
  <2>4. Behind(decoded', acc, off + 2)
    BY <1>3, <1>7, <2>2, <2>3 DEF Behind
  <2>5. \A j \in 1 .. Len(acc) : j >= off + 2 => frames + 1 < acc[j].unit
    <3> SUFFICES ASSUME NEW j \in 1 .. Len(acc), j >= off + 2 PROVE frames + 1 < acc[j].unit
      OBVIOUS
    <3>1. u < acc[j].unit
      BY <1>7
    <3>2. frames \in Nat /\ u \in Nat /\ acc[j].unit \in Nat /\ frames < u
      BY <1>2, <1>3, <2>3
    <3>3. QED
      BY ONLY <3>1, <3>2
  <2>6. frames + 1 # 0
    BY <1>3
  <2>7. QED
    BY <1>1, <2>1, <2>4, <2>5, <2>6 DEF Fresh
<1>9. Walked'
  <2> SUFFICES ASSUME NEW i \in 1 .. Len(acc), NEW j \in 1 .. Len(acc),
                      j = i + 1, Heads(acc[i]), i < off + 2
               PROVE  acc[i].unit \in Decoded'
    BY <1>1 DEF Walked
  <2>1. i < off \/ i = off \/ i = off + 1
    BY <1>2
  <2>2. CASE i < off
    BY <1>1, <1>4, <2>2 DEF IInv, Walked
  <2>3. CASE i = off
    BY <1>4, <2>3 DEF u
  <2>4. CASE i = off + 1
    BY <1>2, <2>4 DEF Heads
  <2>5. QED
    BY <2>1, <2>2, <2>3, <2>4
<1>10. Spent'
  BY <1>1 DEF IInv, Spent
<1>11. QED
  BY <1>5, <1>6, <1>8, <1>9, <1>10 DEF IInv

\* A byte that begins no frame is passed over.
LEMMA ParseResyncStep == ASSUME IInv, ParseResync PROVE IInv'
<1>1. /\ pc = "parse" /\ off <= Len(acc) /\ ~AtFrame /\ off' = off + 1
      /\ UNCHANGED <<run, pc, acc, frames, conn, wire, next, decoded, misread, received>>
  BY DEF ParseResync, network, history
<1>2. Len(acc) \in Nat /\ off \in 1 .. Len(acc)
  <2>1. Len(acc) \in Nat /\ off \in 1 .. Len(acc) + 1
    BY <1>1, Typed DEF IInv, Types, TypeOK
  <2>2. QED
    BY <1>1, <2>1
<1>3. Types'
  <2>1. off' \in 1 .. Len(acc) + 1
    BY <1>1, <1>2
  <2>2. QED
    BY <1>1, <2>1 DEF IInv, Types, TypeOK
<1>4. Tidy(line', next') /\ GoesOn' /\ Unconnected'
  BY <1>1 DEF IInv, line, GoesOn, Unconnected
<1>5. Fresh'
  BY <1>1, <1>2 DEF IInv, Fresh, Behind
<1>6. ~Heads(acc[off])
  BY <1>1 DEF AtFrame, Heads
<1>7. Walked'
  BY <1>1, <1>2, <1>6 DEF IInv, Walked, Decoded
<1>8. Spent'
  BY <1>1 DEF IInv, Spent
<1>9. QED
  BY <1>3, <1>4, <1>5, <1>7, <1>8 DEF IInv

\* A beacon alone in the buffer: it was sent, and none of it has been decoded.
LEMMA BeaconAlone ==
    ASSUME IInv, pc = "parse", frames = 0, LoneBeacon
    PROVE  /\ acc[1].unit \in Units /\ acc[1].unit < next.unit
           /\ \A k \in 1 .. Len(decoded) : decoded[k] < acc[1].unit
           /\ \A m \in misread : m < acc[1].unit
<1>1. /\ 1 \in 1 .. Len(acc) /\ 2 \in 1 .. Len(acc) /\ acc[1].part = 1
      /\ acc[2].unit = acc[1].unit
  BY DEF LoneBeacon
<1>2. /\ acc[1].unit \in Units /\ acc[1] = line[1] /\ acc[2] = line[2]
      /\ 1 \in 1 .. Len(line) /\ 2 \in 1 .. Len(line)
  BY <1>1, Typed DEF IInv
<1>3. acc[2].part = 2 /\ WasSent(acc[2], next)
  BY <1>1, <1>2 DEF IInv, Tidy
<1>4. acc[1].unit < next.unit
  BY <1>1, <1>3 DEF WasSent
<1>5. \A m \in misread : m < acc[1].unit
  BY <1>1 DEF IInv, Spent, UpTo
<1>6. QED
  BY <1>1, <1>2, <1>4, <1>5 DEF IInv, Fresh, Behind

\* Pieces taken for a beacon: their units come after those decoded, and all of what
\* the server still sends comes after the pieces.
LEMMA PiecesMisread ==
    ASSUME IInv, pc = "parse", frames = 0, NEW j \in 1 .. Len(acc)
    PROVE  /\ acc[j].unit \in Units /\ UpTo(acc[j].unit, next)
           /\ \A k \in 1 .. Len(decoded) : decoded[k] < acc[j].unit
<1>1. acc[j].unit \in Units /\ acc[j] = line[j] /\ j \in 1 .. Len(line)
  BY Typed DEF IInv
<1>2. WasSent(acc[j], next)
  BY <1>1 DEF IInv, Tidy
<1>3. UpTo(acc[j].unit, next)
  BY <1>2 DEF WasSent, UpTo
<1>4. QED
  BY <1>1, <1>3 DEF IInv, Fresh, Behind

\* The walk over the buffer ends.
LEMMA ParseEndsStep == ASSUME IInv, ParseEnds PROVE IInv'
<1>1. /\ pc = "parse" /\ (off > Len(acc) \/ (AtFrame /\ ~WholeFrame))
      /\ pc' = "close" /\ UNCHANGED <<run, acc, off, frames, conn, wire, next, received>>
      /\ \/ decoded' = decoded
         \/ frames = 0 /\ LoneBeacon /\ decoded' = Append(decoded, acc[1].unit)
      /\ \/ misread' = misread
         \/ frames = 0 /\ misread' = misread \cup {acc[i].unit : i \in 1 .. Len(acc)}
  BY DEF ParseEnds, BeaconByLength, local, network
<1>2. Types /\ Len(acc) \in Nat /\ off \in 1 .. Len(acc) + 1
  BY <1>1, Typed DEF IInv, Types, TypeOK
<1>3. /\ decoded' \in Seq(Units) /\ Decoded \subseteq Decoded'
      /\ \A k \in 1 .. Len(decoded') : decoded'[k] < next.unit
  <2>1. CASE decoded' = decoded
    BY <2>1 DEF IInv, Types, TypeOK, Fresh, Decoded
  <2>2. CASE frames = 0 /\ LoneBeacon /\ decoded' = Append(decoded, acc[1].unit)
    <3>1. acc[1].unit \in Units /\ acc[1].unit < next.unit
      BY <1>1, <2>2, BeaconAlone
    <3>2. QED
      BY <1>2, <2>2, <3>1, DecodedMore DEF IInv, Fresh
  <2>3. QED
    BY <1>1, <2>1, <2>2
<1>4. misread' \subseteq Units /\ \A m \in misread' : UpTo(m, next)
  <2>1. misread \subseteq Units /\ \A m \in misread : UpTo(m, next)
    BY DEF IInv, Types, TypeOK, Spent
  <2>2. CASE frames = 0 /\ misread' = misread \cup {acc[i].unit : i \in 1 .. Len(acc)}
    BY <1>1, <2>1, <2>2, PiecesMisread
  <2>3. QED
    BY <1>1, <2>1, <2>2
<1>5. Types'
  BY <1>1, <1>2, <1>3, <1>4 DEF Types, TypeOK
<1>6. Tidy(line', next') /\ GoesOn' /\ Unconnected'
  BY <1>1 DEF IInv, line, GoesOn, Unconnected
<1>7. Fresh' /\ Spent'
  BY <1>1, <1>3, <1>4 DEF Fresh, Spent
<1>8. Walked'
  <2> SUFFICES ASSUME NEW i \in 1 .. Len(acc), NEW j \in 1 .. Len(acc), j = i + 1, Heads(acc[i])
               PROVE  acc[i].unit \in Decoded'
    BY <1>1 DEF Walked
  <2>1. i < off
    BY <1>1, <1>2 DEF WholeFrame
  <2>2. QED
    BY <1>1, <1>3, <2>1 DEF IInv, Walked
<1>9. QED
  BY <1>5, <1>6, <1>7, <1>8 DEF IInv

-----------------------------------------------------------------------------
(***************************************************************************)
(* The specification.                                                      *)
(***************************************************************************)

LEMMA Start == ASSUME Init PROVE IInv
<1>1. /\ run = TRUE /\ pc = "loop" /\ acc = <<>> /\ off = 1 /\ frames = 0 /\ conn = "none"
      /\ wire = <<>> /\ next = [unit |-> 1, part |-> 1] /\ decoded = <<>>
      /\ misread = {} /\ received = {}
  BY DEF Init
<1>2. line = <<>>
  BY <1>1 DEF line
<1>3. Types
  BY <1>1, Kinds DEF Types, TypeOK
<1>4. Tidy(line, next) /\ GoesOn
  BY <1>1, <1>2 DEF Tidy, GoesOn
<1>5. Fresh /\ Spent /\ Unconnected /\ Walked
  BY <1>1 DEF Fresh, Spent, Unconnected, Walked
<1>6. QED
  BY <1>3, <1>4, <1>5 DEF IInv

LEMMA NextStep == ASSUME IInv, [Next]_vars PROVE IInv'
  BY SendsStep, SkipsStep, QuietStep, LosesStep, ConnectStep, RecvStep, RecvEndsStep,
     ParseFrameStep, ParseResyncStep, ParseEndsStep DEF Next, Environment, Receiver

\* The invariant holds in every reachable state.
THEOREM Invariance == Spec => []IInv
<1>1. Init => IInv
  BY Start
<1>2. IInv /\ [Next]_vars => IInv'
  BY NextStep
<1>3. QED
  BY <1>1, <1>2, PTL DEF Spec

\* The types of the variables.
THEOREM TypeCorrect == Spec => []TypeOK
<1>1. IInv => TypeOK
  BY DEF IInv, Types
<1>2. QED
  BY <1>1, Invariance, PTL

\* start_recv_tcp and parse_stream: every frame a connection has brought as a whole
\* has been decoded when the connection is closed, whatever else came with it.
THEOREM DecodesWholeFrames == Spec => []WholeFramesDecoded
<1>1. IInv => WholeFramesDecoded
  <2> SUFFICES ASSUME IInv, pc = "close", NEW u \in Units, Kind[u] = "frame",
                      NEW i \in 1 .. Len(acc), acc[i] = [unit |-> u, part |-> 1],
                      NEW j \in 1 .. Len(acc), acc[j] = [unit |-> u, part |-> 2]
               PROVE  u \in Decoded
    <3>1. 1 \in {1, 2} /\ 2 \in {1, 2}
      OBVIOUS
    <3>2. QED
      BY <3>1 DEF WholeFramesDecoded
  <2>1. /\ Len(acc) \in Nat
        /\ \A k \in 1 .. Len(acc) : /\ k \in 1 .. Len(line) /\ line[k] = acc[k]
                                    /\ acc[k].unit \in Units /\ acc[k].part \in {1, 2}
    BY Typed DEF IInv
  <2>2. \A k, m \in 1 .. Len(acc) : k < m => Less(acc[k], acc[m])
    BY <2>1 DEF IInv, Tidy
  <2>3. acc[i].unit = u /\ acc[i].part = 1 /\ acc[j].unit = u /\ acc[j].part = 2 /\ u \in Nat
    BY DEF Units
  <2>4. i < j
    <3>1. ~(j < i)
      BY <2>2, <2>3 DEF Less
    <3>2. i # j
      BY <2>3
    <3>3. QED
      BY <2>1, <3>1, <3>2
  <2>5. j = i + 1
    <3> SUFFICES ASSUME i + 1 < j PROVE FALSE
      BY <2>1, <2>4
    <3>1. i + 1 \in 1 .. Len(acc) /\ i < i + 1
      BY <2>1
    <3>2. Less(acc[i], acc[i + 1]) /\ Less(acc[i + 1], acc[j])
      BY <2>2, <3>1
    <3>3. acc[i + 1].unit \in Nat /\ acc[i + 1].part \in {1, 2}
      BY <2>1, <3>1 DEF Units
    <3>4. QED
      BY <2>3, <3>2, <3>3 DEF Less
  <2>6. QED
    BY <2>3, <2>5 DEF IInv, Walked, Heads
<1>2. QED
  BY <1>1, Invariance, PTL

\* The receiving side: a unit is decoded at most once and in the order of sending,
\* across connections that are cut, time out or are made again, and bytes that only
\* had the length of a beacon are of units that are never decoded as what they are.
THEOREM Implements == Spec => ImplementsFeed
<1>1. Init => Feed!Init
  BY DEF Init, Feed!Init
<1>2. IInv /\ [Next]_vars => [Feed!Next]_(Feed!vars)
  <2> SUFFICES ASSUME IInv, [Next]_vars PROVE [Feed!Next]_(Feed!vars)
    OBVIOUS
  <2>1. next.unit \in 1 .. Len(Kind) + 1 /\ next.part \in {1, 2} /\ Len(Kind) \in Nat
        /\ next \in [unit : 1 .. Len(Kind) + 1, part : {1, 2}]
    BY Kinds DEF IInv, Types
  <2>2. CASE ServerSends \/ ServerSkips
    <3>1. /\ UNCHANGED <<decoded, misread>>
          /\ next'.unit = next.unit \/ next'.unit = next.unit + 1
      BY <2>1, <2>2 DEF ServerSends, ServerSkips, NextUnit, local, history
    <3>2. (next'.unit - 1 = next.unit - 1) \/ (next'.unit - 1 = next.unit - 1 + 1)
      BY <2>1, <3>1
    <3>3. QED
      BY <3>1, <3>2 DEF Feed!Next, Feed!Send, Feed!vars
  <2>3. ASSUME NEW u \in Units, u < next.unit, \A k \in 1 .. Len(decoded) : decoded[k] < u,
               \A m \in misread : m < u,
               decoded' = Append(decoded, u), UNCHANGED <<next, misread>>
        PROVE  Feed!Next
    <3>1. u \in 1 .. next.unit - 1
      BY <2>1, <2>3 DEF Units
    <3>2. Feed!Decode(u)
      BY <2>3, <3>1 DEF Feed!Decode, Feed!AfterDecoded
    <3>3. QED
      BY <3>1, <3>2 DEF Feed!Next
  <2>4. CASE ParseFrame
    BY <2>3, <2>4, FrameAtOff DEF ParseFrame, network
  <2>5. CASE ParseEnds
    <3>1. pc = "parse" /\ next' = next /\ BeaconByLength
      BY <2>5 DEF ParseEnds, network
    <3>2. CASE UNCHANGED <<decoded, misread>>
      BY <3>1, <3>2 DEF Feed!vars
    <3>3. CASE /\ frames = 0 /\ LoneBeacon
               /\ decoded' = Append(decoded, acc[1].unit)
               /\ UNCHANGED misread
      BY <2>3, <3>1, <3>3, BeaconAlone
    <3>4. CASE /\ frames = 0
               /\ misread' = misread \cup {acc[i].unit : i \in 1 .. Len(acc)}
               /\ UNCHANGED decoded
      <4> DEFINE units == {acc[i].unit : i \in 1 .. Len(acc)}
      <4>1. \A j \in 1 .. Len(acc) :
               /\ acc[j].unit \in Units /\ acc[j].unit <= next.unit
               /\ \A k \in 1 .. Len(decoded) : decoded[k] < acc[j].unit
        BY <2>1, <3>1, <3>4, PiecesMisread DEF UpTo, Units
      <4>2. \A j \in 1 .. Len(acc) : acc[j].unit \in 1 .. next.unit - 1 + 1
        BY <2>1, <4>1 DEF Units
      <4>3. units \in SUBSET (1 .. next.unit - 1 + 1)
        BY <4>2
      <4>4. Feed!Misread(units)
        BY <3>1, <3>4, <4>1 DEF Feed!Misread, Feed!AfterDecoded
      <4>5. QED
        BY <4>3, <4>4 DEF Feed!Next
    <3>5. QED
      BY <3>1, <3>2, <3>3, <3>4 DEF BeaconByLength
  <2>6. CASE \/ ServerCloses \/ ConnectionBreaks \/ Signal \/ TestRun \/ ConnectFails
             \/ ConnectSucceeds \/ Recv \/ RecvEnds \/ ParseResync \/ Close
             \/ UNCHANGED vars
    <3>1. UNCHANGED <<next, decoded, misread>>
      BY <2>6 DEF ServerCloses, ConnectionBreaks, Signal, TestRun, ConnectFails, ConnectSucceeds,
                  Recv, RecvEnds, ParseResync, Close, vars, network, history
    <3>2. QED
      BY <3>1 DEF Feed!vars
  <2>7. QED
    BY <2>2, <2>4, <2>5, <2>6 DEF Next, Environment, Receiver
<1>3. QED
  BY <1>1, <1>2, Invariance, PTL DEF Spec, ImplementsFeed, Feed!Spec

-----------------------------------------------------------------------------
(***************************************************************************)
(* What follows from that: what FrameFeed ensures of itself.               *)
(***************************************************************************)

Announced == next.unit - 1

FeedInv == Announced \in Nat /\ decoded \in Seq(Nat) /\ Feed!OnceInOrder

LEMMA FeedOrders == Feed!Spec => []Feed!OnceInOrder
<1>1. Feed!Init => FeedInv
  BY DEF Feed!Init, FeedInv, Announced, Feed!OnceInOrder
<1>2. FeedInv /\ [Feed!Next]_(Feed!vars) => FeedInv'
  <2> SUFFICES ASSUME FeedInv, [Feed!Next]_(Feed!vars) PROVE FeedInv'
    OBVIOUS
  <2>1. /\ Announced \in Nat /\ decoded \in Seq(Nat) /\ Len(decoded) \in Nat
        /\ \A i \in 1 .. Len(decoded) : decoded[i] \in 1 .. Announced
        /\ \A i, j \in 1 .. Len(decoded) : i < j => decoded[i] < decoded[j]
        /\ \A i \in 1 .. Len(decoded) : decoded[i] \notin misread
    BY DEF FeedInv, Feed!OnceInOrder, Announced
  <2>2. CASE Feed!Send
    <3>1. Announced' = Announced + 1 /\ UNCHANGED <<decoded, misread>>
      BY <2>2 DEF Feed!Send, Announced
    <3> HIDE DEF Announced
    <3>2. /\ Announced' \in Nat
          /\ \A i \in 1 .. Len(decoded') : decoded'[i] \in 1 .. Announced'
      BY <2>1, <3>1
    <3>3. QED
      BY <2>1, <3>1, <3>2 DEF FeedInv, Feed!OnceInOrder, Announced
  <2>3. CASE \E u \in 1 .. Announced : Feed!Decode(u)
    <3>1. PICK u \in 1 .. Announced : Feed!Decode(u)
      BY <2>3
    <3>2. /\ Announced' = Announced /\ decoded' = Append(decoded, u)
          /\ \A i \in 1 .. Len(decoded) : decoded[i] < u
          /\ misread' = misread /\ \A m \in misread : m < u
      BY <3>1 DEF Feed!Decode, Feed!AfterDecoded, Announced
    <3> HIDE DEF Announced
    <3>3. u \in Nat
      BY <2>1
    <3>4. /\ decoded' \in Seq(Nat) /\ Len(decoded') = Len(decoded) + 1
          /\ decoded'[Len(decoded) + 1] = u
          /\ \A i \in 1 .. Len(decoded) : decoded'[i] = decoded[i]
      BY <2>1, <3>2, <3>3
    <3>5. \A i \in 1 .. Len(decoded') : decoded'[i] \in 1 .. Announced'
      BY <2>1, <3>2, <3>4
    <3>6. \A i, j \in 1 .. Len(decoded') : i < j => decoded'[i] < decoded'[j]
      <4> SUFFICES ASSUME NEW i \in 1 .. Len(decoded'), NEW j \in 1 .. Len(decoded'), i < j
                   PROVE  decoded'[i] < decoded'[j]
        OBVIOUS
      <4>1. i \in 1 .. Len(decoded) /\ (j \in 1 .. Len(decoded) \/ j = Len(decoded) + 1)
        <5> DEFINE m == Len(decoded)
                   n == Len(decoded')
        <5>1. m \in Nat /\ n = m + 1
          BY <2>1, <3>4
        <5> HIDE DEF m, n
        <5>2. i \in 1 .. n /\ j \in 1 .. n
          BY DEF n
        <5>3. i \in 1 .. m /\ (j \in 1 .. m \/ j = m + 1)
          BY <5>1, <5>2
        <5>4. QED
          BY <5>3 DEF m
      <4>2. CASE j \in 1 .. Len(decoded)
        BY <2>1, <3>4, <4>1, <4>2
      <4>3. CASE j = Len(decoded) + 1
        BY <3>2, <3>4, <4>1, <4>3
      <4>4. QED
        BY <4>1, <4>2, <4>3
    <3>7. \A i \in 1 .. Len(decoded') : decoded'[i] \notin misread'
      <4>1. u \notin misread
        BY <3>2, <3>3
      <4>2. \A i \in 1 .. Len(decoded') : i \in 1 .. Len(decoded) \/ i = Len(decoded) + 1
        BY <2>1, <3>4
      <4>3. QED
        BY <2>1, <3>2, <3>4, <4>1, <4>2
    <3>8. QED
      BY <2>1, <3>2, <3>4, <3>5, <3>6, <3>7 DEF FeedInv, Feed!OnceInOrder, Announced
  <2>4. CASE \E units \in SUBSET (1 .. Announced + 1) : Feed!Misread(units)
    <3>1. PICK units \in SUBSET (1 .. Announced + 1) : Feed!Misread(units)
      BY <2>4
    <3>2. /\ Announced' = Announced /\ decoded' = decoded /\ misread' = misread \cup units
          /\ \A u \in units, i \in 1 .. Len(decoded) : decoded[i] < u
      BY <3>1 DEF Feed!Misread, Feed!AfterDecoded, Announced
    <3>3. \A i \in 1 .. Len(decoded) : decoded[i] \notin units
      BY <2>1, <3>2
    <3> HIDE DEF Announced
    <3>4. QED
      BY <2>1, <3>2, <3>3 DEF FeedInv, Feed!OnceInOrder, Announced
  <2>5. CASE UNCHANGED Feed!vars
    BY <2>5 DEF Feed!vars, FeedInv, Feed!OnceInOrder, Announced
  <2>6. QED
    BY <2>2, <2>3, <2>4, <2>5 DEF Feed!Next, Announced
<1>3. FeedInv => Feed!OnceInOrder
  BY DEF FeedInv
<1>4. QED
  BY <1>1, <1>2, <1>3, PTL DEF Feed!Spec

\* Whatever start_recv_tcp is sent, in whatever pieces and over however many connections:
\* it decodes what was sent, nothing twice, nothing after what was sent later, and
\* nothing of which it has taken, or takes, bytes for a beacon.
THEOREM DecodesOnceInOrder == Spec => []Feed!OnceInOrder
  BY Implements, FeedOrders, PTL DEF ImplementsFeed
=============================================================================
