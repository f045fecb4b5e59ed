-------------------------- MODULE ImageExtractProofs --------------------------
(***************************************************************************)
(* Proofs about ImageExtract for any number of calls, packets and seconds, *)
(* any failures and kills: the variables keep their types, the call closes *)
(* the shared object, an image file ends with its image, the buffer        *)
(* assembled and the flag started agree with the file, and the report      *)
(* names the sequence counts that are missing.                             *)
(*                                                                         *)
(* What a file will look like when it is published depends on where the    *)
(* walk is: between packets an open file holds nothing that ends an image  *)
(* (Clean), a standalone image finds its file empty, and only on the way   *)
(* to finish() may the file end in a last packet (OpenInv).                *)
(*                                                                         *)
(* The report is about neighbours in the sorted list of counts.  That such *)
(* a list exists follows from the one of a set with one element less, that *)
(* no count is seen between neighbours from their order, and that a count  *)
(* which is missing lies between two neighbours from the first element of  *)
(* the list that is not below it.                                          *)
(***************************************************************************)
EXTENDS ImageExtract, FiniteSetTheorems, TLAPS

Contents == Seq(Packets)
Files    == [B!Seconds -> Contents \cup {NoFile}]

\* Nothing follows the end of an image, and a standalone image is alone.
Ends(c) ==
    \A i, j \in 1 .. Len(c) :
        i < j => /\ c[i].flags \notin {"LAST", "STANDALONE"}
                 /\ c[j].flags # "STANDALONE"

\* No packet of c ends an image.
Clean(c) == \A i \in 1 .. Len(c) : c[i].flags \notin {"LAST", "STANDALONE"}

Types ==
    /\ images \in Files /\ parts \in Files /\ now \in B!Seconds
    /\ streamAcc = <<>>
    /\ ofs \in {"closed", "good", "bad"}
    /\ pc \in {"idle", "next", "finishOpen", "start", "append", "finish", "report"}
    /\ pc \in {"finishOpen", "start", "append", "finish"} => pkt \in Packets
    /\ started \in BOOLEAN /\ intact \in BOOLEAN

OpenInv ==
    ofs # "closed" =>
        /\ tmpPath \in B!Seconds /\ finalPath = tmpPath
        /\ parts[tmpPath] \in Contents /\ Ends(parts[tmpPath])
        /\ pc \in {"next", "finishOpen"} => Clean(parts[tmpPath])
        /\ pc = "append" => IF pkt.flags = "STANDALONE" THEN parts[tmpPath] = <<>>
                                                        ELSE Clean(parts[tmpPath])

ClosedInv == pc \in {"idle", "start", "report"} => ofs = "closed"

ImagesEnd == \A s \in B!Seconds : images[s] # NoFile => Ends(images[s])

\* A standalone image in the middle of another is what intact excludes; what else
\* goes to finish() is a last packet.
FlagsInv ==
    /\ pc \in {"finishOpen", "start", "append", "finish"} /\ started /\ intact
          => pkt.flags # "STANDALONE"
    /\ pc = "finish" => pkt.flags \in {"LAST", "STANDALONE"}

IInv ==
    /\ Types /\ OpenInv /\ ClosedInv /\ ImagesEnd /\ FlagsInv
    /\ AssembledIsRecorded /\ StartedIsOpen

-----------------------------------------------------------------------------
(***************************************************************************)
(* Contents of files.                                                      *)
(***************************************************************************)

LEMMA EmptyFile == <<>> \in Contents /\ Ends(<<>>) /\ Clean(<<>>)
  BY DEF Contents, Ends, Clean

\* A part of a file that ends with its image does so too.
LEMMA PrefixEnds ==
    ASSUME NEW c \in Contents, Ends(c), NEW p \in B!Prefixes(c)
    PROVE  p \in Contents /\ Ends(p)
<1>1. PICK k \in 0 .. Len(c) : p = SubSeq(c, 1, k)
  BY DEF B!Prefixes, B!Prefix
<1>2. /\ p \in Seq(Packets) /\ Len(p) = k /\ k <= Len(c)
      /\ \A i \in 1 .. k : i \in 1 .. Len(c) /\ p[i] = c[i]
  BY <1>1 DEF Contents
<1>3. QED
  BY <1>2 DEF Contents, Ends

\* What may be appended to a file.
LEMMA AppendEnds ==
    ASSUME NEW c \in Contents, NEW k \in Packets,
           c = <<>> \/ (Clean(c) /\ k.flags # "STANDALONE")
    PROVE  /\ Append(c, k) \in Contents /\ Ends(Append(c, k))
           /\ k.flags \notin {"LAST", "STANDALONE"} => Clean(Append(c, k))
<1>1. /\ Append(c, k) \in Seq(Packets) /\ Len(Append(c, k)) = Len(c) + 1 /\ Len(c) \in Nat
      /\ Append(c, k)[Len(c) + 1] = k
      /\ \A i \in 1 .. Len(c) : Append(c, k)[i] = c[i]
  BY DEF Contents
<1>2. \A i \in 1 .. Len(Append(c, k)) : i \in 1 .. Len(c) \/ i = Len(c) + 1
  BY <1>1
<1>3. Clean(c)
  BY EmptyFile
<1>4. Ends(Append(c, k))
  <2> SUFFICES ASSUME NEW i \in 1 .. Len(Append(c, k)), NEW j \in 1 .. Len(Append(c, k)), i < j
               PROVE  /\ Append(c, k)[i].flags \notin {"LAST", "STANDALONE"}
                      /\ Append(c, k)[j].flags # "STANDALONE"
    BY DEF Ends
  <2>1. i \in 1 .. Len(c) /\ c # <<>>
    BY <1>1
  <2>2. QED
    BY <1>1, <1>2, <1>3, <2>1 DEF Clean
<1>5. k.flags \notin {"LAST", "STANDALONE"} => Clean(Append(c, k))
  BY <1>1, <1>2, <1>3 DEF Clean
<1>6. QED
  BY <1>1, <1>4, <1>5 DEF Contents

LEMMA Replaced ==
    ASSUME NEW d \in Files, NEW s \in B!Seconds, NEW c \in Contents \cup {NoFile}
    PROVE  [d EXCEPT ![s] = c] \in Files
  BY DEF Files

\* Putting a file that ends with its image, or none, under one of the names.
LEMMA Published ==
    ASSUME Types, ImagesEnd, NEW s \in B!Seconds, NEW c \in Contents \cup {NoFile},
           c = NoFile \/ Ends(c), images' = [images EXCEPT ![s] = c]
    PROVE  images' \in Files /\ ImagesEnd'
<1>1. images \in Files /\ images' \in Files
  BY Replaced DEF Types
<1>2. images'[s] = c /\ \A t \in B!Seconds \ {s} : images'[t] = images[t]
  BY <1>1 DEF Files
<1>3. QED
  BY <1>1, <1>2 DEF ImagesEnd

-----------------------------------------------------------------------------
(***************************************************************************)
(* The calls on the object.                                                *)
(***************************************************************************)

\* finish() closes the file, and what it publishes ends with its image.
LEMMA Finished ==
    ASSUME IInv, B!Finish
    PROVE  /\ ofs' = "closed" /\ streamAcc' = <<>>
           /\ images' \in Files /\ parts' \in Files /\ ImagesEnd'
<1>1. Types /\ ImagesEnd /\ images \in Files /\ parts \in Files
  BY DEF IInv, Types
<1>2. streamAcc' = <<>>
  BY <1>1 DEF B!Finish, Types
<1>3. CASE ofs = "closed"
  BY <1>1, <1>2, <1>3 DEF B!Finish, ImagesEnd
<1>4. CASE ofs # "closed"
  <2>1. /\ tmpPath \in B!Seconds /\ finalPath = tmpPath
        /\ parts[tmpPath] \in Contents /\ Ends(parts[tmpPath])
    BY <1>4 DEF IInv, OpenInv
  <2>2. PICK content \in B!Flushed :
           \/ /\ images' = [images EXCEPT ![finalPath] = content]
              /\ parts' = [parts EXCEPT ![tmpPath] = NoFile]
           \/ /\ \E copy \in B!Copied(content) : images' = [images EXCEPT ![finalPath] = copy]
              /\ \/ parts' = [parts EXCEPT ![tmpPath] = NoFile]
                 \/ parts' = [parts EXCEPT ![tmpPath] = content]
    BY <1>4 DEF B!Finish
  <2>3. content \in Contents /\ Ends(content)
    BY <2>1, <2>2, PrefixEnds DEF B!Flushed
  <2>4. parts' \in Files
    BY <1>1, <2>1, <2>2, <2>3, Replaced
  <2>5. ASSUME NEW copy \in B!Copied(content)
        PROVE  copy \in Contents \cup {NoFile} /\ (copy = NoFile \/ Ends(copy))
    <3>1. images[finalPath] \in Contents \cup {NoFile}
          /\ (images[finalPath] = NoFile \/ Ends(images[finalPath]))
      BY <1>1, <2>1 DEF Files, ImagesEnd
    <3>2. QED
      BY <2>3, <2>5, <3>1, PrefixEnds DEF B!Copied
  <2>6. PICK c \in Contents \cup {NoFile} :
           (c = NoFile \/ Ends(c)) /\ images' = [images EXCEPT ![tmpPath] = c]
    BY <2>1, <2>2, <2>3, <2>5
  <2>7. images' \in Files /\ ImagesEnd'
    BY <1>1, <2>1, <2>6, Published
  <2>8. QED
    BY <1>2, <1>4, <2>4, <2>7 DEF B!Finish
<1>5. QED
  BY <1>3, <1>4

\* start_new(), called with no file open, leaves a new empty file or none.
LEMMA Started ==
    ASSUME IInv, B!StartNew, ofs = "closed"
    PROVE  /\ streamAcc' = <<>> /\ images' = images /\ parts' \in Files
           /\ \/ ofs' = "closed"
              \/ ofs' = "good" /\ tmpPath' = now /\ finalPath' = now /\ parts'[now] = <<>>
<1>1. parts \in Files /\ now \in B!Seconds /\ streamAcc = <<>>
  BY DEF IInv, Types
<1>2. \/ parts' = [parts EXCEPT ![now] = <<>>] /\ ofs' = "good" /\ tmpPath' = now /\ finalPath' = now
      \/ parts' = parts /\ ofs' = "closed"
  BY DEF B!StartNew
<1>3. ASSUME parts' = [parts EXCEPT ![now] = <<>>]
      PROVE  parts' \in Files /\ parts'[now] = <<>>
  BY <1>1, <1>3, EmptyFile, Replaced DEF Files
<1>4. streamAcc' = <<>> /\ images' = images
  BY <1>1 DEF B!StartNew
<1>5. QED
  BY <1>1, <1>2, <1>3, <1>4

\* append() adds the packet to the open file, or changes nothing but the state of
\* the stream.
LEMMA Appended ==
    ASSUME IInv, B!AppendData(pkt), pc = "append", Records(pkt)
    PROVE  /\ streamAcc' = <<>> /\ images' = images /\ tmpPath' = tmpPath /\ finalPath' = finalPath
           /\ \/ ofs = "good" /\ ofs' = "good" /\ parts' = [parts EXCEPT ![tmpPath] = Append(parts[tmpPath], pkt)]
              \/ parts' = parts /\ (ofs = "closed" <=> ofs' = "closed") /\ ofs' \in {"closed", "good", "bad"}
  BY DEF IInv, Types, B!AppendData

\* A kill leaves files that end with their image, or parts of them.
LEMMA Killed ==
    ASSUME IInv, B!Crash
    PROVE  /\ ofs' = "closed" /\ streamAcc' = <<>>
           /\ images' \in Files /\ parts' \in Files /\ ImagesEnd'
<1>1. Types /\ ImagesEnd /\ images \in Files /\ parts \in Files /\ streamAcc = <<>>
  BY DEF IInv, Types
<1>2. ofs' = "closed" /\ streamAcc' = <<>> /\ images' \in B!CrashedImages /\ parts' \in B!CrashedParts
  BY DEF B!Crash, B!FreshObject
<1>3. CASE ofs = "closed"
  BY <1>1, <1>2, <1>3 DEF B!CrashedImages, B!CrashedParts, ImagesEnd
<1>4. CASE ofs # "closed"
  <2>1. /\ tmpPath \in B!Seconds /\ finalPath = tmpPath
        /\ parts[tmpPath] \in Contents /\ Ends(parts[tmpPath])
    BY <1>4 DEF IInv, OpenInv
  <2>2. PICK p \in B!Prefixes(parts[tmpPath]) : parts' = [parts EXCEPT ![tmpPath] = p]
    BY <1>2, <1>4 DEF B!CrashedParts
  <2>3. parts' \in Files
    BY <1>1, <2>1, <2>2, PrefixEnds, Replaced
  <2>4. \/ images' = images
        \/ \E c \in B!Prefixes(parts[tmpPath]) \cup {NoFile} : images' = [images EXCEPT ![tmpPath] = c]
    BY <1>1, <1>2, <2>1 DEF B!CrashedImages
  <2>5. CASE images' = images
    BY <1>1, <1>2, <2>3, <2>5 DEF ImagesEnd
  <2>6. ASSUME NEW c \in B!Prefixes(parts[tmpPath]) \cup {NoFile}, images' = [images EXCEPT ![tmpPath] = c]
        PROVE  images' \in Files /\ ImagesEnd'
    <3>1. c \in Contents \cup {NoFile} /\ (c = NoFile \/ Ends(c))
      BY <2>1, PrefixEnds
    <3>2. QED
      BY <1>1, <2>1, <2>6, <3>1, Published
  <2>7. QED
    BY <1>2, <2>3, <2>4, <2>5, <2>6
<1>5. QED
  BY <1>3, <1>4

-----------------------------------------------------------------------------
(***************************************************************************)
(* The inductive invariant.                                                *)
(***************************************************************************)

LEMMA InitIInv == Init => IInv
<1> SUFFICES ASSUME Init PROVE IInv
  OBVIOUS
<1> USE DEF Init, B!Init
<1>1. now \in B!Seconds
  BY ImageExtractAssumption DEF B!Seconds
<1>3. Types
  BY <1>1 DEF Types, Files
<1>4. OpenInv /\ ClosedInv /\ ImagesEnd /\ FlagsInv
  BY DEF OpenInv, ClosedInv, ImagesEnd, FlagsInv
<1>5. AssembledIsRecorded /\ StartedIsOpen
  BY DEF AssembledIsRecorded, StartedIsOpen
<1>6. QED
  BY <1>3, <1>4, <1>5 DEF IInv

LEMMA CallIInv == IInv /\ CallAssemble => IInv'
<1> SUFFICES ASSUME IInv, CallAssemble PROVE IInv'
  OBVIOUS
<1> USE DEF CallAssemble, object
<1>1. ofs = "closed"
  BY DEF IInv, ClosedInv
<1>2. Types'
  BY DEF IInv, Types
<1>3. OpenInv' /\ ClosedInv' /\ ImagesEnd'
  BY <1>1 DEF IInv, OpenInv, ClosedInv, ImagesEnd
<1>4. FlagsInv' /\ AssembledIsRecorded' /\ StartedIsOpen'
  BY DEF FlagsInv, AssembledIsRecorded, StartedIsOpen
<1>5. QED
  BY <1>2, <1>3, <1>4 DEF IInv

LEMMA NextPacketIInv == IInv /\ NextPacket => IInv'
<1> SUFFICES ASSUME IInv, NextPacket PROVE IInv'
  OBVIOUS
<1> USE DEF NextPacket, object
<1>1. PICK k \in Packets :
         \/ UNCHANGED <<pc, pkt, intact>>
         \/ /\ pkt' = k
            /\ pc' = IF Opens(k) THEN "finishOpen" ELSE "append"
            /\ intact' = (intact /\ ~(started /\ k.flags = "STANDALONE"))
  OBVIOUS
<1>2. Types'
  BY <1>1 DEF IInv, Types
<1>3. OpenInv'
  <2>1. ofs # "closed" => /\ tmpPath \in B!Seconds /\ finalPath = tmpPath
                          /\ parts[tmpPath] \in Contents /\ Ends(parts[tmpPath])
                          /\ Clean(parts[tmpPath])
    BY DEF IInv, OpenInv
  <2>2. pc' = "append" => pkt'.flags # "STANDALONE"
    BY <1>1 DEF Opens
  <2>3. QED
    BY <2>1, <2>2 DEF OpenInv
<1>4. ClosedInv' /\ ImagesEnd'
  BY <1>1 DEF IInv, ClosedInv, ImagesEnd
<1>5. (intact' => intact) /\ started' = started
  <2>1. CASE UNCHANGED <<pc, pkt, intact>>
    BY <2>1
  <2>2. CASE intact' = (intact /\ ~(started /\ k.flags = "STANDALONE"))
    BY Zenon, <2>2
  <2>3. QED
    BY <1>1, <2>1, <2>2
<1>6. FlagsInv'
  <2>1. CASE UNCHANGED <<pc, pkt, intact>>
    BY <2>1 DEF FlagsInv
  <2>2. CASE pkt' = k /\ intact' = (intact /\ ~(started /\ k.flags = "STANDALONE"))
    <3>1. started' /\ intact' => pkt'.flags # "STANDALONE"
      <4>1. pkt' = k /\ (intact' => ~(started /\ k.flags = "STANDALONE"))
        BY Zenon, <2>2
      <4>2. started' => started
        BY <1>5
      <4>3. started' /\ intact' => k.flags # "STANDALONE"
        BY Zenon, <4>1, <4>2
      <4>4. QED
        BY <4>1, <4>3
    <3>2. pc' # "finish"
      BY <1>1
    <3>3. QED
      BY <3>1, <3>2 DEF FlagsInv
  <2>3. QED
    BY <1>1, <2>1, <2>2
<1>7. AssembledIsRecorded'
  BY <1>5 DEF IInv, AssembledIsRecorded
<1>8. StartedIsOpen'
  BY <1>5 DEF IInv, StartedIsOpen
<1>9. QED
  BY <1>2, <1>3, <1>4, <1>6, <1>7, <1>8 DEF IInv

\* The three calls of finish() differ in where the walk goes.
LEMMA FinishIInv == IInv /\ (FinishOpen \/ FinishImage \/ EndOfBuffer) => IInv'
<1> SUFFICES ASSUME IInv, FinishOpen \/ FinishImage \/ EndOfBuffer PROVE IInv'
  OBVIOUS
<1> USE DEF FinishOpen, FinishImage, EndOfBuffer, locals, history
<1>1. /\ ofs' = "closed" /\ streamAcc' = <<>>
      /\ images' \in Files /\ parts' \in Files /\ ImagesEnd'
  BY Finished
<1>2. Types'
  BY <1>1 DEF IInv, Types
<1>3. OpenInv' /\ ClosedInv'
  BY <1>1 DEF OpenInv, ClosedInv
<1>4. FlagsInv'
  BY DEF IInv, FlagsInv
<1>5. AssembledIsRecorded'
  BY DEF IInv, AssembledIsRecorded
<1>6. StartedIsOpen'
  <2>1. CASE FinishImage
    BY <2>1 DEF IInv, Types, FlagsInv, StartedIsOpen
  <2>2. CASE FinishOpen \/ EndOfBuffer
    BY <2>2 DEF StartedIsOpen
  <2>3. QED
    BY <2>1, <2>2
<1>7. QED
  BY <1>1, <1>2, <1>3, <1>4, <1>5, <1>6 DEF IInv

LEMMA StartFileIInv == IInv /\ StartFile => IInv'
<1> SUFFICES ASSUME IInv, StartFile PROVE IInv'
  OBVIOUS
<1> USE DEF StartFile
<1>1. ofs = "closed" /\ now \in B!Seconds
  BY DEF IInv, ClosedInv, Types
<1>2. /\ streamAcc' = <<>> /\ images' = images /\ parts' \in Files
      /\ \/ ofs' = "closed"
         \/ ofs' = "good" /\ tmpPath' = now /\ finalPath' = now /\ parts'[now] = <<>>
  BY <1>1, Started
<1>3. Types'
  BY <1>2 DEF IInv, Types
<1>4. OpenInv'
  <2>1. ofs' # "closed" => parts'[tmpPath'] = <<>> /\ tmpPath' \in B!Seconds /\ finalPath' = tmpPath'
    BY <1>1, <1>2
  <2>2. QED
    BY <2>1, EmptyFile DEF OpenInv
<1>5. ClosedInv' /\ ImagesEnd'
  BY <1>2 DEF IInv, ClosedInv, ImagesEnd
<1>6. FlagsInv' /\ AssembledIsRecorded' /\ StartedIsOpen'
  BY DEF IInv, FlagsInv, AssembledIsRecorded, StartedIsOpen
<1>7. QED
  BY <1>3, <1>4, <1>5, <1>6 DEF IInv

LEMMA AppendIInv == IInv /\ AppendPayload => IInv'
<1> SUFFICES ASSUME IInv, AppendPayload PROVE IInv'
  OBVIOUS
<1> USE DEF AppendPayload
<1>1. /\ pkt \in Packets /\ pkt' = pkt /\ started' = started /\ now' = now
      /\ pc' = AfterAppend(pkt) /\ pc' \in {"next", "finish"}
      /\ pc' = "next" => pkt.flags # "STANDALONE"
      /\ pc' = "next" /\ Records(pkt) => pkt.flags # "LAST"
      /\ pc' = "finish" => pkt.flags \in {"LAST", "STANDALONE"}
  BY DEF IInv, Types, AfterAppend, Records
<1>2. CASE ~Records(pkt)
  <2>1. UNCHANGED <<streamAcc, savedFinal, ofs, tmpPath, finalPath, images, parts, assembled, written, intact>>
    BY <1>2 DEF history
  <2>2. Types'
    BY <1>1, <2>1 DEF IInv, Types
  <2>3. OpenInv'
    BY <1>1, <2>1 DEF IInv, OpenInv
  <2>4. ClosedInv' /\ ImagesEnd'
    BY <1>1, <2>1 DEF IInv, ClosedInv, ImagesEnd
  <2>5. FlagsInv' /\ AssembledIsRecorded' /\ StartedIsOpen'
    BY <1>1, <2>1 DEF IInv, FlagsInv, AssembledIsRecorded, StartedIsOpen
  <2>6. QED
    BY <2>2, <2>3, <2>4, <2>5 DEF IInv
<1>3. CASE Records(pkt)
  <2>1. /\ B!AppendData(pkt)
        /\ assembled' = Append(assembled, pkt)
        /\ written' = IF parts' # parts THEN Append(written, pkt) ELSE written
        /\ intact' = (intact /\ parts' # parts)
    BY <1>3
  <2>2. /\ streamAcc' = <<>> /\ images' = images /\ tmpPath' = tmpPath /\ finalPath' = finalPath
        /\ \/ ofs = "good" /\ ofs' = "good" /\ parts' = [parts EXCEPT ![tmpPath] = Append(parts[tmpPath], pkt)]
           \/ parts' = parts /\ (ofs = "closed" <=> ofs' = "closed") /\ ofs' \in {"closed", "good", "bad"}
    BY <1>3, <2>1, Appended
  <2>3. CASE ofs = "good" /\ ofs' = "good" /\ parts' = [parts EXCEPT ![tmpPath] = Append(parts[tmpPath], pkt)]
    <3> DEFINE c == parts[tmpPath]
    <3>1. /\ tmpPath \in B!Seconds /\ finalPath = tmpPath /\ c \in Contents
          /\ c = <<>> \/ (Clean(c) /\ pkt.flags # "STANDALONE")
      BY <2>3 DEF IInv, OpenInv
    <3>2. /\ Append(c, pkt) \in Contents /\ Ends(Append(c, pkt))
          /\ pkt.flags \notin {"LAST", "STANDALONE"} => Clean(Append(c, pkt))
      BY <1>1, <3>1, AppendEnds
    <3>3. parts \in Files /\ parts' \in Files /\ parts'[tmpPath] = Append(c, pkt)
      BY <2>3, <3>1, <3>2, Replaced DEF IInv, Types, Files
    <3>4. Types'
      BY <1>1, <2>2, <2>3, <3>3, <2>1 DEF IInv, Types
    <3>5. OpenInv'
      BY <1>1, <1>3, <2>2, <3>1, <3>2, <3>3 DEF OpenInv
    <3>6. StartedIsOpen'
      BY <2>3 DEF StartedIsOpen
    <3>7. ClosedInv' /\ ImagesEnd'
      BY <1>1, <2>2 DEF IInv, ClosedInv, ImagesEnd
    <3>8. intact' => intact /\ written' = Append(written, pkt)
      BY <2>1
    <3>9. FlagsInv'
      BY <1>1, <3>8 DEF IInv, FlagsInv
    <3>10. AssembledIsRecorded'
      BY <2>1, <3>8 DEF IInv, AssembledIsRecorded
    <3>11. QED
      BY <3>4, <3>5, <3>6, <3>7, <3>9, <3>10 DEF IInv
  <2>4. CASE parts' = parts /\ (ofs = "closed" <=> ofs' = "closed") /\ ofs' \in {"closed", "good", "bad"}
    <3>1. intact' = FALSE
      BY <2>1, <2>4
    <3>2. Types'
      BY <1>1, <2>2, <2>4, <3>1 DEF IInv, Types
    <3>3. OpenInv'
      BY <1>1, <2>2, <2>4 DEF IInv, OpenInv
    <3>4. ClosedInv' /\ ImagesEnd'
      BY <1>1, <2>2 DEF IInv, ClosedInv, ImagesEnd
    <3>5. FlagsInv' /\ AssembledIsRecorded' /\ StartedIsOpen'
      BY <1>1, <3>1 DEF FlagsInv, AssembledIsRecorded, StartedIsOpen
    <3>6. QED
      BY <3>2, <3>3, <3>4, <3>5 DEF IInv
  <2>5. QED
    BY <2>2, <2>3, <2>4
<1>4. QED
  BY <1>2, <1>3

LEMMA WriteReportIInv == IInv /\ WriteReport => IInv'
<1> SUFFICES ASSUME IInv, WriteReport PROVE IInv'
  OBVIOUS
<1> USE DEF WriteReport, object, history
<1>1. Types'
  BY DEF IInv, Types
<1>2. OpenInv' /\ ClosedInv' /\ ImagesEnd'
  BY DEF IInv, OpenInv, ClosedInv, ImagesEnd
<1>3. FlagsInv' /\ AssembledIsRecorded' /\ StartedIsOpen'
  BY DEF IInv, FlagsInv, AssembledIsRecorded, StartedIsOpen
<1>4. QED
  BY <1>1, <1>2, <1>3 DEF IInv

LEMMA TickIInv == IInv /\ Tick => IInv'
<1> SUFFICES ASSUME IInv, Tick PROVE IInv'
  OBVIOUS
<1> USE DEF Tick, B!Tick, B!memory, B!disk, locals, history
<1>1. now' \in B!Seconds
  BY ImageExtractAssumption DEF IInv, Types, B!Seconds
<1>2. Types'
  BY <1>1 DEF IInv, Types
<1>3. OpenInv' /\ ClosedInv' /\ ImagesEnd'
  BY DEF IInv, OpenInv, ClosedInv, ImagesEnd
<1>4. FlagsInv' /\ AssembledIsRecorded' /\ StartedIsOpen'
  BY DEF IInv, FlagsInv, AssembledIsRecorded, StartedIsOpen
<1>5. QED
  BY <1>2, <1>3, <1>4 DEF IInv

LEMMA CrashIInv == IInv /\ Crash => IInv'
<1> SUFFICES ASSUME IInv, Crash PROVE IInv'
  OBVIOUS
<1> USE DEF Crash
<1>1. /\ ofs' = "closed" /\ streamAcc' = <<>>
      /\ images' \in Files /\ parts' \in Files /\ ImagesEnd'
  BY Killed
<1>2. Types'
  BY <1>1 DEF IInv, Types
<1>3. OpenInv' /\ ClosedInv' /\ FlagsInv' /\ AssembledIsRecorded' /\ StartedIsOpen'
  BY <1>1 DEF OpenInv, ClosedInv, FlagsInv, AssembledIsRecorded, StartedIsOpen
<1>4. QED
  BY <1>1, <1>2, <1>3 DEF IInv

LEMMA StutterIInv == IInv /\ UNCHANGED vars => IInv'
<1> SUFFICES ASSUME IInv, UNCHANGED vars PROVE IInv'
  OBVIOUS
<1> USE DEF vars, object, locals, history
<1>1. Types'
  BY DEF IInv, Types
<1>2. OpenInv' /\ ClosedInv' /\ ImagesEnd'
  BY DEF IInv, OpenInv, ClosedInv, ImagesEnd
<1>3. FlagsInv' /\ AssembledIsRecorded' /\ StartedIsOpen'
  BY DEF IInv, FlagsInv, AssembledIsRecorded, StartedIsOpen
<1>4. QED
  BY <1>1, <1>2, <1>3 DEF IInv

\* The invariant holds in every reachable state.
THEOREM Invariance == Spec => []IInv
<1>1. Init => IInv
  BY InitIInv
<1>2. IInv /\ [Next]_vars => IInv'
  BY CallIInv, NextPacketIInv, FinishIInv, StartFileIInv, AppendIInv, WriteReportIInv,
     TickIInv, CrashIInv, StutterIInv
  DEF Next, Assemble
<1>3. QED
  BY <1>1, <1>2, PTL DEF Spec

-----------------------------------------------------------------------------
(***************************************************************************)
(* The properties the runs check.                                          *)
(***************************************************************************)

\* The call never returns with a file open.
THEOREM ClosesAtReturn == Spec => []ClosedAtReturn
<1>1. IInv => ClosedAtReturn
  BY DEF IInv, ClosedInv, ClosedAtReturn
<1>2. QED
  BY <1>1, Invariance, PTL

\* No image file goes on after its image, whatever fails and whenever the process
\* is killed.
THEOREM EndsWithLast == Spec => []LastEndsFile
<1>1. IInv => LastEndsFile
  BY DEF IInv, ImagesEnd, Ends, LastEndsFile
<1>2. QED
  BY <1>1, Invariance, PTL

\* The buffer assembled and the data that reached files are the same in a call in
\* which nothing failed.
THEOREM Recorded == Spec => []AssembledIsRecorded
<1>1. IInv => AssembledIsRecorded
  BY DEF IInv
<1>2. QED
  BY <1>1, Invariance, PTL

\* An image in progress has its file open in a call in which nothing failed.
THEOREM StartedOpen == Spec => []StartedIsOpen
<1>1. IInv => StartedIsOpen
  BY DEF IInv
<1>2. QED
  BY <1>1, Invariance, PTL
-----------------------------------------------------------------------------
(***************************************************************************)
(* The sorted counts and the gaps between them.                            *)
(***************************************************************************)

\* A set of natural numbers that is not empty has a least element.
LEMMA LeastNatural ==
    ASSUME NEW T \in SUBSET Nat, T # {}
    PROVE  \E n \in T : \A m \in T : n <= m
<1>1. PICK n \in T : \A m \in T : ~(<<m, n>> \in OpToRel(<, Nat))
  BY WFMin, NatLessThanWellFounded, Zenon
<1>2. \A m \in T : ~(m < n)
  BY <1>1, Zenon DEF OpToRel
<1>3. QED
  BY <1>2

\* s lists S in ascending order.
Ascending(s, S) ==
    /\ s \in [1 .. Cardinality(S) -> S]
    /\ \A i, j \in 1 .. Cardinality(S) : i < j => s[i] < s[j]

\* A list of all but the least element, with that one put before it.
LEMMA AscendingGrows ==
    ASSUME NEW S \in SUBSET Nat, IsFiniteSet(S), NEW m \in S, \A k \in S : m <= k,
           NEW e, Ascending(e, S \ {m})
    PROVE  \E s : Ascending(s, S)
<1> DEFINE n == Cardinality(S)
           s == [i \in 1 .. n |-> IF i = 1 THEN m ELSE e[i - 1]]
<1>1. n \in Nat /\ Cardinality(S \ {m}) = n - 1 /\ n - 1 \in Nat
  BY FS_CardinalityType, FS_RemoveElement
<1> HIDE DEF n
<1>2. /\ e \in [1 .. n - 1 -> S \ {m}]
      /\ \A i, j \in 1 .. n - 1 : i < j => e[i] < e[j]
  BY <1>1 DEF Ascending
<1>3. ASSUME NEW i \in 1 .. n, i # 1
      PROVE  /\ i - 1 \in 1 .. n - 1 /\ s[i] = e[i - 1] /\ s[i] \in S /\ m < s[i]
  <2>1. i - 1 \in 1 .. n - 1 /\ s[i] = e[i - 1]
    BY <1>1, <1>3
  <2>2. e[i - 1] \in S /\ e[i - 1] # m /\ e[i - 1] \in Nat /\ m \in Nat
    BY <1>2, <2>1
  <2>3. QED
    BY <2>1, <2>2
<1>4. s \in [1 .. n -> S]
  BY <1>3
<1>5. ASSUME NEW i \in 1 .. n, NEW j \in 1 .. n, i < j PROVE s[i] < s[j]
  <2>1. j # 1
    BY <1>1, <1>5
  <2>2. CASE i = 1
    BY <1>3, <2>1, <2>2
  <2>3. CASE i # 1
    <3>1. i - 1 \in 1 .. n - 1 /\ j - 1 \in 1 .. n - 1 /\ i - 1 < j - 1
      BY <1>1, <1>3, <1>5, <2>1, <2>3
    <3>2. e[i - 1] < e[j - 1]
      BY <1>2, <3>1
    <3>3. QED
      BY <1>3, <2>1, <2>3, <3>2
  <2>4. QED
    BY <2>2, <2>3
<1>6. QED
  BY <1>4, <1>5 DEF Ascending, n

\* Every finite set of natural numbers can be listed so: otherwise one with the fewest
\* elements of those that cannot, less its least element, could be.
LEMMA AscendingExists ==
    ASSUME NEW S \in SUBSET Nat, IsFiniteSet(S)
    PROVE  \E s : Ascending(s, S)
<1> DEFINE Unlisted(T) == IsFiniteSet(T) /\ ~\E s : Ascending(s, T)
           Sizes == {n \in Nat : \E T \in SUBSET Nat : Unlisted(T) /\ Cardinality(T) = n}
<1> SUFFICES ASSUME Unlisted(S) PROVE FALSE
  OBVIOUS
<1>1. Sizes # {}
  BY FS_CardinalityType
<1>2. PICK n \in Sizes : \A k \in Sizes : n <= k
  BY <1>1, LeastNatural
<1>3. PICK T \in SUBSET Nat : Unlisted(T) /\ Cardinality(T) = n
  BY <1>2
<1>4. T # {}
  <2> SUFFICES ASSUME T = {} PROVE FALSE
    OBVIOUS
  <2>1. Cardinality(T) = 0
    BY FS_EmptySet
  <2>2. [i \in 1 .. 0 |-> 0] \in [1 .. Cardinality(T) -> T]
    BY <2>1
  <2>3. Ascending([i \in 1 .. 0 |-> 0], T)
    BY <2>1, <2>2 DEF Ascending
  <2>4. QED
    BY <1>3, <2>3
<1>5. PICK m \in T : \A k \in T : m <= k
  BY <1>4, LeastNatural
<1>6. /\ IsFiniteSet(T \ {m}) /\ Cardinality(T \ {m}) = n - 1 /\ n \in Nat
      /\ Cardinality(T \ {m}) \in Nat
  BY <1>3, <1>5, FS_RemoveElement, FS_CardinalityType
<1>7. n - 1 \notin Sizes
  BY <1>2, <1>6
<1>8. \E s : Ascending(s, T \ {m})
  BY <1>6, <1>7
<1>9. QED
  BY <1>3, <1>5, <1>8, AscendingGrows

\* What Sorted returns.
LEMMA SortedIs ==
    ASSUME NEW S \in SUBSET Nat, IsFiniteSet(S)
    PROVE  /\ Ascending(Sorted(S), S)
           /\ \A x \in S : \E i \in 1 .. Cardinality(S) : Sorted(S)[i] = x
<1> DEFINE n == Cardinality(S)
           s == Sorted(S)
<1>1. Ascending(s, S)
  BY AscendingExists DEF Sorted, Ascending
<1>2. n \in Nat
  BY FS_CardinalityType
<1>3. s \in Injection(1 .. n, S)
  <2>1. ASSUME NEW i \in 1 .. n, NEW j \in 1 .. n, s[i] = s[j] PROVE i = j
    <3>1. s[i] \in Nat /\ s[j] \in Nat
      BY <1>1 DEF Ascending
    <3>2. ~(i < j) /\ ~(j < i)
      BY <1>1, <2>1, <3>1 DEF Ascending
    <3>3. QED
      BY <1>2, <3>2
  <2>2. QED
    BY <1>1, <2>1 DEF Ascending, Injection, IsInjective
<1>4. IsFiniteSet(1 .. n) /\ Cardinality(1 .. n) = n
  BY <1>2, FS_Interval
<1>5. s \in Surjection(1 .. n, S)
  BY <1>3, <1>4, FS_Injection
<1>6. QED
  BY <1>1, <1>5 DEF Surjection


\* Between two neighbours nothing wraps.
LEMMA BetweenIs ==
    ASSUME NEW a \in Nat, NEW b \in Nat, a < b, b < Word
    PROVE  Between(a, b) = a + 1 .. b - 1
<1> DEFINE from == (a + 1) % Word
           stop == (((b - 1) % Word) + 1) % Word
           span == (stop - from) % Word
<1>1. from = a + 1
  BY DEF Word
<1>2. stop = b
  <2>1. (b - 1) % Word = b - 1
    BY DEF Word
  <2>2. ((b - 1) + 1) % Word = b
    BY DEF Word
  <2>3. QED
    BY <2>1, <2>2
<1>3. span = b - (a + 1)
  BY <1>1, <1>2 DEF Word
<1>4. Between(a, b) = {(from + d) % Word : d \in 0 .. span - 1}
  BY DEF Between
<1> HIDE DEF from, stop, span
<1>5. ASSUME NEW d \in 0 .. span - 1 PROVE (from + d) % Word = a + 1 + d
  BY <1>1, <1>3 DEF Word
<1>6. ASSUME NEW g \in a + 1 .. b - 1 PROVE g \in Between(a, b)
  <2> DEFINE d == g - (a + 1)
  <2>1. d \in 0 .. span - 1 /\ a + 1 + d = g
    BY <1>3
  <2>2. (from + d) % Word = g
    BY <1>5, <2>1
  <2>3. QED
    BY <1>4, <2>1, <2>2
<1>7. ASSUME NEW g \in Between(a, b) PROVE g \in a + 1 .. b - 1
  <2>1. PICK d \in 0 .. span - 1 : g = (from + d) % Word
    BY <1>4
  <2>2. g = a + 1 + d
    BY <1>5, <2>1
  <2>3. QED
    BY <1>3, <2>1, <2>2
<1>8. Between(a, b) \subseteq a + 1 .. b - 1 /\ a + 1 .. b - 1 \subseteq Between(a, b)
  BY <1>6, <1>7
<1>9. QED
  BY <1>8

\* The least and the greatest count are the first and the last of the list.
LEMMA SortedEnds ==
    ASSUME NEW S \in SUBSET Nat, IsFiniteSet(S), S # {}
    PROVE  /\ Cardinality(S) \in Nat /\ Cardinality(S) >= 1
           /\ Min(S) = Sorted(S)[1]
           /\ Max(S) = Sorted(S)[Cardinality(S)]
<1> DEFINE n == Cardinality(S)
           s == Sorted(S)
<1>1. n \in Nat /\ n >= 1
  BY FS_CardinalityType, FS_EmptySet
<1>2. /\ s \in [1 .. n -> S]
      /\ \A i, j \in 1 .. n : i < j => s[i] < s[j]
      /\ \A x \in S : \E i \in 1 .. n : s[i] = x
  BY SortedIs DEF Ascending
<1> HIDE DEF n, s
<1>3. s[1] \in S /\ s[n] \in S
  BY <1>1, <1>2
<1>4. ASSUME NEW x \in S PROVE s[1] <= x /\ x <= s[n]
  <2>0. x \in Nat /\ s[1] \in Nat /\ s[n] \in Nat
    BY <1>3
  <2>1. PICK i \in 1 .. n : s[i] = x
    BY <1>2
  <2>2. i = 1 \/ s[1] < s[i]
    BY <1>1, <1>2
  <2>3. i = n \/ s[i] < s[n]
    BY <1>1, <1>2
  <2>4. QED
    BY <2>0, <2>1, <2>2, <2>3
<1>5. /\ Min(S) \in S /\ \A y \in S : Min(S) <= y
      /\ Max(S) \in S /\ \A y \in S : Max(S) >= y
  BY <1>3, <1>4 DEF Min, Max
<1>6. Min(S) <= s[1] /\ s[1] <= Min(S) /\ Max(S) >= s[n] /\ s[n] >= Max(S)
  BY <1>3, <1>4, <1>5
<1>7. Min(S) = s[1] /\ Max(S) = s[n]
  <2>1. Min(S) \in Nat /\ Max(S) \in Nat /\ s[1] \in Nat /\ s[n] \in Nat
    BY <1>3, <1>5
  <2>2. QED
    BY <1>6, <2>1
<1>8. QED
  BY <1>1, <1>7 DEF n, s

\* The loop over the neighbours collects what is missing between the least and the
\* greatest count.
LEMMA GapsAre ==
    ASSUME NEW S \in SUBSET (0 .. MaxCount), IsFiniteSet(S), S # {}
    PROVE  Gaps(S) = (Min(S) .. Max(S)) \ S
<1> DEFINE n == Cardinality(S)
           s == Sorted(S)
<1>0. MaxCount \in Nat /\ MaxCount < Word
  BY DEF MaxCount, Word
<1>1. S \in SUBSET Nat
  OBVIOUS
<1>2. n \in Nat /\ n >= 1 /\ Min(S) = s[1] /\ Max(S) = s[n]
  BY <1>1, SortedEnds
<1>3. /\ s \in [1 .. n -> S]
      /\ \A i, j \in 1 .. n : i < j => s[i] < s[j]
      /\ \A x \in S : \E i \in 1 .. n : s[i] = x
  BY <1>1, SortedIs DEF Ascending
<1>4. Gaps(S) = UNION {Between(s[i - 1], s[i]) : i \in 2 .. n}
  BY DEF Gaps
<1> HIDE DEF n, s
<1>5. \A i \in 1 .. n : s[i] \in S /\ s[i] \in 0 .. MaxCount
  BY <1>3
<1>6. ASSUME NEW i \in 2 .. n
      PROVE  /\ i - 1 \in 1 .. n /\ i \in 1 .. n /\ s[i - 1] < s[i]
             /\ Between(s[i - 1], s[i]) = s[i - 1] + 1 .. s[i] - 1
  <2>1. i - 1 \in 1 .. n /\ i \in 1 .. n /\ s[i - 1] < s[i]
    BY <1>2, <1>3
  <2>2. s[i - 1] \in Nat /\ s[i] \in Nat /\ s[i] < Word
    BY <1>0, <1>5, <2>1 DEF Word
  <2>3. QED
    BY <2>1, <2>2, BetweenIs
<1>7. \A i, j \in 1 .. n : i <= j => s[i] <= s[j]
  BY <1>2, <1>3, <1>5
<1>8. ASSUME NEW g \in Gaps(S) PROVE g \in (Min(S) .. Max(S)) \ S
  <2>1. PICK i \in 2 .. n : g \in s[i - 1] + 1 .. s[i] - 1
    BY <1>4, <1>6, <1>8
  <2>2. s[1] <= s[i - 1] /\ s[i] <= s[n]
    BY <1>2, <1>6, <1>7
  <2>3. g \in s[1] .. s[n]
    BY <1>2, <1>5, <1>6, <2>1, <2>2
  <2>4. ASSUME g \in S PROVE FALSE
    <3>1. PICK j \in 1 .. n : s[j] = g
      BY <1>3, <2>4
    <3>2. s[i - 1] < s[j] /\ s[j] < s[i]
      BY <1>5, <1>6, <2>1, <3>1
    <3>3. ~(j <= i - 1) /\ ~(i <= j)
      BY <1>5, <1>6, <1>7, <3>2
    <3>4. QED
      BY <1>2, <3>3
  <2>5. QED
    BY <1>2, <2>3, <2>4
<1>9. ASSUME NEW g \in (Min(S) .. Max(S)) \ S PROVE g \in Gaps(S)
  <2> DEFINE Later == {i \in 1 .. n : g < s[i]}
  <2>1. g \in s[1] .. s[n] /\ g \notin S
    BY <1>2, <1>9
  <2>2. n \in Later /\ Later \subseteq Nat /\ 1 \notin Later
    BY <1>2, <1>5, <2>1
  <2>3. PICK i \in Later : \A j \in Later : i <= j
    BY <2>2, LeastNatural
  <2>4. i \in 2 .. n /\ i - 1 \in 1 .. n /\ i - 1 \notin Later
    BY <1>2, <2>2, <2>3
  <2>5. s[i - 1] < g /\ g < s[i]
    BY <1>5, <2>1, <2>3, <2>4
  <2>6. g \in Between(s[i - 1], s[i])
    BY <1>5, <1>6, <2>1, <2>4, <2>5
  <2>7. QED
    BY <1>4, <2>4, <2>6
<1>10. QED
  BY <1>8, <1>9

\* Without counts there is nothing between them.
LEMMA NoGaps == Gaps({}) = {}
<1>1. Cardinality({}) = 0
  BY FS_EmptySet
<1>2. QED
  BY <1>1 DEF Gaps

\* What is reported missing are counts.
LEMMA GapsType ==
    ASSUME NEW S \in SUBSET (0 .. MaxCount), IsFiniteSet(S)
    PROVE  Gaps(S) \subseteq Nat
<1>1. CASE S = {}
  BY <1>1, NoGaps
<1>2. CASE S # {}
  <2>1. Min(S) = Sorted(S)[1] /\ 1 \in 1 .. Cardinality(S) /\ S \in SUBSET Nat
    BY <1>2, SortedEnds
  <2>2. Min(S) \in Nat
    BY <2>1, SortedIs DEF Ascending
  <2>3. QED
    BY <1>2, <2>2, GapsAre
<1>3. QED
  BY <1>1, <1>2

-----------------------------------------------------------------------------
(***************************************************************************)
(* The types, and the report.                                              *)
(***************************************************************************)

\* What IInv does not say of the types.
OtherTypes ==
    /\ savedFinal \in BOOLEAN
    /\ tmpPath \in B!Seconds \cup {NoPath} /\ finalPath \in B!Seconds \cup {NoPath}
    /\ pkt \in Packets
    /\ count \in 0 .. MaxPackets /\ calls \in 0 .. MaxCalls
    /\ assembled \in Seq(Packets) /\ written \in Seq(Packets)
    /\ seqSeen \subseteq SeqCounts
    /\ missing \subseteq Nat

TInv == IInv /\ OtherTypes

LEMMA InitOtherTypes == Init => OtherTypes
<1> SUFFICES ASSUME Init PROVE OtherTypes
  OBVIOUS
<1>1. AnyPacket \in Packets
  <2>1. PICK c \in SeqCounts : TRUE
    BY ImageExtractAssumption
  <2>2. [apid |-> "image", flags |-> "FIRST", seq |-> c, data |-> TRUE] \in Packets
    BY DEF Packets, Flags
  <2>3. QED
    BY <2>2 DEF AnyPacket
<1>2. <<>> \in Seq(Packets)
  OBVIOUS
<1>3. 0 \in 0 .. MaxPackets /\ 0 \in 0 .. MaxCalls
  BY ImageExtractAssumption
<1>4. QED
  BY <1>1, <1>2, <1>3 DEF Init, B!Init, OtherTypes

\* The steps of the walk.
LEMMA WalkOtherTypes ==
    ASSUME TInv, CallAssemble \/ NextPacket
    PROVE  OtherTypes'
<1>1. UNCHANGED <<savedFinal, tmpPath, finalPath>>
  BY DEF CallAssemble, NextPacket, object
<1>2. CASE CallAssemble
  <2>1. calls' \in 0 .. MaxCalls /\ count' \in 0 .. MaxPackets
    BY <1>2, ImageExtractAssumption DEF CallAssemble, TInv, OtherTypes
  <2>2. assembled' \in Seq(Packets) /\ written' \in Seq(Packets)
    BY <1>2 DEF CallAssemble
  <2>3. QED
    BY <1>1, <1>2, <2>1, <2>2 DEF CallAssemble, TInv, OtherTypes
<1>3. CASE NextPacket
  <2>1. count' \in 0 .. MaxPackets
    BY <1>3, ImageExtractAssumption DEF NextPacket, TInv, OtherTypes
  <2>2. pkt' \in Packets
    BY <1>3 DEF NextPacket, TInv, OtherTypes
  <2>3. UNCHANGED <<calls, assembled, seqSeen, missing, written>>
    BY <1>3 DEF NextPacket
  <2>4. QED
    BY <1>1, <2>1, <2>2, <2>3 DEF TInv, OtherTypes
<1>4. QED
  BY <1>2, <1>3

\* The steps that call finish() or start_new().
LEMMA FileOtherTypes ==
    ASSUME TInv, FinishOpen \/ FinishImage \/ EndOfBuffer \/ StartFile
    PROVE  OtherTypes'
<1>1. UNCHANGED <<savedFinal, pkt, count, calls, assembled, seqSeen, missing, written>>
  BY DEF FinishOpen, FinishImage, EndOfBuffer, StartFile, B!Finish, B!StartNew, locals, history
<1>2. tmpPath' \in B!Seconds \cup {NoPath} /\ finalPath' \in B!Seconds \cup {NoPath}
  <2>1. now \in B!Seconds /\ tmpPath \in B!Seconds \cup {NoPath}
        /\ finalPath \in B!Seconds \cup {NoPath}
    BY DEF TInv, IInv, Types, OtherTypes
  <2>2. CASE StartFile
    BY <2>1, <2>2 DEF StartFile, B!StartNew
  <2>3. CASE FinishOpen \/ FinishImage \/ EndOfBuffer
    BY <2>1, <2>3 DEF FinishOpen, FinishImage, EndOfBuffer, B!Finish
  <2>4. QED
    BY <2>2, <2>3
<1>3. QED
  BY <1>1, <1>2 DEF TInv, OtherTypes

LEMMA AppendOtherTypes ==
    ASSUME TInv, AppendPayload
    PROVE  OtherTypes'
<1>1. pkt \in Packets /\ pkt.seq \in SeqCounts
  BY DEF TInv, OtherTypes, Packets
<1>2. UNCHANGED <<savedFinal, tmpPath, finalPath, pkt, count, calls, missing>>
  BY DEF AppendPayload, B!AppendData
<1>3. /\ assembled' = assembled \/ assembled' = Append(assembled, pkt)
      /\ written' = written \/ written' = Append(written, pkt)
      /\ seqSeen' = seqSeen \cup {pkt.seq}
  BY DEF AppendPayload, history
<1>4. assembled \in Seq(Packets) /\ written \in Seq(Packets)
  BY DEF TInv, OtherTypes
<1>5. /\ Append(assembled, pkt) \in Seq(Packets)
      /\ Append(written, pkt) \in Seq(Packets)
  BY <1>1, <1>4
<1>6. assembled' \in Seq(Packets) /\ written' \in Seq(Packets)
  BY <1>3, <1>4, <1>5
<1>7. seqSeen' \subseteq SeqCounts
  BY <1>1, <1>3 DEF TInv, OtherTypes
<1>8. QED
  BY <1>2, <1>6, <1>7 DEF TInv, OtherTypes

\* The counts seen in a call are finitely many and of 14 bits.
LEMMA SeenCounts ==
    ASSUME TInv
    PROVE  seqSeen \in SUBSET (0 .. MaxCount) /\ IsFiniteSet(seqSeen)
  BY ImageExtractAssumption, FS_Subset DEF TInv, OtherTypes

LEMMA ReportOtherTypes ==
    ASSUME TInv, WriteReport
    PROVE  OtherTypes'
<1>1. missing' \subseteq Nat
  BY SeenCounts, GapsType DEF WriteReport
<1>2. QED
  BY <1>1 DEF WriteReport, object, history, TInv, OtherTypes

\* A kill, the clock, or nothing.
LEMMA RestOtherTypes ==
    ASSUME TInv, Crash \/ Tick \/ UNCHANGED vars
    PROVE  OtherTypes'
<1>1. CASE Crash
  <2>1. <<>> \in Seq(Packets)
    OBVIOUS
  <2>2. QED
    BY <1>1, <2>1 DEF Crash, B!Crash, B!FreshObject, TInv, OtherTypes
<1>2. CASE Tick
  BY <1>2 DEF Tick, B!Tick, B!memory, locals, history, TInv, OtherTypes
<1>3. CASE UNCHANGED vars
  BY <1>3 DEF vars, object, locals, history, TInv, OtherTypes
<1>4. QED
  BY <1>1, <1>2, <1>3

\* Both invariants together.
THEOREM TypeInvariance == Spec => []TInv
<1>1. Init => TInv
  BY InitIInv, InitOtherTypes DEF TInv
<1>2. TInv /\ [Next]_vars => TInv'
  <2> SUFFICES ASSUME TInv, [Next]_vars PROVE TInv'
    OBVIOUS
  <2>1. IInv'
    BY CallIInv, NextPacketIInv, FinishIInv, StartFileIInv, AppendIInv, WriteReportIInv,
       TickIInv, CrashIInv, StutterIInv
    DEF Next, Assemble, TInv
  <2>2. OtherTypes'
    BY WalkOtherTypes, FileOtherTypes, AppendOtherTypes, ReportOtherTypes, RestOtherTypes
    DEF Next, Assemble
  <2>3. QED
    BY <2>1, <2>2 DEF TInv
<1>3. QED
  BY <1>1, <1>2, PTL DEF Spec

\* The types of the variables.
THEOREM TypeCorrect == Spec => []TypeOK
<1>1. TInv => TypeOK
  <2> SUFFICES ASSUME TInv PROVE TypeOK
    OBVIOUS
  <2>1. Types /\ OtherTypes
    BY DEF TInv, IInv
  <2>2. streamAcc \in Seq(Packets)
    BY <2>1 DEF Types
  <2>3. B!TypeOK
    BY <2>1, <2>2 DEF Types, OtherTypes, Files, Contents, B!TypeOK, B!Contents
  <2>4. QED
    BY <2>1, <2>3 DEF Types, OtherTypes, TypeOK
<1>2. QED
  BY <1>1, TypeInvariance, PTL

\* The only step from the report back to the caller that is no kill is the one that
\* writes it.
LEMMA ReportStep ==
    ASSUME TInv, [Next]_vars, pc = "report", pc' = "idle", ~Crash
    PROVE  missing' = IF seqSeen = {} THEN {}
                      ELSE (Min(seqSeen) .. Max(seqSeen)) \ seqSeen
<1>1. WriteReport
  BY DEF Next, Assemble, CallAssemble, NextPacket, FinishOpen, StartFile, AppendPayload,
         FinishImage, EndOfBuffer, Tick, vars
<1>2. missing' = Gaps(seqSeen)
  BY <1>1 DEF WriteReport
<1>3. CASE seqSeen = {}
  BY <1>2, <1>3, NoGaps
<1>4. CASE seqSeen # {}
  BY <1>2, <1>4, SeenCounts, GapsAre
<1>5. QED
  BY <1>3, <1>4

\* The report names the missing counts and no other, for every set of counts of 14 bits:
\* the loop's variables of 16 bits do not wrap.
THEOREM GapsReported == Spec => ReportNamesGaps
<1>1. TInv /\ [Next]_vars =>
          [ pc = "report" /\ pc' = "idle" /\ ~Crash =>
              missing' = IF seqSeen = {} THEN {}
                         ELSE (Min(seqSeen) .. Max(seqSeen)) \ seqSeen ]_vars
  BY ReportStep
<1>2. QED
  BY <1>1, TypeInvariance, PTL DEF Spec, ReportNamesGaps
=============================================================================
