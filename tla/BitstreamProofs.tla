--------------------------- MODULE BitstreamProofs ---------------------------
(***************************************************************************)
(* Proofs about Bitstream for every set of fragments, every clock bound    *)
(* and every set of failing file-system calls.  The inductive invariant is *)
(* TypeOK /\ OpenHasPart: neither part is inductive alone, since what      *)
(* finish() and abort() write depends on the path they keep.               *)
(***************************************************************************)
EXTENDS Bitstream, TLAPS

IInv == TypeOK /\ OpenHasPart

-----------------------------------------------------------------------------
(***************************************************************************)
(* Contents of files.                                                      *)
(***************************************************************************)

\* The empty file is a content, and so is a content with one fragment more.
LEMMA EmptyType == <<>> \in Contents
  BY DEF Contents

LEMMA AppendType ==
    ASSUME NEW s \in Contents, NEW f \in Fragments
    PROVE  Append(s, f) \in Contents
  BY DEF Contents

\* A prefix of a content is a content.
LEMMA PrefixType ==
    ASSUME NEW s \in Contents, NEW p \in Prefixes(s)
    PROVE  p \in Contents
<1>1. PICK k \in 0 .. Len(s) : p = SubSeq(s, 1, k)
  BY DEF Prefixes, Prefix
<1>2. QED
  BY <1>1 DEF Contents

\* "No file" is not a content.
LEMMA NoFileIsNoContent == NoFile \notin Contents
  BY BitstreamAssumption DEF Contents

\* NoPath is not a second.
LEMMA NoPathIsNoSecond == NoPath \notin Seconds
  BY BitstreamAssumption DEF Seconds

Directory == [Seconds -> Contents \cup {NoFile}]

\* Replacing one file of a directory gives a directory.
LEMMA ReplaceType ==
    ASSUME NEW d \in Directory, NEW s, NEW c \in Contents \cup {NoFile}
    PROVE  [d EXCEPT ![s] = c] \in Directory
  BY DEF Directory

-----------------------------------------------------------------------------
(***************************************************************************)
(* What the steps on the directory leave.                                  *)
(***************************************************************************)

\* Removing a .part file, with or without success, leaves a directory.
LEMMA PartRemovedType ==
    ASSUME IInv, NEW p \in Seconds, NEW left \in PartRemoved(p)
    PROVE  left \in Directory
  BY ReplaceType DEF PartRemoved, IInv, TypeOK, Directory

\* save_final leaves a directory.
LEMMA SavedImagesType ==
    ASSUME IInv, NEW d \in SavedImages
    PROVE  d \in Directory
<1>1. images \in Directory /\ streamAcc \in Contents
  BY DEF IInv, TypeOK, Directory
<1>2. CASE d = [images EXCEPT ![now] = streamAcc]
  BY <1>1, <1>2, ReplaceType
<1>3. CASE d = images
  BY <1>1, <1>3
<1>4. ASSUME NEW p \in Prefixes(streamAcc), d = [images EXCEPT ![now] = p]
      PROVE  d \in Directory
  <2>1. p \in Contents
    BY <1>1, PrefixType
  <2>2. QED
    BY <1>1, <1>4, <2>1, ReplaceType
<1>5. QED
  BY <1>2, <1>3, <1>4 DEF SavedImages

\* While the stream is open, the path it writes is a second, its content is a
\* content, and the name to publish is the same.
LEMMA OpenFile ==
    ASSUME IInv, ofs # "closed"
    PROVE  /\ tmpPath \in Seconds
           /\ finalPath = tmpPath
           /\ parts[tmpPath] \in Contents
  BY DEF IInv, TypeOK, OpenHasPart

\* What a flush and a copy leave are contents, or no file.
LEMMA FlushedType ==
    ASSUME IInv, ofs # "closed", NEW content \in Flushed
    PROVE  content \in Contents
  BY OpenFile, PrefixType DEF Flushed

LEMMA CopiedType ==
    ASSUME IInv, ofs # "closed", NEW content \in Contents, NEW copy \in Copied(content)
    PROVE  copy \in Contents \cup {NoFile}
<1>1. images[finalPath] \in Contents \cup {NoFile}
  BY OpenFile DEF IInv, TypeOK
<1>2. QED
  BY <1>1, PrefixType DEF Copied

-----------------------------------------------------------------------------
(***************************************************************************)
(* The inductive invariant.                                                *)
(***************************************************************************)

\* The fresh object and the empty directory satisfy it.
LEMMA InitIInv == Init => IInv
  BY BitstreamAssumption, EmptyType
  DEF Init, IInv, TypeOK, OpenHasPart, Seconds

\* start_new preserves it: whatever becomes of the aborted file, the directory
\* then holds the new .part file or the paths are empty.
LEMMA StartNewIInv == IInv /\ StartNew /\ UNCHANGED now => IInv'
<1> SUFFICES ASSUME IInv, StartNew, UNCHANGED now PROVE IInv'
  OBVIOUS
<1> USE DEF StartNew
<1>1. now \in Seconds /\ now # NoPath
  BY NoPathIsNoSecond DEF IInv, TypeOK
<1>2. PICK left \in IF ofs = "closed" THEN {parts} ELSE PartRemoved(tmpPath) :
         \/ /\ parts' = [left EXCEPT ![now] = <<>>]
            /\ ofs' = "good"
            /\ tmpPath' = now
            /\ finalPath' = now
         \/ /\ parts' = left
            /\ ofs' = "closed"
            /\ tmpPath' = NoPath
            /\ finalPath' \in {finalPath, NoPath}
  BY SMTT(30)
<1>3. left \in Directory
  BY <1>2, OpenFile, PartRemovedType DEF IInv, TypeOK, Directory
<1>4. CASE /\ parts' = [left EXCEPT ![now] = <<>>]
           /\ ofs' = "good"
           /\ tmpPath' = now
           /\ finalPath' = now
  <2>1. parts' \in Directory
    BY <1>3, <1>4, EmptyType, ReplaceType
  <2>2. parts'[now] = <<>>
    BY <1>1, <1>3, <1>4 DEF Directory
  <2>3. TypeOK'
    BY <1>1, <1>4, <2>1 DEF IInv, TypeOK, Directory
  <2>4. OpenHasPart'
    BY <1>1, <1>4, <2>2, EmptyType, NoFileIsNoContent DEF OpenHasPart
  <2>5. QED
    BY <2>3, <2>4 DEF IInv
<1>5. CASE /\ parts' = left
           /\ ofs' = "closed"
           /\ tmpPath' = NoPath
           /\ finalPath' \in {finalPath, NoPath}
  BY <1>3, <1>5 DEF IInv, TypeOK, OpenHasPart, Directory
<1>6. QED
  BY <1>2, <1>4, <1>5

\* append preserves it: it writes only the file that is open.
LEMMA AppendDataIInv ==
    ASSUME NEW f \in Fragments
    PROVE  IInv /\ AppendData(f) /\ UNCHANGED now => IInv'
<1> SUFFICES ASSUME IInv, AppendData(f), UNCHANGED now PROVE IInv'
  OBVIOUS
<1>1. CASE ofs = "good" /\ parts' = [parts EXCEPT ![tmpPath] = Append(@, f)]
           /\ UNCHANGED ofs
  <2>1. Append(parts[tmpPath], f) \in Contents
    BY <1>1, OpenFile, AppendType
  <2>2. /\ parts' \in [Seconds -> Contents \cup {NoFile}]
        /\ parts'[tmpPath] = Append(parts[tmpPath], f)
    BY <1>1, <2>1, OpenFile DEF IInv, TypeOK
  <2>3. QED
    BY <1>1, <2>1, <2>2, NoFileIsNoContent
    DEF AppendData, IInv, TypeOK, OpenHasPart
<1>2. CASE UNCHANGED parts /\ ofs' \in {ofs, "bad"} /\ (ofs' # ofs => ofs = "good")
  BY <1>2 DEF AppendData, IInv, TypeOK, OpenHasPart
<1>3. QED
  BY <1>1, <1>2 DEF AppendData

\* finish preserves it: the path is forgotten together with the stream.
LEMMA FinishIInv == IInv /\ Finish /\ UNCHANGED now => IInv'
<1> SUFFICES ASSUME IInv, Finish, UNCHANGED now PROVE IInv'
  OBVIOUS
<1>1. CASE ofs = "closed"
  BY <1>1 DEF Finish, IInv, TypeOK, OpenHasPart
<1>2. CASE ofs # "closed"
  <2>1. PICK content \in Flushed :
           /\ \E copy \in Copied(content) \cup {content} :
                 images' = [images EXCEPT ![finalPath] = copy]
           /\ \/ parts' = [parts EXCEPT ![tmpPath] = NoFile]
              \/ parts' = [parts EXCEPT ![tmpPath] = content]
    BY <1>2 DEF Finish
  <2>2. content \in Contents
    BY <1>2, FlushedType
  <2>3. images' \in Directory
    <3>1. PICK copy \in Copied(content) \cup {content} :
             images' = [images EXCEPT ![finalPath] = copy]
      BY <2>1
    <3>2. copy \in Contents \cup {NoFile}
      BY <1>2, <2>2, CopiedType
    <3>3. QED
      BY <3>1, <3>2, ReplaceType DEF IInv, TypeOK, Directory
  <2>4. parts' \in Directory
    BY <2>1, <2>2, ReplaceType DEF IInv, TypeOK, Directory
  <2>5. QED
    BY <1>2, <2>3, <2>4 DEF Finish, IInv, TypeOK, OpenHasPart, Directory
<1>3. QED
  BY <1>1, <1>2

\* abort preserves it, for the same reason.
LEMMA AbortIInv == IInv /\ Abort /\ UNCHANGED now => IInv'
<1> SUFFICES ASSUME IInv, Abort, UNCHANGED now PROVE IInv'
  OBVIOUS
<1>1. CASE ofs = "closed"
  BY <1>1 DEF Abort, IInv, TypeOK, OpenHasPart
<1>2. CASE ofs # "closed"
  <2>1. parts' \in Directory
    BY <1>2, OpenFile, PartRemovedType DEF Abort
  <2>2. QED
    BY <1>2, <2>1 DEF Abort, IInv, TypeOK, OpenHasPart, Directory
<1>3. QED
  BY <1>1, <1>2

\* A kill preserves it: the new object has no file open, and what is left in the
\* directory are files.
LEMMA CrashIInv == IInv /\ Crash /\ UNCHANGED now => IInv'
<1> SUFFICES ASSUME IInv, Crash, UNCHANGED now PROVE IInv'
  OBVIOUS
<1>1. images \in Directory /\ parts \in Directory /\ streamAcc \in Contents
  BY DEF IInv, TypeOK, Directory
<1>2. images' \in Directory
  <2>1. ASSUME NEW p \in Prefixes(streamAcc), images' = [images EXCEPT ![now] = p]
        PROVE  images' \in Directory
    <3>1. p \in Contents
      BY <1>1, PrefixType
    <3>2. QED
      BY <1>1, <2>1, <3>1, ReplaceType
  <2>2. ASSUME ofs # "closed", NEW p \in Prefixes(parts[tmpPath]) \cup {NoFile},
               images' = [images EXCEPT ![finalPath] = p]
        PROVE  images' \in Directory
    <3>1. p \in Contents \cup {NoFile}
      BY <2>2, OpenFile, PrefixType
    <3>2. QED
      BY <1>1, <2>2, <3>1, ReplaceType
  <2>3. images' \in CrashedImages
    BY DEF Crash
  <2>4. QED
    BY <1>1, <2>1, <2>2, <2>3 DEF CrashedImages
<1>3. parts' \in Directory
  <2>1. ASSUME ofs # "closed", NEW p \in Prefixes(parts[tmpPath]),
               parts' = [parts EXCEPT ![tmpPath] = p]
        PROVE  parts' \in Directory
    <3>1. p \in Contents
      BY <2>1, OpenFile, PrefixType
    <3>2. QED
      BY <1>1, <2>1, <3>1, ReplaceType
  <2>2. QED
    BY <1>1, <2>1 DEF Crash, CrashedParts
<1>4. QED
  BY <1>2, <1>3, EmptyType
  DEF Crash, FreshObject, IInv, TypeOK, OpenHasPart, Directory

\* Every step preserves it.
LEMMA NextIInv == IInv /\ [Next]_vars => IInv'
<1> SUFFICES ASSUME IInv, [Next]_vars PROVE IInv'
  OBVIOUS
<1>1. ASSUME NEW f \in Fragments, PushFragment(f), UNCHANGED now PROVE IInv'
  BY <1>1, AppendType DEF PushFragment, IInv, TypeOK, OpenHasPart
<1>2. CASE SaveFinal /\ UNCHANGED now
  <2>1. images' \in Directory
    BY <1>2, SavedImagesType DEF SaveFinal, IInv, TypeOK, Directory
  <2>2. QED
    BY <1>2, <2>1 DEF SaveFinal, IInv, TypeOK, OpenHasPart, Directory
<1>3. CASE Clear /\ UNCHANGED now
  BY <1>3, EmptyType DEF Clear, IInv, TypeOK, OpenHasPart
<1>4. CASE Tick
  BY <1>4, BitstreamAssumption
  DEF Tick, memory, disk, Seconds, IInv, TypeOK, OpenHasPart
<1>5. CASE UNCHANGED vars
  BY <1>5 DEF vars, memory, disk, IInv, TypeOK, OpenHasPart
<1>6. QED
  BY <1>1, <1>2, <1>3, <1>4, <1>5, StartNewIInv, AppendDataIInv, FinishIInv,
     AbortIInv, CrashIInv
  DEF Next, Call

-----------------------------------------------------------------------------
(***************************************************************************)
(* The theorems.                                                           *)
(***************************************************************************)

\* The invariant holds in every state of the specification.
THEOREM Invariance == Spec => []IInv
<1>1. Init => IInv
  BY InitIInv
<1>2. IInv /\ [Next]_vars => IInv'
  BY NextIInv
<1>3. QED
  BY <1>1, <1>2, PTL DEF Spec

\* The members and the directory keep their types.
THEOREM TypeCorrect == Spec => []TypeOK
<1>1. IInv => TypeOK
  BY DEF IInv
<1>2. QED
  BY <1>1, Invariance, PTL

\* The stream is open exactly while there is a .part file of its own to rename or
\* to remove, and the final name belongs to it.
THEOREM OpenFileHasPart == Spec => []OpenHasPart
<1>1. IInv => OpenHasPart
  BY DEF IInv
<1>2. QED
  BY <1>1, Invariance, PTL

\* Only a kill or a failing remove leaves a .part file behind.
THEOREM NoOrphan == Spec => NoOrphanPart
<1>1. IInv /\ [Next]_vars => [OwnedPartGoes]_vars
  <2> SUFFICES ASSUME IInv, Next, ofs # "closed", tmpPath' # tmpPath,
                      "remove" \notin Faults, ~Crash
               PROVE  parts'[tmpPath] = NoFile
    BY DEF OwnedPartGoes
  <2>1. tmpPath \in Seconds /\ parts \in Directory
    BY OpenFile DEF IInv, TypeOK, Directory
  <2>2. PartRemoved(tmpPath) = {[parts EXCEPT ![tmpPath] = NoFile]}
    BY DEF PartRemoved
  <2>3. CASE StartNew
    <3>1. PICK left \in PartRemoved(tmpPath) :
             \/ parts' = [left EXCEPT ![now] = <<>>] /\ tmpPath' = now
             \/ parts' = left
      BY <2>3 DEF StartNew
    <3>2. left \in Directory /\ left[tmpPath] = NoFile
      BY <2>1, <2>2, NoFileIsNoContent DEF Directory
    <3>3. QED
      BY <2>1, <3>1, <3>2 DEF Directory
  <2>4. CASE Finish
    BY <2>1, <2>4 DEF Finish, Directory
  <2>5. CASE Abort
    BY <2>1, <2>2, <2>5 DEF Abort, Directory
  <2>6. CASE Tick
    BY <2>6 DEF Tick, memory
  <2>7. QED
    BY <2>3, <2>4, <2>5, <2>6
    DEF Next, Call, PushFragment, SaveFinal, Clear, AppendData
<1>2. QED
  BY <1>1, Invariance, PTL DEF Spec, NoOrphanPart

\* Closing the open file publishes all of it or nothing of it, under the name it
\* was started with, as long as writing and copying do not fail.
THEOREM PublishesWhole == Spec => ClosingPublishesWhole
<1>1. IInv /\ [Next]_vars => [ClosesWhole]_vars
  <2> SUFFICES ASSUME IInv, Next, ofs # "closed", ofs' = "closed",
                      "write" \notin Faults, "copy" \notin Faults, ~Crash
               PROVE  \/ images' = images
                      \/ images' = [images EXCEPT ![tmpPath] = parts[tmpPath]]
    BY DEF ClosesWhole
  <2>1. finalPath = tmpPath
    BY OpenFile
  <2>2. CASE Finish
    <3>1. Flushed = {parts[tmpPath]}
      BY DEF Flushed
    <3>2. Copied(parts[tmpPath]) = {parts[tmpPath]}
      BY DEF Copied
    <3>3. QED
      BY <2>1, <2>2, <3>1, <3>2 DEF Finish
  <2>3. CASE StartNew \/ Abort
    BY <2>3 DEF StartNew, Abort
  <2>4. QED
    BY <2>2, <2>3 DEF Next, Call, PushFragment, SaveFinal, Clear, AppendData,
                      Tick, memory
<1>2. QED
  BY <1>1, Invariance, PTL DEF Spec, ClosingPublishesWhole
=============================================================================
