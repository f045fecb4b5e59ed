------------------------------ MODULE Bitstream ------------------------------
(***************************************************************************)
(* The class Bitstream of back/sgs/ros: the object g_bitstream in which    *)
(* the ground station collects image data, and the image directory it      *)
(* writes.  The class keeps two independent ways of producing an image     *)
(* file that share the directory and the naming rule:                      *)
(*                                                                         *)
(*   - an accumulator in memory (push_ccsds_fragment, save_final, clear),  *)
(*     used by TelemetryHandler::dispatch_payload;                         *)
(*   - a ".part" file that finish() renames and abort() deletes            *)
(*     (start_new, append, finish, abort), used by                         *)
(*     assemble_image_from_acc.                                            *)
(*                                                                         *)
(* A file is named after the second it is created in, so a path is         *)
(* represented by that second: images[s] is image-<s>.jpg and parts[s] is  *)
(* image-<s>.jpg.part.  File contents are sequences of fragments.  For the *)
(* file that is open, parts[s] is what the stream has accepted: a prefix   *)
(* of it is on disk until finish() flushes.  The options are the ones      *)
(* start_recv_tcp sets (no debug snapshots).                               *)
(*                                                                         *)
(* Every operation describes all of the variables below except the clock.  *)
(* The definitions whose name ends in "Mutant" are no part of the model:   *)
(* each is a plausible mistake in the operation that follows it, against   *)
(* which the properties of the runs are tried.                             *)
(***************************************************************************)
EXTENDS Naturals, Sequences

CONSTANTS
    Fragments,      \* the data fields of image packets
    MaxSecond,      \* bound on the clock
    MaxFragments,   \* bound on the fragments one object collects or writes
    Faults,         \* the file-system calls that may fail
    NoFile,         \* "there is no such file"
    NoPath          \* the empty path string

FaultKinds == {"mkdir", "open", "write", "rename", "copy", "remove"}

ASSUME BitstreamAssumption ==
    /\ MaxSecond \in Nat
    /\ MaxFragments \in Nat
    /\ Faults \subseteq FaultKinds
    /\ NoFile \notin Seq(Fragments)
    /\ NoPath \notin Nat

VARIABLES
    streamAcc,      \* stream_acc_
    savedFinal,     \* saved_final_
    ofs,            \* ofs_: "closed", "good", or "bad" (open, failbit set)
    tmpPath,        \* tmp_path_
    finalPath,      \* final_path_
    images,         \* the files image-<second>.jpg
    parts,          \* the files image-<second>.jpg.part
    now             \* the clock, in seconds

memory == <<streamAcc, savedFinal, ofs, tmpPath, finalPath>>
disk   == <<images, parts>>
vars   == <<memory, disk, now>>

Seconds  == 0 .. MaxSecond
Contents == Seq(Fragments)

Prefix(s, k) == SubSeq(s, 1, k)
Prefixes(s)  == {Prefix(s, k) : k \in 0 .. Len(s)}

\* A fresh object; the image directory is empty.
Init ==
    /\ streamAcc = <<>>
    /\ savedFinal = FALSE
    /\ ofs = "closed"
    /\ tmpPath = NoPath
    /\ finalPath = NoPath
    /\ images = [s \in Seconds |-> NoFile]
    /\ parts = [s \in Seconds |-> NoFile]
    /\ now = 0

-----------------------------------------------------------------------------
(***************************************************************************)
(* The accumulator.                                                        *)
(***************************************************************************)

\* push_ccsds_fragment for a non-empty fragment: it is appended whatever its
\* APID and sequence count are.
PushFragment(f) ==
    /\ streamAcc' = Append(streamAcc, f)
    /\ UNCHANGED <<savedFinal, ofs, tmpPath, finalPath, images, parts>>

\* What fopen("wb"), fwrite and fclose of save_final leave under the name of
\* the current second: all of it, nothing new when the directory or the file
\* cannot be opened, or a part of it.
SavedImages ==
    {[images EXCEPT ![now] = streamAcc]}
        \cup (IF Faults \cap {"mkdir", "open"} # {} THEN {images} ELSE {})
        \cup (IF "write" \in Faults
              THEN {[images EXCEPT ![now] = p] : p \in Prefixes(streamAcc)}
              ELSE {})

\* save_final: writes the accumulator under the current second's name, once
\* until the next clear().  The flag is set before the directory and the file
\* are known to be usable.
SaveFinal ==
    /\ \/ /\ streamAcc = <<>> \/ savedFinal
          /\ UNCHANGED <<savedFinal, images>>
       \/ /\ streamAcc # <<>>
          /\ ~savedFinal
          /\ savedFinal' = TRUE
          /\ images' \in SavedImages
    /\ UNCHANGED <<streamAcc, ofs, tmpPath, finalPath, parts>>

\* clear
Clear ==
    /\ streamAcc' = <<>>
    /\ savedFinal' = FALSE
    /\ UNCHANGED <<ofs, tmpPath, finalPath, images, parts>>

-----------------------------------------------------------------------------
(***************************************************************************)
(* The ".part" file.                                                       *)
(***************************************************************************)

\* What std::filesystem::remove(<p>.part) may leave behind.
PartRemoved(p) ==
    {[parts EXCEPT ![p] = NoFile]}
        \cup (IF "remove" \in Faults THEN {parts} ELSE {})

\* The clock is rounded up to the next second.
StartNewRoundedUpMutant ==
    /\ parts' = [s \in Seconds \cup {now + 1} |-> IF s = now + 1 THEN <<>> ELSE parts[s]]
    /\ ofs' = "good"
    /\ tmpPath' = now + 1
    /\ finalPath' = now + 1
    /\ UNCHANGED <<streamAcc, savedFinal, images>>

\* The open file is forgotten instead of aborted.
StartNewWithoutAbortMutant ==
    /\ parts' = [parts EXCEPT ![now] = <<>>]
    /\ ofs' = "good"
    /\ tmpPath' = now
    /\ finalPath' = now
    /\ UNCHANGED <<streamAcc, savedFinal, images>>

\* start_new and start_new_with_name: an open file is aborted first; then the
\* directory or the open may fail, and only a failed open clears the paths.
StartNew ==
    /\ \E left \in IF ofs = "closed" THEN {parts} ELSE PartRemoved(tmpPath) :
          \/ /\ parts' = [left EXCEPT ![now] = <<>>]
             /\ ofs' = "good"
             /\ tmpPath' = now
             /\ finalPath' = now
          \/ /\ "open" \in Faults
             /\ parts' = left
             /\ ofs' = "closed"
             /\ tmpPath' = NoPath
             /\ finalPath' = NoPath
          \/ /\ "mkdir" \in Faults
             /\ parts' = left
             /\ ofs' = "closed"
             /\ tmpPath' = NoPath
             /\ finalPath' = IF ofs = "closed" THEN finalPath ELSE NoPath
    /\ UNCHANGED <<streamAcc, savedFinal, images>>

\* append: nothing is written to a closed stream, nor to one whose failbit an
\* earlier write has set.
AppendData(f) ==
    /\ \/ /\ ofs # "good"
          /\ UNCHANGED <<ofs, parts>>
       \/ /\ ofs = "good"
          /\ parts' = [parts EXCEPT ![tmpPath] = Append(@, f)]
          /\ UNCHANGED ofs
       \/ /\ ofs = "good"
          /\ "write" \in Faults
          /\ ofs' = "bad"
          /\ UNCHANGED parts
    /\ UNCHANGED <<streamAcc, savedFinal, tmpPath, finalPath, images>>

\* What flush() and close() leave in the .part file: the result of neither is
\* looked at, so the file may miss what a failed write left in the buffer.
Flushed ==
    {parts[tmpPath]}
        \cup (IF "write" \in Faults THEN Prefixes(parts[tmpPath]) ELSE {})

\* What remove(final_path_) and copy_file leave under the final name when the
\* rename has failed: the copy, or, when copying fails, a part of it, nothing,
\* or the old file that could not be removed.
Copied(content) ==
    {content}
        \cup (IF "copy" \in Faults THEN Prefixes(content) \cup {NoFile} ELSE {})
        \cup (IF {"copy", "remove"} \subseteq Faults
              THEN {images[finalPath]} ELSE {})

\* The final name is derived again from the clock.
FinishNamedNowMutant ==
    /\ \/ /\ ofs = "closed"
          /\ UNCHANGED <<ofs, tmpPath, images, parts>>
       \/ /\ ofs # "closed"
          /\ ofs' = "closed"
          /\ tmpPath' = NoPath
          /\ images' = [images EXCEPT ![now] = parts[tmpPath]]
          /\ parts' = [parts EXCEPT ![tmpPath] = NoFile]
    /\ UNCHANGED <<streamAcc, savedFinal, finalPath>>

\* tmp_path_.clear() is left out.
FinishKeepsPathMutant ==
    /\ \/ /\ ofs = "closed"
          /\ UNCHANGED <<ofs, images, parts>>
       \/ /\ ofs # "closed"
          /\ ofs' = "closed"
          /\ images' = [images EXCEPT ![finalPath] = parts[tmpPath]]
          /\ parts' = [parts EXCEPT ![tmpPath] = NoFile]
    /\ UNCHANGED <<streamAcc, savedFinal, tmpPath, finalPath>>

\* finish: rename the .part file; when that fails, remove the final file, copy
\* the .part over it and remove the .part.  It reports success in every case.
Finish ==
    /\ \/ /\ ofs = "closed"
          /\ UNCHANGED <<ofs, tmpPath, images, parts>>
       \/ /\ ofs # "closed"
          /\ ofs' = "closed"
          /\ tmpPath' = NoPath
          /\ \E content \in Flushed :
                \/ /\ images' = [images EXCEPT ![finalPath] = content]
                   /\ parts' = [parts EXCEPT ![tmpPath] = NoFile]
                \/ /\ "rename" \in Faults
                   /\ \E copy \in Copied(content) :
                         images' = [images EXCEPT ![finalPath] = copy]
                   /\ \/ parts' = [parts EXCEPT ![tmpPath] = NoFile]
                      \/ /\ "remove" \in Faults
                         /\ parts' = [parts EXCEPT ![tmpPath] = content]
    /\ UNCHANGED <<streamAcc, savedFinal, finalPath>>

\* abort, which the destructor calls too.
Abort ==
    /\ \/ /\ ofs = "closed"
          /\ UNCHANGED <<ofs, tmpPath, finalPath, parts>>
       \/ /\ ofs # "closed"
          /\ ofs' = "closed"
          /\ tmpPath' = NoPath
          /\ finalPath' = NoPath
          /\ parts' \in PartRemoved(tmpPath)
    /\ UNCHANGED <<streamAcc, savedFinal, images>>

-----------------------------------------------------------------------------
(***************************************************************************)
(* The environment: the clock, and a process that is killed and restarted. *)
(***************************************************************************)

Tick ==
    /\ now < MaxSecond
    /\ now' = now + 1
    /\ UNCHANGED <<memory, disk>>

\* The object of the restarted process.
FreshObject ==
    /\ streamAcc' = <<>>
    /\ savedFinal' = FALSE
    /\ ofs' = "closed"
    /\ tmpPath' = NoPath
    /\ finalPath' = NoPath

\* What a kill leaves in the directory: the open .part file with what had left
\* the buffer; and, in the middle of save_final or of the copy of finish(), a
\* part of the final file.
CrashedParts ==
    IF ofs = "closed" THEN {parts}
    ELSE {[parts EXCEPT ![tmpPath] = p] : p \in Prefixes(parts[tmpPath])}

CrashedImages ==
    {images}
        \cup (IF streamAcc # <<>> /\ ~savedFinal
              THEN {[images EXCEPT ![now] = p] : p \in Prefixes(streamAcc)}
              ELSE {})
        \cup (IF ofs # "closed" /\ "rename" \in Faults
              THEN {[images EXCEPT ![finalPath] = p] :
                       p \in Prefixes(parts[tmpPath]) \cup {NoFile}}
              ELSE {})

\* The process dies without running destructors, inside save_final or outside
\* of it; a new one finds the files.
Crash ==
    /\ FreshObject
    /\ images' \in CrashedImages
    /\ parts' \in CrashedParts

Call ==
    \/ \E f \in Fragments : Len(streamAcc) < MaxFragments /\ PushFragment(f)
    \/ SaveFinal
    \/ Clear
    \/ StartNew
    \/ \E f \in Fragments :
          /\ ofs # "closed" => Len(parts[tmpPath]) < MaxFragments
          /\ AppendData(f)
    \/ Finish
    \/ Abort

Next ==
    \/ Call /\ UNCHANGED now
    \/ Crash /\ UNCHANGED now
    \/ Tick

Spec == Init /\ [][Next]_vars

-----------------------------------------------------------------------------
(***************************************************************************)
(* Properties.                                                             *)
(***************************************************************************)

\* The types of the members and of the directory.
TypeOK ==
    /\ streamAcc \in Contents
    /\ savedFinal \in BOOLEAN
    /\ ofs \in {"closed", "good", "bad"}
    /\ tmpPath \in Seconds \cup {NoPath}
    /\ finalPath \in Seconds \cup {NoPath}
    /\ images \in [Seconds -> Contents \cup {NoFile}]
    /\ parts \in [Seconds -> Contents \cup {NoFile}]
    /\ now \in Seconds

\* The stream, the two path members and the directory agree: the stream is open
\* exactly while tmp_path_ is set, it then writes a .part file that exists, and
\* the name finish() will publish is the one start_new() derived it from.
\* finish() and abort() rely on it when they rename or remove by path.
OpenHasPart ==
    /\ ofs = "closed" <=> tmpPath = NoPath
    /\ ofs # "closed" => finalPath = tmpPath /\ parts[tmpPath] # NoFile

\* A file that is open is closed only by a call that also takes its .part file
\* away, or by a start_new in the same second that truncates it; only a kill of
\* the process or a failing remove leaves a .part file nobody owns.
OwnedPartGoes ==
    ofs # "closed" /\ tmpPath' # tmpPath =>
        \/ parts'[tmpPath] = NoFile
        \/ Crash
        \/ "remove" \in Faults
NoOrphanPart == [][OwnedPartGoes]_vars

\* Closing the open file leaves the final name it was started under either as
\* it was or with everything the stream accepted, also when the rename fails and
\* finish() falls back on copying, and no other final name is touched, as long
\* as neither writing nor copying fails.  (A kill inside save_final, the other
\* path, or inside the fallback can leave half an image.)
ClosesWhole ==
    ofs # "closed" /\ ofs' = "closed" =>
        \/ images' = images
        \/ images' = [images EXCEPT ![tmpPath] = parts[tmpPath]]
        \/ Crash
        \/ Faults \cap {"write", "copy"} # {}
ClosingPublishesWhole == [][ClosesWhole]_vars
=============================================================================
