-------------------------- MODULE LibraryFileProofs --------------------------
(***************************************************************************)
(* Theorems about LibraryFile, for any notes and stamps.  Only the type    *)
(* invariant and PendingHasTimer hold when other programs write between    *)
(* the calls of one flush; the others are proved for Gaps = FALSE.         *)
(***************************************************************************)
EXTENDS LibraryFile, TLAPS

Kept == {"keep", "touch"}

LEMMA NewStampIsNew ==
  ASSUME disk.stamp \in Stamp, state.stamp \in Stamp, scan.stamp \in Stamp
  PROVE  NewStamp \in Stamps /\ NewStamp \notin {disk.stamp, state.stamp, scan.stamp} /\ NewStamp # None
<1>1. \E s \in Stamps : s \notin {disk.stamp, state.stamp, scan.stamp}
  BY LibraryAssumption DEF Stamp
<1> QED
  BY <1>1, LibraryAssumption DEF NewStamp

LEMMA ReplayType ==
  ASSUME NEW library \in Library, NEW pending \in Pending
  PROVE  Replay(library, pending) \in Library
BY DEF Replay, Apply, Library, Record, Pending, Op

LEMMA AppendType ==
  ASSUME NEW first \in Pending, NEW second \in Pending
  PROVE  Append(first, second) \in Pending
BY DEF Append, Then, Pending, Op

LEMMA PrunedType ==
  ASSUME NEW library
  PROVE  /\ Pruned(library) \in Library
         /\ SamePins(Pruned(library), library)
BY DEF Pruned, Library, Record, SamePins, Pinned

\* Operations that only touch a record change no pin.
LEMMA TouchingIsKeeping ==
  ASSUME NEW library \in Library, NEW first \in Pending, NEW second \in Pending,
         \A n \in Notes : first[n] \in Kept
  PROVE  Replay(library, Append(first, second)) = Replay(library, second)
<1>1. \A n \in Notes : Apply(library[n], Then(first[n], second[n])) = Apply(library[n], second[n])
  BY DEF Apply, Then, Pending, Op, Kept
<1>2. Append(first, second) = [n \in Notes |-> Then(first[n], second[n])]
  BY DEF Append
<1> QED
  BY <1>1, <1>2 DEF Replay

LEMMA ReadsType ==
  ASSUME disk \in File, NEW read \in Reads \cup {BusyRead}
  PROVE  /\ read.metadata \in Metadata
         /\ read.library \in Library
         /\ read.stamp \in Stamp
BY DEF File, Reads, BusyRead, Metadata, NoRecords, Library, Record, Stamp

-----------------------------------------------------------------------------
(* Types.                                                                  *)

\* A flush begins with these facts and keeps them until it ends.
MayFlush(s) == s \in State /\ s.loaded /\ s.metadata = "ready" /\ s.pending # Nothing

LEMMA UnloadedType == Unloaded \in State /\ NoScan \in Scan /\ NoFlush \in Flushing
BY DEF Unloaded, NoScan, NoFlush, State, Scan, Flushing, NoRecords, Nothing, Library, Record, Pending, Op,
       Metadata, Stamp

LEMMA FinishType ==
  ASSUME TypeOK, NEW caller, NEW outcome, NEW left \in State, Finish(caller, outcome, left), UNCHANGED disk
  PROVE  TypeOK'
<1>1. state' \in State /\ scan' \in Scan /\ flush' \in Flushing
  BY UnloadedType DEF Finish, TypeOK
<1>2. asked' \in [Notes -> BOOLEAN \cup {None}]
  BY DEF Finish, TypeOK
<1>3. timer' \in BOOLEAN /\ failed' \in BOOLEAN
  BY DEF Finish
<1>4. flush'.phase = "idle"
  BY DEF Finish, NoFlush
<1> QED
  BY <1>1, <1>2, <1>3, <1>4 DEF TypeOK

LEMMA PrepareType ==
  ASSUME TypeOK, NEW caller \in {"timer", "close", "quit"}, NEW current, MayFlush(current),
         Prepare(caller, current), UNCHANGED disk
  PROVE  TypeOK'
<1> DEFINE kept == [current EXCEPT !.library = Pruned(current.library)]
<1>1. kept \in State /\ kept.loaded /\ kept.metadata = "ready" /\ kept.pending # Nothing
  BY PrunedType DEF MayFlush, State
<1>2. CASE Finish(caller, "done", [kept EXCEPT !.pending = Nothing])
  <2>1. [kept EXCEPT !.pending = Nothing] \in State
    BY <1>1 DEF State, Nothing, Pending, Op
  <2> QED
    BY <1>2, <2>1, FinishType
<1>3. CASE /\ state' = kept
           /\ flush' = [phase |-> "write", caller |-> caller]
           /\ UNCHANGED <<scan, timer, failed, asked>>
  <2>1. flush' \in Flushing
    BY <1>3 DEF Flushing
  <2> QED
    BY <1>1, <1>3, <2>1 DEF TypeOK
<1> QED
  BY <1>2, <1>3 DEF Prepare

LEMMA FlushType ==
  ASSUME TypeOK, NEW caller \in {"timer", "close", "quit"}, Flush(caller)
  PROVE  TypeOK'
<1> state \in State /\ UNCHANGED disk
  BY DEF TypeOK, Flush
<1>1. CASE Finish(caller, "done", state)
  BY <1>1, FinishType
<1>2. CASE state.metadata = "ready" /\ state.pending # Nothing /\ Prepare(caller, state)
  BY <1>2, PrepareType DEF MayFlush, Flush
<1>3. CASE state.metadata = "ready" /\ state.pending # Nothing /\ FlushReads(caller)
  <2>1. PICK read \in Reads \cup {BusyRead} :
          \/ /\ read.metadata = "ready"
             /\ Prepare(caller, [state EXCEPT !.library = Replay(read.library, state.pending),
                                              !.stamp = read.stamp])
          \/ /\ read.metadata = "unreadable"
             /\ Finish(caller, "failed", [state EXCEPT !.metadata = "unreadable"])
          \/ /\ read.metadata = "busy"
             /\ Finish(caller, "busy", state)
    BY <1>3 DEF FlushReads
  <2>2. read.library \in Library /\ read.stamp \in Stamp
    BY ReadsType DEF TypeOK
  <2>3. Replay(read.library, state.pending) \in Library
    BY <2>2, ReplayType DEF State
  <2>4. MayFlush([state EXCEPT !.library = Replay(read.library, state.pending), !.stamp = read.stamp])
    BY <1>3, <2>2, <2>3 DEF MayFlush, State, Flush
  <2>5. [state EXCEPT !.metadata = "unreadable"] \in State
    BY DEF State, Metadata
  <2> QED
    BY <2>1, <2>4, <2>5, FinishType, PrepareType
<1> QED
  BY <1>1, <1>2, <1>3 DEF Flush

LEMMA MergedType ==
  ASSUME TypeOK, state.loaded
  PROVE  Merged \in State /\ Merged.loaded
<1> state \in State /\ scan \in Scan
  BY DEF TypeOK
<1>1. Append(scan.pending, state.pending) \in Pending
  BY AppendType DEF State, Scan
<1>2. Replay(scan.library, state.pending) \in Library
  BY ReplayType DEF State, Scan
<1>3. [state EXCEPT !.pending = Append(scan.pending, state.pending)] \in State
  BY <1>1 DEF State
<1>4. [loaded |-> TRUE,
       library |-> IF scan.metadata = "ready" THEN Replay(scan.library, state.pending) ELSE scan.library,
       metadata |-> scan.metadata,
       stamp |-> scan.stamp,
       pending |-> Append(scan.pending, state.pending)] \in State
  BY <1>1, <1>2 DEF State, Scan
<1> QED
  BY <1>3, <1>4 DEF Merged, State

LEMMA InitType == Init => TypeOK
<1> SUFFICES ASSUME Init PROVE TypeOK
  OBVIOUS
<1>1. disk \in File
  BY DEF Init, File, NoRecords, Library, Record, Stamp
<1>2. asked \in [Notes -> BOOLEAN \cup {None}]
  BY DEF Init
<1> QED
  BY <1>1, <1>2, UnloadedType DEF Init, TypeOK, NoFlush

LEMMA ApplyOpType ==
  ASSUME TypeOK, NEW n \in Notes, NEW op \in Op, ApplyOp(n, op),
         asked' \in [Notes -> BOOLEAN \cup {None}]
  PROVE  TypeOK'
<1> state \in State
  BY DEF TypeOK
<1>1. Apply(state.library[n], op) \in Record /\ Then(state.pending[n], op) \in Op
  BY DEF Apply, Then, State, Library, Record, Pending, Op
<1>2. [state.library EXCEPT ![n] = Apply(state.library[n], op)] \in Library
  BY <1>1 DEF State, Library
<1>3. [state.pending EXCEPT ![n] = Then(state.pending[n], op)] \in Pending
  BY <1>1 DEF State, Pending
<1>4. state' \in State
  BY <1>2, <1>3 DEF ApplyOp, State
<1> QED
  BY <1>4 DEF ApplyOp, TypeOK

LEMMA NextType == TypeOK /\ [Next]_vars => TypeOK'
<1> SUFFICES ASSUME TypeOK, [Next]_vars PROVE TypeOK'
  OBVIOUS
<1> disk \in File /\ state \in State /\ scan \in Scan
  BY DEF TypeOK
<1>1. CASE Foreign
  <2>1. NewStamp \in Stamp
    BY NewStampIsNew DEF File, State, Scan, Stamp
  <2>2. disk' \in File
    BY <1>1, <2>1 DEF Foreign, File, NoRecords, Library, Record, Stamp
  <2>3. asked' \in [Notes -> BOOLEAN \cup {None}]
    BY <1>1 DEF Foreign, Overruled, TypeOK
  <2> QED
    BY <1>1, <2>2, <2>3 DEF Foreign, TypeOK
<1>2. CASE BeginLoad \/ LoadFails
  <2>1. scan' \in Scan
    BY <1>2, UnloadedType DEF BeginLoad, LoadFails, Scan, NoScan
  <2> QED
    BY <1>2, <2>1 DEF BeginLoad, LoadFails, TypeOK
<1>3. CASE Load
  <2>1. PICK read \in Reads \cup {BusyRead}, moved \in SUBSET Notes :
          scan' = [phase |-> "read", library |-> read.library, metadata |-> read.metadata,
                   stamp |-> read.stamp,
                   pending |-> [n \in Notes |-> IF n \in moved THEN "touch" ELSE "keep"]]
    BY <1>3 DEF Load
  <2>2. scan' \in Scan
    BY <2>1, ReadsType DEF Scan, Pending, Op
  <2> QED
    BY <1>3, <2>2 DEF Load, TypeOK
<1>4. CASE Install
  <2>1. Fresh \in State
    BY DEF Fresh, State, Scan
  <2>2. state' \in State /\ scan' \in Scan
    BY <1>4, <2>1, MergedType, UnloadedType DEF Install
  <2> QED
    BY <1>4, <2>2 DEF Install, TypeOK
<1>5. ASSUME NEW n \in Notes, TogglePin(n) \/ PinIn(n) \/ Touch(n) \/ Depart(n) PROVE TypeOK'
  <2>1. asked' \in [Notes -> BOOLEAN \cup {None}]
    BY <1>5 DEF TogglePin, PinIn, Touch, Depart, Pinned, TypeOK
  <2> QED
    BY <1>5, <2>1, ApplyOpType DEF TogglePin, PinIn, Touch, Depart, Op
<1>6. CASE FlushTimer \/ Close \/ Quit
  BY <1>6, FlushType DEF FlushTimer, Close, Quit
<1>7. CASE Write
  <2>1. CASE /\ disk' = [kind |-> "ok", library |-> state.library, stamp |-> NewStamp]
             /\ flush' = [flush EXCEPT !.phase = "stamp"]
             /\ UNCHANGED <<state, scan, timer, failed, asked>>
    <3>1. disk' \in File
      BY <2>1, NewStampIsNew DEF File, State, Scan, Stamp
    <3>2. flush' \in Flushing
      BY <2>1 DEF TypeOK, Flushing
    <3> QED
      BY <1>7, <2>1, <3>1, <3>2 DEF Write, TypeOK
  <2>2. CASE Finish(flush.caller, "failed", state) /\ UNCHANGED disk
    BY <2>2, FinishType
  <2> QED
    BY <1>7, <2>1, <2>2 DEF Write
<1>8. CASE StampBack
  <2>1. [state EXCEPT !.stamp = disk.stamp, !.pending = Nothing] \in State
    BY DEF State, File, Nothing, Pending, Op
  <2> QED
    BY <1>8, <2>1, FinishType DEF StampBack
<1>9. CASE Crash
  <2>1. asked' \in [Notes -> BOOLEAN \cup {None}]
    BY <1>9 DEF Crash, TypeOK
  <2> QED
    BY <1>9, <2>1, UnloadedType DEF Crash, TypeOK, NoFlush
<1>10. CASE UNCHANGED vars
  BY <1>10 DEF vars, TypeOK
<1> QED
  BY <1>1, <1>2, <1>3, <1>4, <1>5, <1>6, <1>7, <1>8, <1>9, <1>10 DEF Next

\* Type correctness, and only a library that was read and has something to
\* write is ever written, whatever other programs do.
THEOREM TypeCorrect == Spec => []TypeOK
BY InitType, NextType, PTL DEF Spec

-----------------------------------------------------------------------------
(* The inductive invariant.                                                *)

\* A library with its stamp and its pending operations knows the file, and
\* where it knew of none, the file that is removed once more.
KnowsFile(s) ==
  s.metadata = "ready" /\ s.stamp = disk.stamp =>
    disk.kind # "damaged" /\ SamePins(s.library, Replay(disk.library, s.pending))
KnowsNone(s) ==
  s.metadata = "ready" /\ s.stamp = None => SamePins(s.library, Replay(NoRecords, s.pending))
Knows(s) == KnowsFile(s) /\ KnowsNone(s)

DiskShape ==
  /\ disk.stamp = None <=> disk.kind = "absent"
  /\ disk.kind # "ok" => disk.library = NoRecords

ScanKnows == Knows(scan) /\ \A n \in Notes : scan.pending[n] \in Kept

\* What was asked for and waits is what the operation does.
AskedWaits(s) == \A n \in Notes : asked[n] # None /\ s.pending[n] \notin Kept => asked[n] = (s.pending[n] = "pin")

\* What was asked for and does not wait is in the file.
AskedIsInFile(s) ==
  disk.kind # "damaged" =>
    \A n \in Notes : asked[n] # None /\ s.pending[n] \in Kept => asked[n] = Pinned(disk.library, n)

Asked(s) == AskedWaits(s) /\ AskedIsInFile(s)

\* How far a flush has come.
FlushKnows ==
  /\ flush.phase = "write" => state.stamp = disk.stamp
  /\ flush.phase = "stamp" => /\ disk.kind = "ok"
                              /\ state.stamp # disk.stamp
                              /\ SamePins(disk.library, state.library)
                              /\ SamePins(disk.library, Replay(disk.library, state.pending))

IInv ==
  /\ TypeOK
  /\ DiskShape
  /\ Knows(state)
  /\ ScanKnows
  /\ Asked(state)
  /\ FlushKnows
  /\ ~state.loaded => state = Unloaded

\* The part of the invariant that speaks of the file and a given library.
Sound(s) == s \in State /\ s.loaded /\ Knows(s) /\ Asked(s)

LEMMA KeepIsKept == \A n \in Notes : Nothing[n] \in Kept
BY DEF Nothing, Kept

LEMMA UnloadedKnows == Knows(Unloaded) /\ Knows(NoScan) /\ \A n \in Notes : NoScan.pending[n] \in Kept
BY KeepIsKept DEF Knows, KnowsFile, KnowsNone, Unloaded, NoScan

LEMMA FinishKnows ==
  ASSUME TypeOK, DiskShape, ScanKnows, NEW caller, NEW outcome, NEW left, Sound(left),
         Finish(caller, outcome, left), UNCHANGED disk
  PROVE  IInv'
<1> left \in State /\ left.loaded
  BY DEF Sound
<1>1. TypeOK'
  BY FinishType
<1>2. DiskShape'
  BY DEF DiskShape
<1>3. FlushKnows'
  BY DEF Finish, NoFlush, FlushKnows
<1>4. scan' = scan \/ scan' = NoScan
  BY DEF Finish
<1>5. ScanKnows'
  <2>1. CASE scan' = scan
    BY <2>1 DEF ScanKnows, Knows, KnowsFile, KnowsNone
  <2>2. CASE scan' = NoScan
    BY <2>2, UnloadedKnows DEF ScanKnows, Knows, KnowsFile, KnowsNone, NoScan
  <2> QED
    BY <1>4, <2>1, <2>2
<1>6. CASE state' = left /\ asked' = asked
  <2>1. Knows(left)' /\ Asked(left)'
    BY <1>6 DEF Sound, Knows, KnowsFile, KnowsNone, Asked, AskedWaits, AskedIsInFile
  <2> QED
    BY <1>1, <1>2, <1>3, <1>5, <1>6, <2>1 DEF IInv, Knows, KnowsFile, KnowsNone, Asked, AskedWaits, AskedIsInFile
<1>7. CASE /\ state' = Unloaded
           /\ asked' = [n \in Notes |-> IF left.pending[n] \in {"keep", "touch"} THEN asked[n] ELSE None]
  <2>1. Knows(state)'
    BY <1>7 DEF Knows, KnowsFile, KnowsNone, Unloaded
  <2>2. AskedWaits(state)'
    BY <1>7, KeepIsKept DEF AskedWaits, Unloaded
  <2>3. AskedIsInFile(state)'
    <3> SUFFICES ASSUME disk.kind # "damaged", NEW n \in Notes, asked'[n] # None
                 PROVE  asked'[n] = Pinned(disk.library, n)
      BY DEF AskedIsInFile
    <3>1. left.pending[n] \in Kept /\ asked'[n] = asked[n]
      BY <1>7 DEF Kept
    <3> QED
      BY <3>1 DEF Sound, Asked, AskedIsInFile
  <2> QED
    BY <1>1, <1>2, <1>3, <1>5, <1>7, <2>1, <2>2, <2>3 DEF IInv, Asked
<1> QED
  BY <1>6, <1>7 DEF Finish

\* A library that is current and has something to write, pruned, is written or
\* has nothing to say about a file that is not there.
LEMMA PrepareKnows ==
  ASSUME TypeOK, DiskShape, ScanKnows, NEW caller \in {"timer", "close", "quit"}, NEW current,
         MayFlush(current), Sound(current), current.stamp = disk.stamp,
         Prepare(caller, current), UNCHANGED disk
  PROVE  IInv'
<1> DEFINE kept == [current EXCEPT !.library = Pruned(current.library)]
           clear == [kept EXCEPT !.pending = Nothing]
<1> current \in State /\ disk \in File
  BY DEF MayFlush, TypeOK
<1>1. /\ kept.loaded /\ kept.metadata = "ready" /\ kept.stamp = disk.stamp
      /\ kept.pending = current.pending /\ kept.library = Pruned(current.library)
  BY DEF MayFlush, State
<1>2. kept \in State
  BY PrunedType DEF MayFlush, State
<1>3. SamePins(current.library, Replay(disk.library, current.pending)) /\ disk.kind # "damaged"
  BY DEF MayFlush, Sound, Knows, KnowsFile
<1>4. SamePins(kept.library, Replay(disk.library, kept.pending))
  BY <1>1, <1>3, PrunedType DEF SamePins
<1>5. Sound(kept)
  <2>1. KnowsFile(kept)
    BY <1>1, <1>3, <1>4 DEF KnowsFile
  <2>2. KnowsNone(kept)
    BY <1>1, <1>4 DEF KnowsNone, DiskShape
  <2>3. Asked(kept)
    BY <1>1 DEF Sound, Asked, AskedWaits, AskedIsInFile
  <2> QED
    BY <1>1, <1>2, <2>1, <2>2, <2>3 DEF Sound, Knows
<1>6. CASE kept.stamp = None /\ kept.library = NoRecords /\ Finish(caller, "done", clear)
  <2>1. clear \in State /\ clear.loaded /\ clear.pending = Nothing /\ clear.library = NoRecords /\ clear.stamp = None
    BY <1>1, <1>2, <1>6 DEF State, Nothing, Pending, Op
  <2>2. disk.kind = "absent" /\ disk.library = NoRecords
    BY <1>1, <1>6 DEF DiskShape
  <2>3. Replay(NoRecords, Nothing) = NoRecords
    BY DEF Replay, Apply, NoRecords, Nothing
  <2>4. Knows(clear)
    BY <2>1, <2>2, <2>3 DEF Knows, KnowsFile, KnowsNone, SamePins
  <2>5. \A n \in Notes : current.pending[n] # "pin"
    <3> SUFFICES ASSUME NEW n \in Notes, current.pending[n] = "pin" PROVE FALSE
      OBVIOUS
    <3>1. Pinned(Replay(disk.library, kept.pending), n)
      BY <1>1 DEF Replay, Apply, Pinned
    <3>2. ~Pinned(kept.library, n)
      BY <1>6 DEF Pinned, NoRecords
    <3> QED
      BY <1>4, <3>1, <3>2 DEF SamePins
  <2>6. AskedIsInFile(clear)
    <3> SUFFICES ASSUME NEW n \in Notes, asked[n] # None PROVE asked[n] = Pinned(disk.library, n)
      BY DEF AskedIsInFile
    <3>1. ~Pinned(disk.library, n)
      BY <2>2 DEF Pinned, NoRecords
    <3>2. CASE current.pending[n] \in Kept
      BY <1>3, <3>2 DEF Sound, Asked, AskedIsInFile
    <3>3. CASE current.pending[n] \notin Kept
      <4>1. asked[n] = (current.pending[n] = "pin")
        BY <3>3 DEF Sound, Asked, AskedWaits
      <4>2. (current.pending[n] = "pin") = FALSE
        BY <2>5
      <4>3. Pinned(disk.library, n) = FALSE
        BY <3>1 DEF Pinned
      <4> QED
        BY <4>1, <4>2, <4>3, Zenon
    <3> QED
      BY <3>2, <3>3
  <2>7. AskedWaits(clear)
    BY <2>1, KeepIsKept DEF AskedWaits
  <2> QED
    BY <1>6, <2>1, <2>4, <2>6, <2>7, FinishKnows DEF Sound, Asked
<1>7. CASE /\ state' = kept
           /\ flush' = [phase |-> "write", caller |-> caller]
           /\ UNCHANGED <<scan, timer, failed, asked>>
  <2>1. TypeOK'
    BY PrepareType
  <2>2. DiskShape' /\ ScanKnows'
    BY <1>7 DEF DiskShape, ScanKnows, Knows, KnowsFile, KnowsNone
  <2>3. FlushKnows'
    BY <1>1, <1>7 DEF FlushKnows
  <2>4. Knows(state)' /\ Asked(state)'
    BY <1>5, <1>7 DEF Sound, Knows, KnowsFile, KnowsNone, Asked, AskedWaits, AskedIsInFile
  <2> QED
    BY <1>1, <1>7, <2>1, <2>2, <2>3, <2>4 DEF IInv
<1> QED
  BY <1>6, <1>7 DEF Prepare

LEMMA FlushKeepsInv ==
  ASSUME IInv, NEW caller \in {"timer", "close", "quit"}, Flush(caller)
  PROVE  IInv'
<1> TypeOK /\ DiskShape /\ ScanKnows /\ state \in State /\ disk \in File /\ UNCHANGED disk
  BY DEF IInv, TypeOK, Flush
<1>1. Sound(state)
  BY DEF IInv, Sound, Flush
<1>2. CASE Finish(caller, "done", state)
  BY <1>1, <1>2, FinishKnows
<1>3. CASE state.metadata = "ready" /\ state.pending # Nothing /\ ~Changed /\ Prepare(caller, state)
  BY <1>1, <1>3, PrepareKnows DEF MayFlush, Sound, Changed
<1>4. CASE state.metadata = "ready" /\ state.pending # Nothing /\ Changed /\ FlushReads(caller)
  <2> DEFINE replayed(read) == [state EXCEPT !.library = Replay(read.library, state.pending), !.stamp = read.stamp]
             unread == [state EXCEPT !.metadata = "unreadable"]
  <2>1. PICK read \in Reads \cup {BusyRead} :
          \/ read.metadata = "ready" /\ Prepare(caller, replayed(read))
          \/ read.metadata = "unreadable" /\ Finish(caller, "failed", unread)
          \/ read.metadata = "busy" /\ Finish(caller, "busy", state)
    BY <1>4 DEF FlushReads
  <2>2. CASE read.metadata = "ready" /\ Prepare(caller, replayed(read))
    <3>1. read.library = disk.library /\ read.stamp = disk.stamp /\ disk.kind # "damaged"
      BY <2>2 DEF Reads, BusyRead, DiskShape, File
    <3>2. replayed(read).pending = state.pending /\ replayed(read).stamp = disk.stamp
          /\ replayed(read).library = Replay(disk.library, state.pending)
      BY <3>1 DEF State
    <3>3. MayFlush(replayed(read))
      BY <1>1, <1>4, <3>1, ReplayType DEF MayFlush, Sound, State, File
    <3>4. Sound(replayed(read))
      <4>1. Knows(replayed(read))
        BY <3>1, <3>2 DEF Knows, KnowsFile, KnowsNone, SamePins, DiskShape
      <4>2. Asked(replayed(read))
        BY <1>1, <3>2 DEF Sound, Asked, AskedWaits, AskedIsInFile
      <4> QED
        BY <3>3, <4>1, <4>2 DEF MayFlush, Sound
    <3> QED
      BY <2>2, <3>2, <3>3, <3>4, PrepareKnows
  <2>3. CASE read.metadata = "unreadable" /\ Finish(caller, "failed", unread)
    <3>1. unread \in State /\ unread.loaded /\ unread.metadata = "unreadable" /\ unread.pending = state.pending
      BY <1>1 DEF Sound, State, Metadata
    <3>2. Sound(unread)
      BY <1>1, <3>1 DEF Sound, Knows, KnowsFile, KnowsNone, Asked, AskedWaits, AskedIsInFile
    <3> QED
      BY <2>3, <3>2, FinishKnows
  <2>4. CASE read.metadata = "busy" /\ Finish(caller, "busy", state)
    BY <1>1, <2>4, FinishKnows
  <2> QED
    BY <2>1, <2>2, <2>3, <2>4
<1> QED
  BY <1>2, <1>3, <1>4 DEF Flush

\* What was asked for stays where it is when only touches are added.
LEMMA AskedStays ==
  ASSUME NEW s, NEW t, Asked(s),
         \A n \in Notes : t.pending[n] = s.pending[n] \/ (t.pending[n] \in Kept /\ s.pending[n] \in Kept)
  PROVE  Asked(t)
<1>1. AskedWaits(t)
  BY DEF Asked, AskedWaits
<1>2. AskedIsInFile(t)
  BY DEF Asked, AskedIsInFile
<1> QED
  BY <1>1, <1>2 DEF Asked

\* Libraries that agree but for touches agree after the same operations.
LEMMA ReplayBoth ==
  ASSUME NEW one, NEW other, NEW touches, NEW pending,
         \A n \in Notes : touches[n] \in Kept,
         SamePins(one, Replay(other, touches))
  PROVE  SamePins(Replay(one, pending), Replay(other, pending))
<1> SUFFICES ASSUME NEW n \in Notes
             PROVE  Pinned(Replay(one, pending), n) <=> Pinned(Replay(other, pending), n)
  BY DEF SamePins
<1>1. Replay(other, touches)[n] = other[n]
  BY DEF Replay, Apply, Kept
<1>2. (one[n] = "pinned") <=> (other[n] = "pinned")
  BY <1>1 DEF SamePins, Pinned
<1> QED
  BY <1>2 DEF Replay, Apply, Pinned

\* A merge knows the file whenever its stamp is the file's.
LEMMA MergedKnows ==
  ASSUME IInv, state.loaded, scan.phase = "read"
  PROVE  Knows(Merged) /\ Asked(Merged)
<1> state \in State /\ scan \in Scan
  BY DEF IInv, TypeOK
<1> DEFINE both == Append(scan.pending, state.pending)
           carried == [state EXCEPT !.pending = both]
           read == [loaded |-> TRUE,
                    library |-> IF scan.metadata = "ready" THEN Replay(scan.library, state.pending) ELSE scan.library,
                    metadata |-> scan.metadata,
                    stamp |-> scan.stamp,
                    pending |-> both]
<1>1. \A n \in Notes : scan.pending[n] \in Kept
  BY DEF IInv, ScanKnows
<1>2. /\ Replay(disk.library, both) = Replay(disk.library, state.pending)
      /\ Replay(NoRecords, both) = Replay(NoRecords, state.pending)
  BY <1>1, TouchingIsKeeping DEF IInv, TypeOK, File, State, Scan, NoRecords, Library, Record
<1>3. \A n \in Notes : both[n] = state.pending[n] \/ (both[n] \in Kept /\ state.pending[n] \in Kept)
  BY <1>1 DEF Append, Then, Kept, State, Pending, Op
<1>4. Merged = state \/ Merged = carried \/ Merged = read
  BY DEF Merged
<1>5. Merged.pending = state.pending \/ Merged.pending = both
  BY <1>4 DEF State
<1>6. Asked(Merged)
  BY <1>3, <1>5, AskedStays DEF IInv
<1>7. CASE Merged = state
  BY <1>7 DEF IInv
<1>8. CASE Merged = carried
  <2>1. carried.library = state.library /\ carried.stamp = state.stamp
        /\ carried.metadata = state.metadata /\ carried.pending = both
    BY DEF State
  <2>2. Knows(carried)
    BY <1>2, <2>1 DEF IInv, Knows, KnowsFile, KnowsNone
  <2> QED
    BY <1>6, <1>8, <2>2
<1>9. CASE Merged = read
  <2>1. read.metadata = scan.metadata /\ read.stamp = scan.stamp /\ read.pending = both
    OBVIOUS
  <2>2. scan.metadata = "ready" => read.library = Replay(scan.library, state.pending)
    OBVIOUS
  <2>3. KnowsFile(read)
    <3> SUFFICES ASSUME scan.metadata = "ready", scan.stamp = disk.stamp
                 PROVE  disk.kind # "damaged"
                        /\ SamePins(Replay(scan.library, state.pending), Replay(disk.library, state.pending))
      BY <1>2, <2>1, <2>2 DEF KnowsFile
    <3>1. disk.kind # "damaged" /\ SamePins(scan.library, Replay(disk.library, scan.pending))
      BY DEF IInv, ScanKnows, Knows, KnowsFile
    <3> QED
      BY <1>1, <3>1, ReplayBoth DEF IInv, TypeOK, File
  <2>4. KnowsNone(read)
    <3> SUFFICES ASSUME scan.metadata = "ready", scan.stamp = None
                 PROVE  SamePins(Replay(scan.library, state.pending), Replay(NoRecords, state.pending))
      BY <1>2, <2>1, <2>2 DEF KnowsNone
    <3>1. SamePins(scan.library, Replay(NoRecords, scan.pending))
      BY DEF IInv, ScanKnows, Knows, KnowsNone
    <3> QED
      BY <1>1, <3>1, ReplayBoth
  <2> QED
    BY <1>6, <1>9, <2>3, <2>4 DEF Knows
<1> QED
  BY <1>4, <1>6, <1>7, <1>8, <1>9

LEMMA ApplyOpKnows ==
  ASSUME IInv, NEW n \in Notes, NEW op \in Op, ApplyOp(n, op), TypeOK',
         op \in Kept => UNCHANGED asked,
         op \notin Kept => asked' = [asked EXCEPT ![n] = (op = "pin")]
  PROVE  IInv'
<1> DEFINE library == [state.library EXCEPT ![n] = Apply(state.library[n], op)]
           pending == [state.pending EXCEPT ![n] = Then(state.pending[n], op)]
<1> state \in State /\ disk \in File /\ UNCHANGED <<disk, scan, flush>>
  BY DEF IInv, TypeOK, ApplyOp
<1>1. state'.library = library /\ state'.pending = pending
      /\ state'.metadata = state.metadata /\ state'.stamp = state.stamp /\ state'.loaded
  BY DEF ApplyOp, State
<1>2. \A m \in Notes \ {n} : library[m] = state.library[m] /\ pending[m] = state.pending[m]
  BY DEF State, Library, Pending
<1>3. library[n] = Apply(state.library[n], op) /\ pending[n] = Then(state.pending[n], op)
  BY DEF State, Library, Pending
<1>4. ASSUME NEW base, SamePins(state.library, Replay(base, state.pending))
      PROVE  SamePins(library, Replay(base, pending))
  <2> SUFFICES ASSUME NEW m \in Notes
               PROVE  Pinned(library, m) <=> Pinned(Replay(base, pending), m)
    BY DEF SamePins
  <2>1. Pinned(state.library, m) <=> Pinned(Replay(base, state.pending), m)
    BY <1>4 DEF SamePins
  <2>2. CASE m # n
    BY <1>2, <2>1, <2>2 DEF Pinned, Replay
  <2>3. CASE m = n
    BY <1>3, <2>1, <2>3 DEF Pinned, Replay, Apply, Then, Op
  <2> QED
    BY <2>2, <2>3
<1>8. Knows(state)'
  BY <1>1, <1>4 DEF IInv, Knows, KnowsFile, KnowsNone
<1>5. AskedWaits(state)'
  <2> SUFFICES ASSUME NEW m \in Notes, asked'[m] # None, pending[m] \notin Kept
               PROVE  asked'[m] = (pending[m] = "pin")
    BY <1>1 DEF AskedWaits
  <2>1. CASE op \notin Kept /\ m = n
    BY <1>3, <2>1 DEF IInv, TypeOK, Then, Kept
  <2>2. CASE op \in Kept \/ m # n
    <3>1. pending[m] = state.pending[m]
      BY <1>2, <1>3, <2>2 DEF Then, Kept
    <3>2. asked'[m] = asked[m]
      BY <2>2 DEF IInv, TypeOK
    <3> QED
      BY <3>1, <3>2 DEF IInv, Asked, AskedWaits
  <2> QED
    BY <2>1, <2>2
<1>6. AskedIsInFile(state)'
  <2> SUFFICES ASSUME disk.kind # "damaged", NEW m \in Notes, asked'[m] # None, pending[m] \in Kept
               PROVE  asked'[m] = Pinned(disk.library, m)
    BY <1>1 DEF AskedIsInFile
  <2>1. ~(op \notin Kept /\ m = n)
    BY <1>3 DEF Then, Kept
  <2>2. state.pending[m] \in Kept
    BY <1>2, <1>3, <2>1 DEF Then, Kept, State, Pending, Op
  <2>3. asked'[m] = asked[m]
    BY <2>1 DEF IInv, TypeOK
  <2> QED
    BY <2>2, <2>3 DEF IInv, Asked, AskedIsInFile
<1>7. FlushKnows'
  BY DEF ApplyOp, FlushKnows
<1> QED
  BY <1>1, <1>5, <1>6, <1>7, <1>8 DEF IInv, DiskShape, ScanKnows, Knows, KnowsFile, KnowsNone, Asked

LEMMA InitKnows == Init => IInv
<1> SUFFICES ASSUME Init PROVE IInv
  OBVIOUS
<1>1. TypeOK
  BY InitType
<1>2. DiskShape
  BY DEF Init, DiskShape
<1>3. Knows(state) /\ ScanKnows
  BY UnloadedKnows DEF Init, ScanKnows
<1>4. Asked(state)
  BY DEF Init, Asked, AskedWaits, AskedIsInFile
<1> QED
  BY <1>1, <1>2, <1>3, <1>4 DEF Init, IInv, FlushKnows, NoFlush

LEMMA ForeignKnows ==
  ASSUME ~Gaps, IInv, Foreign, TypeOK'
  PROVE  IInv'
<1> DiskShape /\ disk \in File /\ state \in State /\ scan \in Scan
  BY DEF IInv, TypeOK
<1>1. flush.phase = "idle" /\ UNCHANGED <<state, scan, flush>>
  BY DEF Foreign
<1>2. NewStamp # None /\ NewStamp # state.stamp /\ NewStamp # scan.stamp
  BY NewStampIsNew DEF File, State, Scan
<1>3. DiskShape'
  BY <1>2 DEF Foreign, DiskShape
<1>4. disk'.stamp = NewStamp \/ disk' = [kind |-> "absent", library |-> NoRecords, stamp |-> None]
  BY DEF Foreign
<1>5. ASSUME NEW s, s.stamp # NewStamp, KnowsNone(s)
      PROVE  KnowsFile(s)'
  BY <1>4, <1>5 DEF KnowsFile, KnowsNone
<1>6. Knows(state)'
  BY <1>1, <1>2, <1>4 DEF IInv, Knows, KnowsFile, KnowsNone
<1>7. ScanKnows'
  BY <1>1, <1>2, <1>4 DEF IInv, ScanKnows, Knows, KnowsFile, KnowsNone
<1>8. Asked(state)'
  <2>1. CASE UNCHANGED asked /\ disk'.kind = "damaged"
    BY <1>1, <2>1 DEF IInv, Asked, AskedWaits, AskedIsInFile
  <2>2. ASSUME NEW library, asked' = Overruled(library), disk'.library = library
        PROVE  Asked(state)'
    <3>1. \A n \in Notes : asked'[n] # None => asked'[n] = asked[n]
      BY <2>2 DEF Overruled
    <3>2. \A n \in Notes : asked'[n] # None /\ state.pending[n] \in Kept => asked'[n] = Pinned(library, n)
      BY <2>2 DEF Overruled, Kept
    <3> QED
      BY <1>1, <2>2, <3>1, <3>2 DEF IInv, Asked, AskedWaits, AskedIsInFile
  <2> QED
    BY <2>1, <2>2 DEF Foreign
<1> QED
  BY <1>1, <1>3, <1>6, <1>7, <1>8 DEF IInv, FlushKnows

LEMMA ScanStepKnows ==
  ASSUME IInv, BeginLoad \/ Load \/ LoadFails, TypeOK'
  PROVE  IInv'
<1> DiskShape /\ disk \in File /\ UNCHANGED <<disk, state, flush, asked>>
  BY DEF IInv, TypeOK, BeginLoad, Load, LoadFails
<1>1. ScanKnows'
  <2>1. CASE BeginLoad \/ LoadFails
    <3>1. scan'.metadata = "busy" /\ scan'.pending = Nothing
      BY <2>1 DEF BeginLoad, LoadFails, NoScan
    <3> QED
      BY <3>1, KeepIsKept DEF ScanKnows, Knows, KnowsFile, KnowsNone
  <2>2. CASE Load
    <3>1. PICK read \in Reads \cup {BusyRead}, moved \in SUBSET Notes :
            scan' = [phase |-> "read", library |-> read.library, metadata |-> read.metadata,
                     stamp |-> read.stamp,
                     pending |-> [n \in Notes |-> IF n \in moved THEN "touch" ELSE "keep"]]
      BY <2>2 DEF Load
    <3>2. \A n \in Notes : scan'.pending[n] \in Kept
      BY <3>1 DEF Kept
    <3>3. read.metadata = "ready" =>
            read.library = disk.library /\ read.stamp = disk.stamp /\ disk.kind # "damaged"
      BY DEF Reads, BusyRead, DiskShape, File
    <3>4. \A library : SamePins(library, Replay(library, scan'.pending))
      BY <3>2 DEF SamePins, Pinned, Replay, Apply, Kept
    <3>5. scan'.metadata = read.metadata /\ scan'.stamp = read.stamp /\ scan'.library = read.library
      BY <3>1
    <3>6. KnowsFile(scan)'
      BY <3>3, <3>4, <3>5 DEF KnowsFile
    <3>7. KnowsNone(scan)'
      BY <3>3, <3>4, <3>5 DEF KnowsNone, DiskShape
    <3> QED
      BY <3>2, <3>6, <3>7 DEF ScanKnows, Knows
  <2> QED
    BY <2>1, <2>2
<1>2. Knows(state)' /\ Asked(state)' /\ FlushKnows' /\ DiskShape'
  BY DEF IInv, Knows, KnowsFile, KnowsNone, Asked, AskedWaits, AskedIsInFile, FlushKnows, DiskShape
<1> QED
  BY <1>1, <1>2 DEF IInv

LEMMA InstallKnows ==
  ASSUME IInv, Install, TypeOK'
  PROVE  IInv'
<1> UNCHANGED <<disk, flush, asked>> /\ scan' = NoScan /\ flush.phase = "idle"
  BY DEF Install
<1>1. ScanKnows' /\ DiskShape' /\ FlushKnows'
  BY UnloadedKnows DEF IInv, ScanKnows, Knows, KnowsFile, KnowsNone, NoScan, DiskShape, FlushKnows
<1>2. Knows(state') /\ Asked(state') /\ state'.loaded
  <2>1. CASE state.loaded
    BY <2>1, MergedKnows, MergedType DEF Install, IInv
  <2>2. CASE ~state.loaded
    <3>1. state' = Fresh /\ state.pending = Nothing
      BY <2>2 DEF Install, IInv, Unloaded
    <3>2. Knows(Fresh)
      BY DEF IInv, ScanKnows, Knows, KnowsFile, KnowsNone, Fresh
    <3>3. Asked(Fresh)
      <4>1. Asked(state) /\ \A n \in Notes : state.pending[n] \in Kept /\ Fresh.pending[n] \in Kept
        BY <3>1, KeepIsKept DEF IInv, ScanKnows, Fresh
      <4> QED
        BY <4>1, AskedStays
    <3> QED
      BY <3>1, <3>2, <3>3 DEF Fresh
  <2> QED
    BY <2>1, <2>2
<1>3. Knows(state)' /\ Asked(state)'
  BY <1>2 DEF Knows, KnowsFile, KnowsNone, Asked, AskedWaits, AskedIsInFile
<1> QED
  BY <1>1, <1>2, <1>3 DEF IInv

LEMMA WriteKnows ==
  ASSUME IInv, Write, TypeOK'
  PROVE  IInv'
<1> TypeOK /\ DiskShape /\ ScanKnows /\ disk \in File /\ state \in State /\ scan \in Scan
  BY DEF IInv, TypeOK
<1>1. flush.phase = "write" /\ state.loaded /\ state.metadata = "ready" /\ state.stamp = disk.stamp
  BY DEF Write, IInv, TypeOK, FlushKnows
<1>2. Sound(state)
  BY <1>1 DEF Sound, IInv
<1>3. CASE Finish(flush.caller, "failed", state) /\ UNCHANGED disk
  BY <1>2, <1>3, FinishKnows
<1>4. CASE /\ disk' = [kind |-> "ok", library |-> state.library, stamp |-> NewStamp]
           /\ flush' = [flush EXCEPT !.phase = "stamp"]
           /\ UNCHANGED <<state, scan, timer, failed, asked>>
  <2>1. NewStamp # None /\ NewStamp # state.stamp /\ NewStamp # scan.stamp
    BY NewStampIsNew DEF File, State, Scan
  <2>2. DiskShape'
    BY <1>4, <2>1 DEF DiskShape
  <2>3. disk.kind # "damaged" /\ SamePins(state.library, Replay(disk.library, state.pending))
    BY <1>1 DEF IInv, Knows, KnowsFile
  <2>4. SamePins(state.library, Replay(state.library, state.pending))
    BY <2>3 DEF SamePins, Pinned, Replay, Apply
  <2>5. FlushKnows'
    <3>1. flush'.phase = "stamp"
      BY <1>4 DEF TypeOK, Flushing
    <3> QED
      BY <1>4, <2>1, <2>4, <3>1 DEF FlushKnows, SamePins
  <2>6. Knows(state)' /\ ScanKnows'
    BY <1>4, <2>1 DEF IInv, ScanKnows, Knows, KnowsFile, KnowsNone
  <2>7. Asked(state)'
    <3>1. \A n \in Notes : state.pending[n] \in Kept => (Pinned(state.library, n) <=> Pinned(disk.library, n))
      BY <2>3 DEF SamePins, Pinned, Replay, Apply, Kept
    <3>2. \A n \in Notes : state.pending[n] \in Kept => Pinned(state.library, n) = Pinned(disk.library, n)
      BY <3>1 DEF Pinned
    <3>3. AskedIsInFile(state)'
      BY <1>4, <2>3, <3>2 DEF IInv, Asked, AskedIsInFile
    <3>4. AskedWaits(state)'
      BY <1>4 DEF IInv, Asked, AskedWaits
    <3> QED
      BY <3>3, <3>4 DEF Asked
  <2> QED
    BY <1>1, <1>4, <2>2, <2>5, <2>6, <2>7 DEF IInv
<1> QED
  BY <1>3, <1>4 DEF Write

LEMMA StampBackKnows ==
  ASSUME IInv, StampBack, TypeOK'
  PROVE  IInv'
<1> TypeOK /\ DiskShape /\ ScanKnows /\ disk \in File /\ state \in State /\ UNCHANGED disk
  BY DEF IInv, TypeOK, StampBack
<1> DEFINE done == [state EXCEPT !.stamp = disk.stamp, !.pending = Nothing]
<1>1. /\ disk.kind = "ok" /\ disk.stamp # None /\ state.loaded
      /\ SamePins(disk.library, state.library)
      /\ SamePins(disk.library, Replay(disk.library, state.pending))
  BY DEF StampBack, IInv, TypeOK, FlushKnows, DiskShape
<1>2. done \in State /\ done.loaded /\ done.stamp = disk.stamp /\ done.pending = Nothing /\ done.library = state.library
  BY <1>1 DEF State, File, Nothing, Pending, Op
<1>3. Knows(done)
  <2>1. SamePins(state.library, Replay(disk.library, Nothing))
    BY <1>1 DEF SamePins, Pinned, Replay, Apply, Nothing
  <2> QED
    BY <1>1, <1>2, <2>1 DEF Knows, KnowsFile, KnowsNone
<1>4. Asked(done)
  <2>1. AskedWaits(done)
    BY <1>2, KeepIsKept DEF AskedWaits
  <2>2. \A n \in Notes : asked[n] # None /\ state.pending[n] \notin Kept => asked[n] = Pinned(disk.library, n)
    <3> SUFFICES ASSUME NEW n \in Notes, asked[n] # None, state.pending[n] \notin Kept
                 PROVE  asked[n] = Pinned(disk.library, n)
      OBVIOUS
    <3>1. asked[n] = (state.pending[n] = "pin")
      BY DEF IInv, Asked, AskedWaits
    <3>2. Pinned(disk.library, n) <=> (state.pending[n] = "pin")
      BY <1>1 DEF SamePins, Pinned, Replay, Apply, Kept, State, Pending, Op
    <3>3. Pinned(disk.library, n) = (state.pending[n] = "pin")
      BY <3>2 DEF Pinned
    <3> QED
      BY <3>1, <3>3
  <2>3. AskedIsInFile(done)
    BY <1>1, <2>2 DEF IInv, Asked, AskedIsInFile
  <2> QED
    BY <2>1, <2>3 DEF Asked
<1>5. Finish(flush.caller, "done", done)
  BY <1>1 DEF StampBack
<1> QED
  BY <1>2, <1>3, <1>4, <1>5, FinishKnows DEF Sound

LEMMA CrashKnows ==
  ASSUME IInv, Crash, TypeOK'
  PROVE  IInv'
<1> UNCHANGED disk /\ state' = Unloaded /\ scan' = NoScan /\ flush' = NoFlush
  BY DEF Crash
<1>1. DiskShape' /\ FlushKnows' /\ ScanKnows' /\ Knows(state)'
  BY UnloadedKnows DEF IInv, DiskShape, FlushKnows, NoFlush, ScanKnows, Knows, KnowsFile, KnowsNone
<1>2. AskedWaits(state)'
  BY KeepIsKept DEF AskedWaits, Unloaded
<1>3. AskedIsInFile(state)'
  <2> SUFFICES ASSUME disk.kind # "damaged", NEW n \in Notes, asked'[n] # None
               PROVE  asked'[n] = Pinned(disk.library, n)
    BY DEF AskedIsInFile
  <2>1. state.pending[n] \in Kept /\ asked'[n] = asked[n]
    BY DEF Crash, Kept
  <2> QED
    BY <2>1 DEF IInv, Asked, AskedIsInFile
<1> QED
  BY <1>1, <1>2, <1>3 DEF IInv, Asked

LEMMA OperationKnows ==
  ASSUME IInv, TypeOK', NEW n \in Notes, TogglePin(n) \/ PinIn(n) \/ Touch(n) \/ Depart(n)
  PROVE  IInv'
<1> asked \in [Notes -> BOOLEAN \cup {None}]
  BY DEF IInv, TypeOK
<1>1. CASE TogglePin(n)
  <2> DEFINE op == IF Pinned(state.library, n) THEN "unpin" ELSE "pin"
  <2>1. ApplyOp(n, op) /\ asked' = [asked EXCEPT ![n] = ~Pinned(state.library, n)]
    BY <1>1 DEF TogglePin
  <2>2. CASE Pinned(state.library, n)
    <3>1. ("unpin" = "pin") = FALSE /\ (~Pinned(state.library, n)) = FALSE
      BY <2>2
    <3> QED
      BY <2>1, <2>2, <3>1, ApplyOpKnows DEF Op, Kept
  <2>3. CASE ~Pinned(state.library, n)
    <3>1. ("pin" = "pin") = TRUE /\ (~Pinned(state.library, n)) = TRUE
      BY <2>3
    <3> QED
      BY <2>1, <2>3, <3>1, ApplyOpKnows DEF Op, Kept
  <2> QED
    BY <2>2, <2>3
<1>2. CASE PinIn(n)
  <2>1. ("pin" = "pin") = TRUE
    OBVIOUS
  <2> QED
    BY <1>2, <2>1, ApplyOpKnows DEF PinIn, Op, Kept
<1>3. CASE Touch(n)
  BY <1>3, ApplyOpKnows DEF Touch, Op, Kept
<1>4. CASE Depart(n)
  <2>1. ("drop" = "pin") = FALSE
    OBVIOUS
  <2> QED
    BY <1>4, <2>1, ApplyOpKnows DEF Depart, Op, Kept
<1> QED
  BY <1>1, <1>2, <1>3, <1>4

LEMMA NextKnows == ~Gaps /\ IInv /\ [Next]_vars => IInv'
<1> SUFFICES ASSUME ~Gaps, IInv, [Next]_vars PROVE IInv'
  OBVIOUS
<1> TypeOK'
  BY NextType DEF IInv
<1>1. CASE Foreign
  BY <1>1, ForeignKnows
<1>2. CASE BeginLoad \/ Load \/ LoadFails
  BY <1>2, ScanStepKnows
<1>3. CASE Install
  BY <1>3, InstallKnows
<1>4. ASSUME NEW n \in Notes, TogglePin(n) \/ PinIn(n) \/ Touch(n) \/ Depart(n) PROVE IInv'
  BY <1>4, OperationKnows
<1>5. CASE FlushTimer \/ Close \/ Quit
  BY <1>5, FlushKeepsInv DEF FlushTimer, Close, Quit
<1>6. CASE Write
  BY <1>6, WriteKnows
<1>7. CASE StampBack
  BY <1>7, StampBackKnows
<1>8. CASE Crash
  BY <1>8, CrashKnows
<1>9. CASE UNCHANGED vars
  BY <1>9 DEF vars, IInv, TypeOK, DiskShape, Knows, KnowsFile, KnowsNone, ScanKnows, Asked, AskedWaits,
              AskedIsInFile, FlushKnows
<1> QED
  BY <1>1, <1>2, <1>3, <1>4, <1>5, <1>6, <1>7, <1>8, <1>9 DEF Next

LEMMA AlwaysIInv == ASSUME ~Gaps PROVE Spec => []IInv
BY InitKnows, NextKnows, PTL DEF Spec

-----------------------------------------------------------------------------
(* What it gives.                                                          *)

\* Whenever the stamp FastPad knows is the file's, the library it holds is
\* what the file says with the pending operations done.
THEOREM StampsAreTrue == ASSUME ~Gaps PROVE Spec => []StampMeansLibrary
<1>1. IInv => StampMeansLibrary
  BY DEF IInv, Knows, KnowsFile, StampMeansLibrary
<1> QED
  BY <1>1, AlwaysIInv, PTL

\* What the user asked for is in the file or waits to be done to it.
THEOREM RequestsAreKept == ASSUME ~Gaps PROVE Spec => []AskedIsKept
<1>1. IInv => AskedIsKept
  <2> SUFFICES ASSUME IInv, disk.kind # "damaged", NEW n \in Notes, asked[n] # None
               PROVE  asked[n] = Pinned(Replay(disk.library, state.pending), n)
    BY DEF AskedIsKept
  <2> state.pending \in Pending
    BY DEF IInv, TypeOK, State
  <2>1. CASE state.pending[n] \in Kept
    BY <2>1 DEF IInv, Asked, AskedIsInFile, Pinned, Replay, Apply, Kept
  <2>2. CASE state.pending[n] \notin Kept
    <3>1. asked[n] = (state.pending[n] = "pin")
      BY <2>2 DEF IInv, Asked, AskedWaits
    <3>2. (state.pending[n] = "pin") <=> Pinned(Replay(disk.library, state.pending), n)
      BY <2>2 DEF Pinned, Replay, Apply, Kept, Pending, Op
    <3>3. (state.pending[n] = "pin") = Pinned(Replay(disk.library, state.pending), n)
      BY <3>2 DEF Pinned
    <3> QED
      BY <3>1, <3>3
  <2> QED
    BY <2>1, <2>2
<1> QED
  BY <1>1, AlwaysIInv, PTL

\* A write keeps what the file said of the notes nobody here asked about, and
\* never replaces a file that cannot be read.
THEOREM WritesKeepBoth == ASSUME ~Gaps PROVE Spec => WriteKeepsBoth
<1> DEFINE Both == flush.phase = "write" /\ flush'.phase = "stamp" =>
                     /\ disk.kind # "damaged"
                     /\ SamePins(disk'.library, Replay(disk.library, state.pending))
<1>1. IInv /\ [Next]_vars => [Both]_vars
  <2> SUFFICES ASSUME IInv, Next, flush.phase = "write", flush'.phase = "stamp"
               PROVE  /\ disk.kind # "damaged"
                      /\ SamePins(disk'.library, Replay(disk.library, state.pending))
    OBVIOUS
  <2>1. state.loaded /\ state.metadata = "ready" /\ state.stamp = disk.stamp
    BY DEF IInv, TypeOK, FlushKnows
  <2>2. disk.kind # "damaged" /\ SamePins(state.library, Replay(disk.library, state.pending))
    BY <2>1 DEF IInv, Knows, KnowsFile
  <2>3. Write
    <3>1. ~Foreign /\ ~BeginLoad /\ ~Load /\ ~LoadFails /\ ~Install /\ ~StampBack /\ ~Crash
      BY DEF Foreign, BeginLoad, Load, LoadFails, Install, StampBack, Crash, NoFlush
    <3>2. \A n \in Notes : ~(TogglePin(n) \/ PinIn(n) \/ Touch(n) \/ Depart(n))
      BY DEF TogglePin, PinIn, Touch, Depart, ApplyOp
    <3>3. ~FlushTimer /\ ~Close /\ ~Quit
      BY DEF FlushTimer, Close, Quit, Flush
    <3> QED
      BY <3>1, <3>2, <3>3 DEF Next
  <2>4. disk'.library = state.library
    BY <2>3 DEF Write, Finish, NoFlush
  <2> QED
    BY <2>2, <2>4
<1> QED
  BY <1>1, AlwaysIInv, PTL DEF Spec, WriteKeepsBoth

\* A rescan never puts an older library over one that is the file's.
THEOREM InstallsKeepCurrent == Spec => InstallKeepsCurrent
<1>1. TypeOK /\ Install /\ scan.metadata # "unreadable" /\ Current => Current'
  <2> SUFFICES ASSUME TypeOK, Install, scan.metadata # "unreadable", Current PROVE Current'
    OBVIOUS
  <2> scan.metadata \in Metadata
    BY DEF TypeOK, Scan
  <2>1. state' = Merged /\ UNCHANGED disk
    BY DEF Install, Current
  <2>2. CASE scan.metadata = "busy"
    BY <2>1, <2>2 DEF Merged, Current
  <2>3. CASE scan.metadata # "busy" /\ PreviousIsCurrent
    <3>1. state' = [state EXCEPT !.pending = Append(scan.pending, state.pending)]
      BY <2>1, <2>3 DEF Merged
    <3> QED
      BY <2>1, <3>1 DEF Current
  <2>4. CASE scan.metadata # "busy" /\ ~PreviousIsCurrent
    <3>1. /\ state'.loaded = TRUE
          /\ state'.metadata = scan.metadata
          /\ state'.stamp = scan.stamp
      BY <2>1, <2>4 DEF Merged
    <3>2. scan.metadata = "ready" => state.stamp = scan.stamp
      BY <2>4 DEF PreviousIsCurrent, Current
    <3> QED
      BY <2>1, <2>4, <3>1, <3>2 DEF Current, Metadata
  <2> QED
    BY <2>2, <2>3, <2>4
<1> QED
  BY <1>1, TypeCorrect, PTL DEF InstallKeepsCurrent

-----------------------------------------------------------------------------
(* PendingHasTimer: the end of a flush, and what else touches its terms.   *)

\* A flush that ends leaves nothing to write, a library that is not written,
\* or a caller who is told.
LEMMA FinishSchedules ==
  ASSUME NEW caller, NEW outcome \in {"done", "busy", "failed"}, NEW left,
         outcome = "done" => left.pending = Nothing \/ left.metadata # "ready",
         Finish(caller, outcome, left)
  PROVE  PendingHasTimer'
BY DEF Finish, PendingHasTimer, Unloaded

LEMMA PrepareSchedules ==
  ASSUME NEW caller, NEW current \in State, Prepare(caller, current)
  PROVE  PendingHasTimer'
<1> DEFINE kept == [current EXCEPT !.library = Pruned(current.library)]
<1>1. CASE Finish(caller, "done", [kept EXCEPT !.pending = Nothing])
  <2>1. [kept EXCEPT !.pending = Nothing].pending = Nothing
    BY DEF State
  <2> QED
    BY <1>1, <2>1, FinishSchedules
<1>2. CASE flush' = [phase |-> "write", caller |-> caller]
  BY <1>2 DEF PendingHasTimer
<1> QED
  BY <1>1, <1>2 DEF Prepare

LEMMA FlushSchedules ==
  ASSUME TypeOK, NEW caller, Flush(caller)
  PROVE  PendingHasTimer'
<1> state \in State /\ disk \in File
  BY DEF TypeOK
<1>1. CASE (state.metadata # "ready" \/ state.pending = Nothing) /\ Finish(caller, "done", state)
  BY <1>1, FinishSchedules
<1>2. CASE Prepare(caller, state)
  BY <1>2, PrepareSchedules
<1>3. CASE FlushReads(caller)
  <2>1. PICK read \in Reads \cup {BusyRead} :
          \/ /\ read.metadata = "ready"
             /\ Prepare(caller, [state EXCEPT !.library = Replay(read.library, state.pending),
                                              !.stamp = read.stamp])
          \/ /\ read.metadata = "unreadable"
             /\ Finish(caller, "failed", [state EXCEPT !.metadata = "unreadable"])
          \/ /\ read.metadata = "busy"
             /\ Finish(caller, "busy", state)
    BY <1>3 DEF FlushReads
  <2>2. read.library \in Library /\ read.stamp \in Stamp
    BY ReadsType
  <2>3. Replay(read.library, state.pending) \in Library
    BY <2>2, ReplayType DEF State
  <2>4. [state EXCEPT !.library = Replay(read.library, state.pending), !.stamp = read.stamp] \in State
    BY <2>2, <2>3 DEF State
  <2> QED
    BY <2>1, <2>4, FinishSchedules, PrepareSchedules
<1> QED
  BY <1>1, <1>2, <1>3 DEF Flush

\* What waits to be written has a timer, or the user was told, whatever other
\* programs do to the file.
THEOREM PendingIsScheduled == Spec => []PendingHasTimer
<1>1. Init => PendingHasTimer
  BY DEF Init, PendingHasTimer, Unloaded
<1>2. TypeOK /\ PendingHasTimer /\ [Next]_vars => PendingHasTimer'
  <2> SUFFICES ASSUME TypeOK, PendingHasTimer, [Next]_vars PROVE PendingHasTimer'
    OBVIOUS
  <2>1. CASE Foreign \/ BeginLoad \/ Load \/ LoadFails
    BY <2>1 DEF Foreign, BeginLoad, Load, LoadFails, PendingHasTimer
  <2>2. CASE Install
    BY <2>2 DEF Install, PendingHasTimer
  <2>3. ASSUME NEW n \in Notes, TogglePin(n) \/ PinIn(n) \/ Touch(n) \/ Depart(n) PROVE PendingHasTimer'
    BY <2>3 DEF TogglePin, PinIn, Touch, Depart, ApplyOp, PendingHasTimer
  <2>4. CASE FlushTimer \/ Close \/ Quit
    BY <2>4, FlushSchedules DEF FlushTimer, Close, Quit
  <2>5. CASE Write
    <3>1. CASE Finish(flush.caller, "failed", state)
      BY <3>1, FinishSchedules
    <3>2. CASE flush' = [flush EXCEPT !.phase = "stamp"]
      <4>1. flush'.phase = "stamp"
        BY <3>2 DEF TypeOK, Flushing
      <4> QED
        BY <4>1 DEF PendingHasTimer
    <3> QED
      BY <2>5, <3>1, <3>2 DEF Write
  <2>6. CASE StampBack
    <3>1. [state EXCEPT !.stamp = disk.stamp, !.pending = Nothing].pending = Nothing
      BY DEF TypeOK, State
    <3> QED
      BY <2>6, <3>1, FinishSchedules DEF StampBack
  <2>7. CASE Crash
    BY <2>7 DEF Crash, PendingHasTimer, Unloaded
  <2>8. CASE UNCHANGED vars
    BY <2>8 DEF vars, PendingHasTimer
  <2> QED
    BY <2>1, <2>2, <2>3, <2>4, <2>5, <2>6, <2>7, <2>8 DEF Next
<1> QED
  BY <1>1, <1>2, TypeCorrect, PTL DEF Spec

==============================================================================
