----------------------------- MODULE LibraryFile -----------------------------
(***************************************************************************)
(* The pins of a notebook: .fastpad\library.ini, which other programs (a   *)
(* sync, the FastPad of another PC) write too, the copy of it the window   *)
(* works on, the operations kept until the next write, and the scans that  *)
(* read the file on a worker meanwhile.                                    *)
(* Sources: library/{mod, ops, store, model}.rs and                        *)
(* window/library_host/{load, pins, local_state, notebooks}.rs.            *)
(*                                                                         *)
(* A record is kept for its pin: what else it holds (path, fingerprint,    *)
(* deleted flag) is "bare" here, and the operations on it are "touch".     *)
(***************************************************************************)
CONSTANTS
  Notes,       \* the notes records are about
  Stamps,      \* FileStamp: what a write of the file leaves on it
  None,        \* Option::None
  Gaps         \* whether other programs write between two calls of one flush

\* Only the stamps somebody still holds matter: a write's is none of them.
ASSUME LibraryAssumption ==
  /\ Gaps \in BOOLEAN
  /\ None \notin BOOLEAN \cup Stamps
  /\ \A a, b, c \in Stamps \cup {None} : \E s \in Stamps : s \notin {a, b, c}

VARIABLES
  disk,    \* the file: absent, damaged or readable, its records and its stamp
  state,   \* LibraryState: library, metadata, stamp and pending, once loaded
  scan,    \* a load on its worker: not yet read, or what it read
  flush,   \* how far a flush has come, and what called it
  timer,   \* LIBRARY_WRITE_TIMER_ID is set
  failed,  \* history: the last flush was reported as failed
  asked    \* history: what the user last asked for each note, until another
           \* program says otherwise or FastPad ends before it is written

vars == <<disk, state, scan, flush, timer, failed, asked>>

-----------------------------------------------------------------------------
Record == {"none", "bare", "pinned"}
Library == [Notes -> Record]
Op == {"keep", "touch", "pin", "unpin", "drop"}

\* What a sequence of operations leaves to do for each note.
Pending == [Notes -> Op]
Metadata == {"ready", "unreadable", "busy"}
Stamp == Stamps \cup {None}   \* None: there is no file

NoRecords == [n \in Notes |-> "none"]
Nothing == [n \in Notes |-> "keep"]
Unloaded == [loaded |-> FALSE, library |-> NoRecords, metadata |-> "busy", stamp |-> None, pending |-> Nothing]
NoScan == [phase |-> "none", library |-> NoRecords, metadata |-> "busy", stamp |-> None, pending |-> Nothing]
NoFlush == [phase |-> "idle", caller |-> "timer"]

File == [kind : {"absent", "damaged", "ok"}, library : Library, stamp : Stamp]
State == [loaded : BOOLEAN, library : Library, metadata : Metadata, stamp : Stamp, pending : Pending]
Scan == [phase : {"none", "started", "read"}, library : Library, metadata : Metadata, stamp : Stamp,
         pending : Pending]
Flushing == [phase : {"idle", "write", "stamp"}, caller : {"timer", "close", "quit"}]

TypeOK ==
  /\ disk \in File
  /\ state \in State
  /\ scan \in Scan
  /\ flush \in Flushing
  /\ timer \in BOOLEAN
  /\ failed \in BOOLEAN
  /\ asked \in [Notes -> BOOLEAN \cup {None}]
  \* Only a library that was read, and has something to write, is written.
  /\ flush.phase # "idle" => state.loaded /\ state.metadata = "ready" /\ state.pending # Nothing

Init ==
  /\ disk = [kind |-> "absent", library |-> NoRecords, stamp |-> None]
  /\ state = Unloaded
  /\ scan = NoScan
  /\ flush = NoFlush
  /\ timer = FALSE
  /\ failed = FALSE
  /\ asked = [n \in Notes |-> None]

-----------------------------------------------------------------------------
(* The operations and their replay (ops.rs).                               *)

Apply(record, op) ==
  CASE op = "pin" -> "pinned"
    [] op = "unpin" -> "bare"
    [] op = "drop" -> "none"
    [] OTHER -> record

Replay(library, pending) == [n \in Notes |-> Apply(library[n], pending[n])]

\* The later of two operations on one note; a touch never undoes a pin.
Then(first, second) == IF second = "keep" \/ (second = "touch" /\ first # "keep") THEN first ELSE second
\* Mutant: a rescan's own operations replace those that waited.
AppendFirst(first, second) == first

Append(first, second) == [n \in Notes |-> Then(first[n], second[n])]

\* Library::prune
Pruned(library) == [n \in Notes |-> IF library[n] = "pinned" THEN "pinned" ELSE "none"]

Pinned(library, n) == library[n] = "pinned"
SamePins(one, other) == \A n \in Notes : Pinned(one, n) <=> Pinned(other, n)

-----------------------------------------------------------------------------
(* Other programs.                                                         *)

NewStamp == CHOOSE s \in Stamps : s \notin {disk.stamp, state.stamp, scan.stamp}

\* A note nobody here waits to write follows what the file now says.
Overruled(library) ==
  [n \in Notes |-> IF asked[n] # Pinned(library, n) /\ state.pending[n] \in {"keep", "touch"}
                   THEN None ELSE asked[n]]

Foreign ==
  /\ flush.phase = "idle" \/ Gaps
  /\ \/ \E library \in [Notes -> {"none", "pinned"}] :
          /\ disk' = [kind |-> "ok", library |-> library, stamp |-> NewStamp]
          /\ asked' = Overruled(library)
     \/ /\ disk' = [kind |-> "damaged", library |-> NoRecords, stamp |-> NewStamp]
        /\ UNCHANGED asked
     \/ /\ disk' = [kind |-> "absent", library |-> NoRecords, stamp |-> None]
        /\ asked' = Overruled(NoRecords)
  /\ UNCHANGED <<state, scan, flush, timer, failed>>

-----------------------------------------------------------------------------
(* A load or rescan, on its worker.                                        *)

BeginLoad ==
  /\ scan.phase = "none"
  /\ flush.phase = "idle"
  /\ scan' = [NoScan EXCEPT !.phase = "started"]
  /\ UNCHANGED <<disk, state, flush, timer, failed, asked>>

\* What store::read may report: it is busy while another program has the file open.
Reads ==
  CASE disk.kind = "ok" -> {[metadata |-> "ready", library |-> disk.library, stamp |-> disk.stamp]}
    [] disk.kind = "absent" -> {[metadata |-> "ready", library |-> NoRecords, stamp |-> None]}
    [] disk.kind = "damaged" -> {[metadata |-> "unreadable", library |-> NoRecords, stamp |-> disk.stamp]}

BusyRead == [metadata |-> "busy", library |-> NoRecords, stamp |-> None]

\* load: the file is read, and reconciled with the folder when it could be.
Load ==
  /\ scan.phase = "started"
  /\ \E read \in Reads \cup {BusyRead} :
     \E moved \in SUBSET {n \in Notes : read.library[n] # "none"} :
       scan' = [phase |-> "read", library |-> read.library, metadata |-> read.metadata, stamp |-> read.stamp,
                pending |-> [n \in Notes |-> IF n \in moved THEN "touch" ELSE "keep"]]
  /\ UNCHANGED <<disk, state, flush, timer, failed, asked>>

\* The folder could not be listed: nothing is installed.
LoadFails ==
  /\ scan.phase = "started"
  /\ scan' = NoScan
  /\ UNCHANGED <<disk, state, flush, timer, failed, asked>>

\* Mutant: the scan is taken to be newer than the library, always.
PreviousIsCurrentNever == FALSE

\* The live library flushed while the scan was reading an older file.
PreviousIsCurrent ==
  /\ state.metadata = "ready"
  /\ scan.metadata = "ready"
  /\ state.stamp # scan.stamp
  /\ disk.stamp = state.stamp

\* Mutant: what waits is kept, but not done to the library the scan read.
MergedUnreplayed ==
  CASE scan.metadata = "busy" -> state
    [] scan.metadata # "busy" /\ PreviousIsCurrent ->
         [state EXCEPT !.pending = Append(scan.pending, state.pending)]
    [] OTHER -> [loaded |-> TRUE, library |-> scan.library, metadata |-> scan.metadata, stamp |-> scan.stamp,
                 pending |-> Append(scan.pending, state.pending)]

\* merge_rescan
Merged ==
  CASE scan.metadata = "busy" -> state
    [] scan.metadata # "busy" /\ PreviousIsCurrent ->
         [state EXCEPT !.pending = Append(scan.pending, state.pending)]
    [] OTHER ->
         [loaded |-> TRUE,
          library |-> IF scan.metadata = "ready" THEN Replay(scan.library, state.pending) ELSE scan.library,
          metadata |-> scan.metadata,
          stamp |-> scan.stamp,
          pending |-> Append(scan.pending, state.pending)]

Fresh ==
  [loaded |-> TRUE, library |-> scan.library, metadata |-> scan.metadata, stamp |-> scan.stamp,
   pending |-> scan.pending]

\* Mutant: what waits to be written is left to the next operation's timer.
InstallUnscheduled ==
  /\ scan.phase = "read"
  /\ flush.phase = "idle"
  /\ state' = IF state.loaded THEN Merged ELSE Fresh
  /\ scan' = NoScan
  /\ UNCHANGED <<disk, flush, timer, failed, asked>>

\* install_of
Install ==
  /\ scan.phase = "read"
  /\ flush.phase = "idle"
  /\ state' = IF state.loaded THEN Merged ELSE Fresh
  /\ timer' = (timer \/ state'.pending # Nothing)
  /\ scan' = NoScan
  /\ UNCHANGED <<disk, flush, failed, asked>>

-----------------------------------------------------------------------------
(* What the user and FastPad's own file commands change.                   *)

ApplyOp(n, op) ==
  /\ state.loaded
  /\ flush.phase = "idle"
  /\ state' = [state EXCEPT !.library = [state.library EXCEPT ![n] = Apply(state.library[n], op)],
                            !.pending = [state.pending EXCEPT ![n] = Then(state.pending[n], op)]]
  /\ timer' = TRUE
  /\ UNCHANGED <<disk, scan, flush, failed>>

\* toggle_pin, and pin_in for a note that was moved here with its pin.
TogglePin(n) ==
  /\ state.metadata = "ready"
  /\ ApplyOp(n, IF Pinned(state.library, n) THEN "unpin" ELSE "pin")
  /\ asked' = [asked EXCEPT ![n] = ~Pinned(state.library, n)]

PinIn(n) ==
  /\ ApplyOp(n, "pin")
  /\ asked' = [asked EXCEPT ![n] = TRUE]

\* A rename or a deletion of a note that has a record; a note that leaves for
\* another notebook takes its record with it.
Touch(n) == state.library[n] # "none" /\ ApplyOp(n, "touch") /\ UNCHANGED asked

Depart(n) ==
  /\ state.library[n] # "none"
  /\ ApplyOp(n, "drop")
  /\ asked' = [asked EXCEPT ![n] = FALSE]

-----------------------------------------------------------------------------
(* flush, on the window's thread: look, write, read the stamp back.        *)

\* How a flush ends for its caller: a notebook closes unless its pins could not
\* be written; the window goes whatever came of it, and what was asked for and
\* not written goes with its memory.
Finish(caller, outcome, left) ==
  LET gone == caller = "quit" \/ (caller = "close" /\ outcome = "done")
  IN /\ flush' = NoFlush
     /\ state' = IF gone THEN Unloaded ELSE left
     /\ scan' = IF gone THEN NoScan ELSE scan
     /\ asked' = IF gone THEN [n \in Notes |-> IF left.pending[n] \in {"keep", "touch"} THEN asked[n] ELSE None]
                 ELSE asked
     /\ timer' = (~gone /\ (outcome = "busy" \/ (caller = "close" /\ outcome = "failed")))
     /\ failed' = (~gone /\ outcome = "failed")

\* Prune, then write, unless there is neither a file nor a record.
Prepare(caller, current) ==
  LET kept == [current EXCEPT !.library = Pruned(current.library)]
  IN \/ /\ kept.stamp = None /\ kept.library = NoRecords
        /\ Finish(caller, "done", [kept EXCEPT !.pending = Nothing])
     \/ /\ kept.stamp # None \/ kept.library # NoRecords
        /\ state' = kept
        /\ flush' = [phase |-> "write", caller |-> caller]
        /\ UNCHANGED <<scan, timer, failed, asked>>

\* Mutant: the stamp is not compared before the write.
LookNever == FALSE

\* The file is not the one the library was read from.
Changed == disk.stamp # state.stamp

FlushReads(caller) ==
  \E read \in Reads \cup {BusyRead} :
    \/ /\ read.metadata = "ready"
       /\ Prepare(caller, [state EXCEPT !.library = Replay(read.library, state.pending), !.stamp = read.stamp])
    \/ /\ read.metadata = "unreadable"
       /\ Finish(caller, "failed", [state EXCEPT !.metadata = "unreadable"])
    \/ /\ read.metadata = "busy"
       /\ Finish(caller, "busy", state)

Flush(caller) ==
  /\ state.loaded
  /\ flush.phase = "idle"
  /\ \/ /\ state.metadata # "ready" \/ state.pending = Nothing
        /\ Finish(caller, "done", state)
     \/ /\ state.metadata = "ready" /\ state.pending # Nothing
        /\ \/ ~Changed /\ Prepare(caller, state)
           \/ Changed /\ FlushReads(caller)
  /\ UNCHANGED disk

\* WM_TIMER, Notebook: Close, WM_CLOSE.
FlushTimer == timer /\ Flush("timer")
Close == Flush("close")
Quit == Flush("quit")

Write ==
  /\ flush.phase = "write"
  /\ \/ /\ disk' = [kind |-> "ok", library |-> state.library, stamp |-> NewStamp]
        /\ flush' = [flush EXCEPT !.phase = "stamp"]
        /\ UNCHANGED <<state, scan, timer, failed, asked>>
     \/ /\ Finish(flush.caller, "failed", state)
        /\ UNCHANGED disk

StampBack ==
  /\ flush.phase = "stamp"
  /\ \/ /\ disk.kind # "absent"
        /\ Finish(flush.caller, "done", [state EXCEPT !.stamp = disk.stamp, !.pending = Nothing])
     \/ /\ disk.kind = "absent"
        /\ Finish(flush.caller, "failed", state)
  /\ UNCHANGED disk

\* The process dies: what it knew is gone, the file is as it is.
Crash ==
  /\ state.loaded \/ scan.phase # "none"
  /\ state' = Unloaded
  /\ scan' = NoScan
  /\ flush' = NoFlush
  /\ timer' = FALSE
  /\ failed' = FALSE
  /\ asked' = [n \in Notes |-> IF state.pending[n] \in {"keep", "touch"} THEN asked[n] ELSE None]
  /\ UNCHANGED disk

Next ==
  \/ Foreign
  \/ BeginLoad \/ Load \/ LoadFails \/ Install
  \/ \E n \in Notes : TogglePin(n) \/ PinIn(n) \/ Touch(n) \/ Depart(n)
  \/ FlushTimer \/ Close \/ Quit \/ Write \/ StampBack
  \/ Crash

Spec == Init /\ [][Next]_vars

-----------------------------------------------------------------------------
(* Properties.                                                             *)

\* Whenever the stamp FastPad knows is the file's, the library it holds is
\* what the file says with the pending operations done: flush writes it
\* unread then (mod.rs, flush), after any order of scans, merges, operations,
\* busy and damaged spells.
StampMeansLibrary ==
  state.loaded /\ state.metadata = "ready" /\ state.stamp = disk.stamp =>
    /\ disk.kind # "damaged"
    /\ SamePins(state.library, Replay(disk.library, state.pending))

\* A write keeps what the file said of every note nobody here asked about and
\* never replaces a file FastPad cannot read (ops.rs: "so both sides' changes
\* survive"; store.rs: "an unreadable file is never overwritten").
WriteKeepsBoth ==
  [][flush.phase = "write" /\ flush'.phase = "stamp" =>
       /\ disk.kind # "damaged"
       /\ SamePins(disk'.library, Replay(disk.library, state.pending))]_vars

\* What the user asked for is in the file or waits to be replayed on it, through
\* every rescan, merge, re-read and failed write, until another program says
\* otherwise (mod.rs, merge_rescan: "without losing what changed while it ran").
AskedIsKept ==
  disk.kind # "damaged" =>
    \A n \in Notes : asked[n] # None => asked[n] = Pinned(Replay(disk.library, state.pending), n)

\* A rescan never puts an older library over one that is the file's: it may
\* have read the file before FastPad wrote it (mod.rs, merge_rescan).
Current == state.loaded /\ state.metadata = "ready" /\ state.stamp = disk.stamp
InstallKeepsCurrent == [][Install /\ scan.metadata # "unreadable" /\ Current => Current']_vars

\* What waits to be written has a timer, unless the user was told that the
\* write failed or that the file cannot be read.
PendingHasTimer ==
  state.loaded /\ state.pending # Nothing /\ state.metadata = "ready" /\ flush.phase = "idle" =>
    timer \/ failed

=============================================================================
