----------------------------- MODULE AtomicSave -----------------------------
(***************************************************************************)
(* The atomic save of file/saver.rs, one system call at a time: write a    *)
(* sibling temp file, flush it, swap it in with ReplaceFileW or            *)
(* MoveFileExW, retry a swap another program blocked, clean up.  Several   *)
(* threads or processes may be saving the same file, other programs write  *)
(* and delete it, and a process may die between any two calls.             *)
(***************************************************************************)
EXTENDS Naturals

CONSTANTS
  Saver,     \* the threads that save this file, of any process
  Text,      \* whole texts
  NoFile,    \* a path nothing is at
  Partial,   \* a file whose text is not all there yet
  Retries,   \* SWAP_RETRY_DELAYS_MS.len()
  Others,    \* what other programs do to the file: "write", "delete", "create"
  MaxSaves   \* bound on the saves of each saver

ASSUME AtomicSaveAssumption ==
  /\ NoFile \notin Text
  /\ Partial \notin Text
  /\ NoFile # Partial
  /\ Retries \in Nat
  /\ MaxSaves \in Nat
  /\ Others \subseteq {"write", "delete", "create"}

VARIABLES
  dest,   \* the file being saved
  temps,  \* the temp files, by saver and counter
  call,   \* where each saver is in write_then_swap
  count,  \* COUNTER: the temp names each saver has used
  lost    \* dest is missing because a swap removed it (history)

vars == <<dest, temps, call, count, lost>>

-----------------------------------------------------------------------------
Content == Text \cup {NoFile, Partial}
Swapping == {"look", "replace", "move"}
Call == [at : {"idle", "create", "write", "clean", "remove", "saved", "dead"} \cup Swapping,
         text : Text \cup {NoFile},
         new : BOOLEAN,       \* create_new
         existed : BOOLEAN,   \* path.exists() before anything else
         tries : 0..Retries]

TypeOK ==
  /\ dest \in Content
  /\ temps \in [Saver \X (1..MaxSaves) -> Content]
  /\ call \in [Saver -> Call]
  /\ count \in [Saver -> 0..MaxSaves]
  /\ lost \in BOOLEAN

NoCall == [at |-> "idle", text |-> NoFile, new |-> FALSE, existed |-> FALSE, tries |-> 0]

Init ==
  /\ dest \in Text \cup {NoFile}
  /\ temps = [n \in Saver \X (1..MaxSaves) |-> NoFile]
  /\ call = [s \in Saver |-> NoCall]
  /\ count = [s \in Saver |-> 0]
  /\ lost = FALSE

Temp(s) == <<s, count[s]>>
At(s, at) == call' = [call EXCEPT ![s].at = at]

-----------------------------------------------------------------------------
(* One call of save_atomic or save_atomic_new.                             *)

Start(s, t, new) ==
  /\ call[s].at = "idle"
  /\ count[s] < MaxSaves
  /\ count' = [count EXCEPT ![s] = @ + 1]
  /\ call' = [call EXCEPT ![s] = [at |-> "create", text |-> t, new |-> new,
                                  existed |-> dest # NoFile, tries |-> 0]]
  /\ UNCHANGED <<dest, temps, lost>>

\* The counter makes the name new, so only the disk can refuse.
CreateTemp(s) ==
  /\ call[s].at = "create"
  /\ \/ /\ temps' = [temps EXCEPT ![Temp(s)] = Partial]
        /\ At(s, "write")
     \/ /\ At(s, "clean")
        /\ UNCHANGED temps
  /\ UNCHANGED <<dest, count, lost>>

\* Mutant: a save under a new name swaps as any other does.
FirstSwapAlike(s) == "look"

\* A save under a new name never looks whether the file exists.
FirstSwap(s) == IF call[s].new THEN "move" ELSE "look"

WriteTemp(s) ==
  /\ call[s].at = "write"
  /\ \/ /\ temps' = [temps EXCEPT ![Temp(s)] = call[s].text]
        /\ At(s, FirstSwap(s))
     \/ /\ At(s, "clean")
        /\ UNCHANGED temps
  /\ UNCHANGED <<dest, count, lost>>

Look(s) ==
  /\ call[s].at = "look"
  /\ At(s, IF dest = NoFile THEN "move" ELSE "replace")
  /\ UNCHANGED <<dest, temps, count, lost>>

\* Mutant: a blocked swap is retried for as long as it takes.
BlockedForGood(s) == At(s, FirstSwap(s))

\* Mutant: a swap still blocked after the last retry counts as done.
BlockedIsDone(s) ==
  IF call[s].tries < Retries
  THEN call' = [call EXCEPT ![s] = [call[s] EXCEPT !.at = FirstSwap(s), !.tries = @ + 1]]
  ELSE At(s, "saved")

\* A transient error: swap again, until the delays are used up.
Blocked(s) ==
  IF call[s].tries < Retries
  THEN call' = [call EXCEPT ![s] = [call[s] EXCEPT !.at = FirstSwap(s), !.tries = @ + 1]]
  ELSE At(s, "clean")

Swapped(s) ==
  /\ dest' = temps[Temp(s)]
  /\ temps' = [temps EXCEPT ![Temp(s)] = NoFile]
  /\ lost' = FALSE
  /\ At(s, "saved")

\* ReplaceFileW: done; refused for a moment; refused; or the file removed and
\* the temp file still under its own name (ERROR_UNABLE_TO_MOVE_REPLACEMENT).
Replace(s) ==
  /\ call[s].at = "replace"
  /\ \/ dest # NoFile /\ Swapped(s)
     \/ dest # NoFile /\ Blocked(s) /\ UNCHANGED <<dest, temps, lost>>
     \/ dest # NoFile /\ Blocked(s) /\ dest' = NoFile /\ lost' = TRUE /\ UNCHANGED temps
     \/ At(s, "clean") /\ UNCHANGED <<dest, temps, lost>>
  /\ UNCHANGED count

\* MoveFileExW without MOVEFILE_REPLACE_EXISTING refuses a name that is taken.
Move(s) ==
  /\ call[s].at = "move"
  /\ \/ dest = NoFile /\ Swapped(s)
     \/ dest = NoFile /\ Blocked(s) /\ UNCHANGED <<dest, temps, lost>>
     \/ At(s, "clean") /\ UNCHANGED <<dest, temps, lost>>
  /\ UNCHANGED count

\* A replace that removed the file leaves the temp file as the only copy.
KeepsTemp(s) == call[s].existed /\ ~call[s].new /\ dest = NoFile

Clean(s) ==
  /\ call[s].at = "clean"
  /\ call' = [call EXCEPT ![s] = IF KeepsTemp(s) THEN NoCall ELSE [@ EXCEPT !.at = "remove"]]
  /\ UNCHANGED <<dest, temps, count, lost>>

\* Removing the temp file may fail, and nobody looks.
RemoveTemp(s) ==
  /\ call[s].at = "remove"
  /\ call' = [call EXCEPT ![s] = NoCall]
  /\ \/ temps' = [temps EXCEPT ![Temp(s)] = NoFile]
     \/ UNCHANGED temps
  /\ UNCHANGED <<dest, count, lost>>

Return(s) ==
  /\ call[s].at = "saved"
  /\ call' = [call EXCEPT ![s] = NoCall]
  /\ UNCHANGED <<dest, temps, count, lost>>

\* The process dies, or the machine does.
Crash(s) ==
  /\ call[s].at # "dead"
  /\ call' = [call EXCEPT ![s] = [NoCall EXCEPT !.at = "dead"]]
  /\ UNCHANGED <<dest, temps, count, lost>>

-----------------------------------------------------------------------------
(* Other programs.                                                         *)

OtherWrites(t) ==
  /\ IF dest = NoFile THEN "create" \in Others ELSE "write" \in Others
  /\ dest' = t
  /\ lost' = FALSE
  /\ UNCHANGED <<temps, call, count>>

OtherDeletes ==
  /\ "delete" \in Others
  /\ dest # NoFile
  /\ dest' = NoFile
  /\ UNCHANGED <<temps, call, count, lost>>

SaverStep(s) ==
  \/ CreateTemp(s) \/ WriteTemp(s)
  \/ Look(s) \/ Replace(s) \/ Move(s)
  \/ Clean(s) \/ RemoveTemp(s) \/ Return(s)

Next ==
  \/ \E s \in Saver : SaverStep(s) \/ Crash(s) \/ \E t \in Text, new \in BOOLEAN : Start(s, t, new)
  \/ \E t \in Text : OtherWrites(t)
  \/ OtherDeletes

Spec == Init /\ [][Next]_vars

\* A thread in the middle of a save keeps running; nothing forces it to start.
Fairness == \A s \in Saver : WF_vars(SaverStep(s))
FairSpec == Spec /\ Fairness

-----------------------------------------------------------------------------
(* Properties.                                                             *)

\* save_atomic writes "without ever exposing partial content": at no moment,
\* a crash included, does the file hold a text nobody wrote whole.
NeverPartial == dest # Partial

\* A file that a swap removed leaves a whole copy of the text that was to
\* replace it in a temp file ("it stays rather than losing both").
NeverLosesBoth == lost => \E n \in DOMAIN temps : temps[n] \in Text

\* save_atomic_new "never replaces a file", whoever made it and whenever.
NewNameReplacesNothing ==
  [][\A s \in Saver : call[s].new /\ call'[s].at = "saved" /\ call[s].at # "saved"
                      => dest = NoFile]_vars

\* The retries are bounded: a save ends whatever the other programs do.
SaveReturns == \A s \in Saver : call[s].at # "idle" ~> call[s].at \in {"idle", "dead"}

\* The save as its callers see it: see AtomicFile.
Outcome(c) ==
  [state |-> CASE c.at = "idle" -> "none"
               [] c.at \in {"clean", "remove"} -> "failed"
               [] c.at \in {"saved", "dead"} -> c.at
               [] OTHER -> "asked",
   text |-> c.text,
   new |-> c.new]

Abstract == INSTANCE AtomicFile WITH file <- dest, request <- [s \in Saver |-> Outcome(call[s])]

ImplementsAtomicFile == Abstract!ASpec
=============================================================================
