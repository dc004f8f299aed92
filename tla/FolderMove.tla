------------------------------ MODULE FolderMove ------------------------------
(***************************************************************************)
(* A folder of one notebook moves to a notebook on another drive: a worker *)
(* copies it and checks the copy, and the window then sends the original   *)
(* to the Recycle Bin, while tabs on its notes are edited, other programs  *)
(* write into it, and notebooks and the window close.                      *)
(* Sources: window/{cross_move_host, move_worker}.rs, platform/files.rs,   *)
(* and save_before_move of window/library_host/note_actions.rs.            *)
(*                                                                         *)
(* A text is known by the number of its writing, which is also the size    *)
(* and time its file gets: CopyFileEx keeps them.  0 is no file.           *)
(***************************************************************************)
EXTENDS Naturals

CONSTANTS
  Files,    \* names in the folder
  Tabbed,   \* those that have a tab
  MaxTexts, \* bound: texts written by the user and by other programs
  MaxMoves  \* bound: moves

ASSUME FolderMoveAssumption ==
  /\ Tabbed \subseteq Files
  /\ MaxTexts \in Nat
  /\ MaxMoves \in Nat

VARIABLES
  src,    \* the original folder: whether it exists, and its files
  dst,    \* what is at the destination: whose folder it is, and its files
  tabs,   \* tabs on the folder's notes
  job,    \* the move: window and worker
  done,   \* the worker's outcome, on its way to the window
  host,   \* the window and the two notebooks
  texts,  \* texts written so far
  moves,  \* moves so far
  latest, \* history: the last text anybody wrote to each original
  late    \* history: files whose last text was written to the original after
          \* the window compared it, and went with it

vars == <<src, dst, tabs, job, done, host, texts, moves, latest, late>>

-----------------------------------------------------------------------------
NoFiles == [f \in Files |-> 0]

Folder == [here : BOOLEAN, files : [Files -> Nat]]
Copy == [by : {"nobody", "move", "left", "other"}, files : [Files -> Nat]]
Tab == [place : {"src", "dst"}, text : Nat, known : Nat, dirty : BOOLEAN]
Phases == {"idle", "asked", "started", "listing", "copying", "check", "verify", "ended", "landing"}
Job == [phase : Phases, before : [Files -> Nat], left : SUBSET Files, cancel : BOOLEAN]
Outcomes == {"none", "copied", "cancelled", "failed", "changed"}
Host == [window : {"open", "asking", "closing", "joining", "gone"}, from : BOOLEAN, dest : BOOLEAN]

Idle == [phase |-> "idle", before |-> NoFiles, left |-> {}, cancel |-> FALSE]
Nothing == [by |-> "nobody", files |-> NoFiles]
Gone == [here |-> FALSE, files |-> NoFiles]

TypeOK ==
  /\ src \in Folder
  /\ dst \in Copy
  /\ tabs \in [Tabbed -> Tab]
  /\ job \in Job
  /\ done \in Outcomes
  /\ done # "none" => job.phase = "ended"
  /\ host \in Host
  /\ texts \in Nat
  /\ moves \in Nat
  /\ latest \in [Files -> Nat]
  /\ late \subseteq Files

Init ==
  /\ \E files \in [Files -> {0, 1}] :
       /\ \A f \in Tabbed : files[f] = 1
       /\ src = [here |-> TRUE, files |-> files]
       /\ latest = files
  /\ dst = Nothing
  /\ tabs = [f \in Tabbed |-> [place |-> "src", text |-> 1, known |-> 1, dirty |-> FALSE]]
  /\ job = Idle
  /\ done = "none"
  /\ host = [window |-> "open", from |-> TRUE, dest |-> TRUE]
  /\ texts = 1
  /\ moves = 0
  /\ late = {}

-----------------------------------------------------------------------------
(* What everybody reads.                                                   *)

\* The window handles messages, also in the loop of a question.
Pumps == host.window \in {"open", "asking", "closing"}

\* with_moving: the window holds a Moving, until move_done takes it.
Moving == job.phase \notin {"idle", "asked", "landing"}

\* The window's thread is inside recycle_path: the shell's warning, modal to
\* the window, handles messages, but the user can do nothing to the window.
Landing == job.phase = "landing"
UserMay == host.window = "open" /\ ~Landing

\* What a tab's path has on disk.
OnDisk(s, d, f, place) == IF place = "src" THEN s.files[f] ELSE d.files[f]

\* tabs_under
Under(ts, place) == {f \in Tabbed : ts[f].place = place}

\* save_before_move: a dirty tab is written unless its file changed since the
\* tab read it.
Savable(s, d, ts, f) == ts[f].dirty /\ ts[f].known = OnDisk(s, d, f, ts[f].place)
Clean(tab) == [tab EXCEPT !.known = tab.text, !.dirty = FALSE]

World == [src |-> src, dst |-> dst, tabs |-> tabs, latest |-> latest, late |-> late]

Saved(w, place) ==
  LET now == {f \in Under(w.tabs, place) : Savable(w.src, w.dst, w.tabs, f)}
      Written(files) == [f \in Files |-> IF f \in now THEN w.tabs[f].text ELSE files[f]]
  IN  [src |-> IF place = "src" THEN [w.src EXCEPT !.files = Written(@)] ELSE w.src,
       dst |-> IF place = "dst" THEN [w.dst EXCEPT !.files = Written(@)] ELSE w.dst,
       tabs |-> [f \in Tabbed |-> IF f \in now THEN Clean(w.tabs[f]) ELSE w.tabs[f]],
       latest |-> Written(w.latest),
       late |-> w.late \ now]

Becomes(w) ==
  /\ src' = w.src
  /\ dst' = w.dst
  /\ tabs' = w.tabs
  /\ latest' = w.latest
  /\ late' = w.late

-----------------------------------------------------------------------------
(* The user and other programs.                                            *)

Edit(f) ==
  /\ UserMay
  /\ texts < MaxTexts
  /\ texts' = texts + 1
  /\ tabs' = [tabs EXCEPT ![f].text = texts + 1, ![f].dirty = TRUE]
  /\ UNCHANGED <<src, dst, job, done, host, moves, latest, late>>

\* holds: the writes of a tab in the folder, or in its copy, wait for the move.
Holds == Moving

\* A file is written, perhaps while its original is being recycled.
LateAfter(f) == IF Landing THEN late \cup {f} ELSE late \ {f}

\* save_active, and autosave_active, whose timer runs in every modal loop.
Save(f) ==
  /\ Pumps
  /\ ~Holds
  /\ Savable(src, dst, tabs, f)
  /\ LET only == [tabs EXCEPT ![f] = Clean(@)]
         text == tabs[f].text
     IN  /\ tabs' = only
         /\ latest' = [latest EXCEPT ![f] = text]
         /\ late' = LateAfter(f)
         /\ IF tabs[f].place = "src"
            THEN src' = [src EXCEPT !.files[f] = text] /\ UNCHANGED dst
            ELSE dst' = [dst EXCEPT !.files[f] = text] /\ UNCHANGED src
  /\ UNCHANGED <<job, done, host, texts, moves>>

\* Another program writes, creates or deletes a file of the original.
Foreign(f) ==
  /\ src.here
  /\ texts < MaxTexts
  /\ texts' = texts + 1
  /\ \E text \in {0, texts + 1} :
       /\ src' = [src EXCEPT !.files[f] = text]
       /\ latest' = [latest EXCEPT ![f] = text]
  /\ late' = LateAfter(f)
  /\ UNCHANGED <<dst, tabs, job, done, host, moves>>

\* Another program makes a folder of that name at the destination.
ForeignFolder ==
  /\ dst.by = "nobody"
  /\ dst' = [by |-> "other", files |-> NoFiles]
  /\ UNCHANGED <<src, tabs, job, done, host, texts, moves, latest, late>>

-----------------------------------------------------------------------------
(* The window starts a move.                                               *)

\* move_items up to its question: the tabs are saved and the names are free.
Ask ==
  /\ host = [window |-> "open", from |-> TRUE, dest |-> TRUE]
  /\ job.phase = "idle"
  /\ moves < MaxMoves
  /\ src.here
  /\ dst.by = "nobody"
  /\ Becomes(Saved(World, "src"))
  /\ \A f \in Under(tabs, "src") : ~tabs'[f].dirty
  /\ moves' = moves + 1
  /\ job' = [Idle EXCEPT !.phase = "asked"]
  /\ UNCHANGED <<done, host, texts>>

\* The answer, and start_folder_move, which looks at the destination again.
Answer ==
  /\ host.window = "open"
  /\ job.phase = "asked"
  /\ job' = IF dst.by = "nobody" THEN [job EXCEPT !.phase = "started"] ELSE Idle
  /\ UNCHANGED <<src, dst, tabs, done, host, texts, moves, latest, late>>

Refuse ==
  /\ host.window = "open"
  /\ job.phase = "asked"
  /\ job' = Idle
  /\ UNCHANGED <<src, dst, tabs, done, host, texts, moves, latest, late>>

\* cancel_move
Cancel ==
  /\ host.window = "open"
  /\ Moving
  /\ job' = [job EXCEPT !.cancel = TRUE]
  /\ UNCHANGED <<src, dst, tabs, done, host, texts, moves, latest, late>>

-----------------------------------------------------------------------------
(* The worker.                                                             *)

\* Mutant: nobody is told of a cancelled move.
EndsUntold(outcome) ==
  /\ job' = [job EXCEPT !.phase = "ended"]
  /\ done' = IF outcome = "cancelled" THEN "none" ELSE outcome

Ends(outcome) ==
  /\ job' = [job EXCEPT !.phase = "ended"]
  /\ done' = outcome

\* What remove_dir_all, whose failure is ignored, leaves at the destination:
\* nothing, or a folder with some of the copied files, which nobody looks at.
Without == {Nothing, [Nothing EXCEPT !.by = "left"]}

\* Mutant: whatever is at the destination goes.
RemovedAnyway == dst' = Nothing

\* Only a folder this job created is ever removed.
Removed == IF job.phase \in {"copying", "check", "verify"} THEN dst' \in Without ELSE dst' = dst

\* The folder is snapshot, and nothing may be at the destination.
Snapshots ==
  /\ job.phase = "started"
  /\ \/ /\ src.here
        /\ dst.by = "nobody"
        /\ job' = [job EXCEPT !.phase = "listing", !.before = src.files]
        /\ UNCHANGED done
     \/ Ends("failed")
  /\ UNCHANGED <<src, dst, tabs, host, texts, moves, latest, late>>

\* copy_tree_reporting makes the folder and lists the original.
Lists ==
  /\ job.phase = "listing"
  /\ IF ~job.cancel /\ src.here /\ dst.by = "nobody"
     THEN /\ dst' = [by |-> "move", files |-> NoFiles]
          /\ job' = [job EXCEPT !.phase = "copying", !.left = {f \in Files : src.files[f] # 0}]
          /\ UNCHANGED done
     ELSE /\ Removed
          /\ Ends(IF job.cancel THEN "cancelled" ELSE "failed")
  /\ UNCHANGED <<src, tabs, host, texts, moves, latest, late>>

Copies(f) ==
  /\ job.phase = "copying"
  /\ ~job.cancel
  /\ f \in job.left
  /\ src.files[f] # 0
  /\ dst' = [dst EXCEPT !.files[f] = src.files[f]]
  /\ job' = [job EXCEPT !.left = @ \ {f}]
  /\ UNCHANGED <<src, tabs, done, host, texts, moves, latest, late>>

\* The original is gone, or the drive is full.
CopyFails ==
  /\ job.phase = "copying"
  /\ ~job.cancel
  /\ job.left # {}
  /\ Removed
  /\ Ends("failed")
  /\ UNCHANGED <<src, tabs, host, texts, moves, latest, late>>

\* run looks for a cancel while it copies, and once more before it verifies.
CopyIsCancelled ==
  /\ job.phase \in {"copying", "check"}
  /\ job.cancel
  /\ Removed
  /\ Ends("cancelled")
  /\ UNCHANGED <<src, tabs, host, texts, moves, latest, late>>

CopyIsWhole ==
  /\ job.phase = "copying"
  /\ job.left = {}
  /\ ~job.cancel
  /\ job' = [job EXCEPT !.phase = "check"]
  /\ UNCHANGED <<src, dst, tabs, done, host, texts, moves, latest, late>>

CopyIsWanted ==
  /\ job.phase = "check"
  /\ ~job.cancel
  /\ job' = [job EXCEPT !.phase = "verify"]
  /\ UNCHANGED <<src, dst, tabs, done, host, texts, moves, latest, late>>

\* verify_copy; a file made since the snapshot is in neither.
Verified(before) ==
  \A f \in Files : before[f] # 0 => dst.files[f] # 0 /\ src.files[f] = before[f]

\* From here on a cancel is not looked for.
Verifies ==
  /\ job.phase = "verify"
  /\ IF Verified(job.before)
     THEN Ends("copied") /\ UNCHANGED dst
     ELSE Removed /\ \E outcome \in {"changed", "failed"} : Ends(outcome)
  /\ UNCHANGED <<src, tabs, host, texts, moves, latest, late>>

-----------------------------------------------------------------------------
(* The outcome reaches the window.                                         *)

\* Mutant: the original goes without another look.
Trusted(before) == TRUE

\* land: the original must hold exactly what was copied.
Unchanged(before) == src.here /\ src.files = before

\* The tabs follow to the copies of the files that are gone.
Follow(ts, gone) == [f \in Tabbed |-> IF f \in gone /\ ts[f].place = "src" THEN [ts[f] EXCEPT !.place = "dst"] ELSE ts[f]]

MayLand == done = "copied" /\ host.from /\ host.dest /\ Unchanged(job.before)

\* move_done: Moving is taken, so nothing is held any more.  A copy that may
\* not land is removed, and what waited is saved where it was.
MoveDone ==
  /\ Pumps
  /\ done # "none"
  /\ done' = "none"
  /\ IF MayLand
     THEN /\ job' = [job EXCEPT !.phase = "landing"]
          /\ UNCHANGED <<src, dst, tabs, latest, late>>
     ELSE /\ job' = Idle
          /\ \E copy \in IF done = "copied" THEN Without ELSE {dst} :
               Becomes(Saved([World EXCEPT !.dst = copy], "src"))
  /\ UNCHANGED <<host, texts, moves>>

\* recycle_path: all of it, or, when it fails, some of it.
RecycledAll == [World EXCEPT !.src = Gone, !.tabs = Follow(@, Files)]
RecycledSome(gone) ==
  LET left == [f \in Files |-> IF f \in gone THEN 0 ELSE src.files[f]]
  IN  [World EXCEPT !.src = [src EXCEPT !.files = left],
                    !.tabs = Follow(@, {f \in Files : left[f] = 0 /\ dst.files[f] # 0}),
                    !.late = @ \cap gone]

\* Mutant: what waited is saved before the tabs follow.
LandsUnfollowed == Becomes([Saved(World, "dst") EXCEPT !.src = Gone, !.tabs = Follow(@, Files)])

\* The rest of land: the tabs follow, and save_held where the files are.
Lands ==
  \/ Becomes(Saved(RecycledAll, "dst"))
  \/ \E gone \in SUBSET Files : Becomes(Saved(Saved(RecycledSome(gone), "src"), "dst"))

Recycled ==
  /\ Landing
  /\ job' = Idle
  /\ Lands
  /\ UNCHANGED <<done, host, texts, moves>>

-----------------------------------------------------------------------------
(* Notebooks and the window close.                                         *)

\* close_notebook_of with may_close answered yes: a running move is cancelled.
CloseNotebook ==
  /\ UserMay
  /\ job.phase # "asked"
  /\ \/ host.from /\ host' = [host EXCEPT !.from = FALSE]
     \/ host.dest /\ host' = [host EXCEPT !.dest = FALSE]
  /\ job' = IF Moving THEN [job EXCEPT !.cancel = TRUE] ELSE job
  /\ UNCHANGED <<src, dst, tabs, done, texts, moves, latest, late>>

\* WM_CLOSE: may_close asks while a move runs.
AskToClose ==
  /\ UserMay
  /\ job.phase # "asked"
  /\ host' = [host EXCEPT !.window = IF Moving THEN "asking" ELSE "closing"]
  /\ UNCHANGED <<src, dst, tabs, job, done, texts, moves, latest, late>>

KeepRunning ==
  /\ host.window = "asking"
  /\ ~Landing
  /\ host' = [host EXCEPT !.window = "open"]
  /\ UNCHANGED <<src, dst, tabs, job, done, texts, moves, latest, late>>

CancelAndClose ==
  /\ host.window = "asking"
  /\ ~Landing
  /\ host' = [host EXCEPT !.window = "closing"]
  /\ job' = IF Moving THEN [job EXCEPT !.cancel = TRUE] ELSE job
  /\ UNCHANGED <<src, dst, tabs, done, texts, moves, latest, late>>

\* The rest of WM_CLOSE may ask about unsaved tabs: the user goes back, or the
\* window is destroyed.
BackFromClose ==
  /\ host.window = "closing"
  /\ ~Landing
  /\ host' = [host EXCEPT !.window = "open"]
  /\ UNCHANGED <<src, dst, tabs, job, done, texts, moves, latest, late>>

\* WM_DESTROY: stop cancels the move and waits for its worker.
Destroy ==
  /\ host.window = "closing"
  /\ ~Landing
  /\ host' = [host EXCEPT !.window = IF Moving THEN "joining" ELSE "gone"]
  /\ job' = IF Moving THEN [job EXCEPT !.cancel = TRUE] ELSE job
  /\ UNCHANGED <<src, dst, tabs, done, texts, moves, latest, late>>

\* Mutant: a checked copy nobody will land stays.
CopyLeft == dst' = dst

\* stop: a checked copy nobody will land goes.
CopyDropped == IF done = "copied" THEN dst' \in Without ELSE dst' = dst

Joined ==
  /\ host.window = "joining"
  /\ job.phase = "ended"
  /\ host' = [host EXCEPT !.window = "gone"]
  /\ CopyDropped
  /\ job' = Idle
  /\ done' = "none"
  /\ UNCHANGED <<src, tabs, texts, moves, latest, late>>

-----------------------------------------------------------------------------
Worker == Snapshots \/ Lists \/ (\E f \in Files : Copies(f)) \/ CopyFails \/ CopyIsCancelled \/ CopyIsWhole \/ CopyIsWanted \/ Verifies

Next ==
  \/ \E f \in Tabbed : Edit(f) \/ Save(f)
  \/ (\E f \in Files : Foreign(f)) \/ ForeignFolder
  \/ Ask \/ Answer \/ Refuse \/ Cancel
  \/ Worker
  \/ MoveDone \/ Recycled
  \/ CloseNotebook \/ AskToClose \/ KeepRunning \/ CancelAndClose \/ BackFromClose \/ Destroy \/ Joined

Spec == Init /\ [][Next]_vars

\* The worker runs, the window handles its messages and its join ends.
Fairness == WF_vars(Worker) /\ WF_vars(MoveDone) /\ WF_vars(Joined)

FairSpec == Spec /\ Fairness

-----------------------------------------------------------------------------
(* Properties.                                                             *)

\* The last text anybody wrote to a file of the folder is in the original or in
\* the copy, whatever is cancelled, changed or only partly recycled, but for
\* what is written to the original after the window compared it.
NothingIsLost ==
  \A f \in Files \ late : latest[f] # 0 => latest[f] \in {src.files[f], dst.files[f]}

Ending == (Moving \/ Landing) /\ job'.phase = "idle"

\* A move that lands leaves every file at the destination, and no tab on an
\* original that went.  Any other leaves the original, its tabs on it, and of the copy
\* at most what could not be removed.
OneFolderInTheEnd ==
  [][Ending =>
       IF Landing
       THEN /\ dst'.by = "move"
            /\ \A f \in Files : job.before[f] # 0 => dst'.files[f] # 0
            /\ \A f \in Tabbed : tabs'[f].place = "src" => src'.files[f] # 0 \/ dst'.files[f] = 0
       ELSE /\ dst'.by # "move"
            /\ src'.here
            /\ \A f \in Tabbed : tabs'[f].place = "src"]_vars

\* A folder somebody else made at the destination, or what a move left there,
\* is never written or removed.
OtherFolderKept == [][dst.by \in {"left", "other"} => dst' = dst]_vars

\* "Tabs inside the folder stay editable [...] Autosave and Ctrl+S hold their
\* writes until the move ends": once it ended every one is written where its
\* file now is, unless that file changed under it.
HeldEditsAreSaved ==
  [][Ending /\ Pumps => \A f \in Tabbed : ~Savable(src', dst', tabs', f)]_vars

\* A move that was started is over, or lands, whatever is cancelled or closed.
MovesEnd == Moving ~> ~Moving

==============================================================================
