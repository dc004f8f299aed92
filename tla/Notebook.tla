------------------------------- MODULE Notebook -------------------------------
(***************************************************************************)
(* An open notebook: its slot in the window, the loads and rescans that    *)
(* list its notes on a worker, the watcher that reports changes made       *)
(* outside FastPad, and the generations that route each answer to the slot *)
(* it was for.  Its index is left out.                                      *)
(* Sources: window/library_host/{slots, load, watch, local_state,          *)
(* notebooks, autosave}.rs, library/{mod, watch}.rs and, for the writes of *)
(* a replace, window/text_search_host.rs.                                  *)
(*                                                                         *)
(* One folder and one note in it.  What is written to the note is known by *)
(* the time it was written: 0 means there is no such file, or entry.       *)
(***************************************************************************)
EXTENDS Naturals, Sequences

CONSTANTS
  Gens,       \* u64: generations of loads and of watchers
  None,       \* no generation: no slot is open
  MaxChanges, \* bound: writes, creations and deletions of the note
  MaxOpens    \* bound: times the notebook opens

ASSUME NotebookAssumption ==
  /\ Gens # {}
  /\ None \notin Gens
  /\ MaxChanges \in Nat
  /\ MaxOpens \in Nat

VARIABLES
  disk,    \* when the note's file was written
  clock,   \* changes of the file so far
  slot,    \* NotebookSlot
  loads,   \* load workers, and their answers on the way
  watch,   \* the watcher thread and the batch it collects
  posts,   \* batches on their way to the window
  shown,   \* a tab some group shows has the note
  job,     \* a replace that writes the note on a worker
  own,     \* own_writes may name the note: a replace of it began
  opens,   \* times the notebook was opened: the slot's id
  unseen   \* history: another program changed the note in the loaded notebook, and
           \* the user has not looked at it since

vars == <<disk, clock, slot, loads, watch, posts, shown, job, own, opens, unseen>>

-----------------------------------------------------------------------------
Gen == Gens \cup {None}

Slot == [open : BOOLEAN, gen : Gen, scanning : BOOLEAN, again : BOOLEAN, failed : BOOLEAN,
         loaded : BOOLEAN, list : Nat, mark : BOOLEAN, touched : BOOLEAN,
         watchGen : Gen, watching : BOOLEAN, watchFailed : BOOLEAN]

Load == [gen : Gens, phase : {"started", "read"}, list : Nat]

\* FileChanges: the note's path, another name's, what Windows dropped.
Batch == [gen : Gen, note : BOOLEAN, other : BOOLEAN, names : BOOLEAN, overflow : BOOLEAN, failed : BOOLEAN]
NoBatch(g) == [gen |-> g, note |-> FALSE, other |-> FALSE, names |-> FALSE, overflow |-> FALSE, failed |-> FALSE]
Stopped == [running |-> FALSE, batch |-> NoBatch(None)]
Started(g) == [running |-> TRUE, batch |-> NoBatch(g)]

Closed == [open |-> FALSE, gen |-> None, scanning |-> FALSE, again |-> FALSE, failed |-> FALSE,
           loaded |-> FALSE, list |-> 0, mark |-> FALSE, touched |-> FALSE,
           watchGen |-> None, watching |-> FALSE, watchFailed |-> FALSE]

Idle == [phase |-> "idle", id |-> 0, stamp |-> 0]
Job == [phase : {"idle", "asked", "written"}, id : Nat, stamp : Nat]

TypeOK ==
  /\ disk \in Nat
  /\ clock \in Nat
  /\ slot \in Slot
  /\ loads \subseteq Load
  /\ watch \in [running : BOOLEAN, batch : Batch]
  /\ posts \in Seq(Batch)
  /\ shown \in BOOLEAN
  /\ job \in Job
  /\ own \in BOOLEAN
  /\ opens \in Nat
  /\ unseen \in BOOLEAN

\* What an earlier opening of the notebook may have left on its way: a rescan, or
\* the end of its watcher.
Left ==
  LET g == CHOOSE g \in Gens : TRUE
  IN  {[loads |-> {[gen |-> g, phase |-> "started", list |-> 0]}, posts |-> <<>>],
       [loads |-> {}, posts |-> <<[NoBatch(g) EXCEPT !.failed = TRUE]>>]}

Init ==
  /\ disk \in {0, 1}
  /\ clock = 1
  /\ slot = Closed
  /\ \E left \in Left : loads = left.loads /\ posts = left.posts
  /\ watch = Stopped
  /\ shown = FALSE
  /\ job = Idle
  /\ own = FALSE
  /\ opens = 0
  /\ unseen = FALSE

-----------------------------------------------------------------------------
(* The slot with its loads: what the handlers below work on.               *)

World == [slot |-> slot, loads |-> loads]

Becomes(w) ==
  /\ slot' = w.slot
  /\ loads' = w.loads

\* fresh_generation: no worker has it yet; the slot's own is about to go.
LoadGens == {l.gen : l \in loads}
WatchGens == {watch.batch.gen} \cup {posts[i].gen : i \in 1..Len(posts)}

FreshLoad == CHOOSE g \in Gens : g \notin LoadGens
FreshWatch == CHOOSE g \in Gens : g \notin WatchGens

\* Gens is large enough for what is in flight at once.
Room ==
  /\ \E g \in Gens : g \notin LoadGens
  /\ \E g \in Gens : g \notin WatchGens

\* begin_load and spawn_load
LoadBegun(w) ==
  [w EXCEPT !.slot = [@ EXCEPT !.gen = FreshLoad, !.scanning = TRUE, !.again = FALSE, !.failed = FALSE,
                               !.touched = FALSE],
            !.loads = @ \cup {[gen |-> FreshLoad, phase |-> "started", list |-> 0]}]

\* Mutant: a rescan asked for while one runs is taken to be the one that runs.
RescanForgotten(w) == IF w.slot.open /\ ~w.slot.scanning THEN LoadBegun(w) ELSE w

\* request_rescan_of
RescanAsked(w) ==
  IF ~w.slot.open THEN w
  ELSE IF w.slot.scanning THEN [w EXCEPT !.slot = [@ EXCEPT !.again = TRUE]]
  ELSE LoadBegun(w)

-----------------------------------------------------------------------------
(* Other programs, and the watcher thread that hears of them.              *)

\* The report of a change; what does not fit the buffer is dropped by Windows,
\* and the batch that says so needs to say no more.
Reported(b, other, names) ==
  IF b.overflow THEN {b}
  ELSE {[b EXCEPT !.note = TRUE, !.other = @ \/ other, !.names = @ \/ names],
        [NoBatch(b.gen) EXCEPT !.overflow = TRUE]}

Report(other, names) ==
  IF watch.running
  THEN \E b \in Reported(watch.batch, other, names) : watch' = [watch EXCEPT !.batch = b]
  ELSE UNCHANGED watch

\* Another program writes, creates or deletes the note.
Foreign ==
  /\ clock < MaxChanges
  /\ clock' = clock + 1
  /\ \E time \in {0, clock + 1} :
       /\ time # disk
       /\ disk' = time
       /\ Report(FALSE, (time = 0) # (disk = 0))
  /\ unseen' = (slot.loaded /\ ~shown /\ ~slot.touched)
  /\ UNCHANGED <<slot, loads, posts, shown, job, own, opens>>

HasNews(b) == b.note \/ b.other \/ b.overflow

\* Nothing more for BATCH_DELAY: the batch is posted.
Post ==
  /\ watch.running
  /\ HasNews(watch.batch)
  /\ posts' = Append(posts, watch.batch)
  /\ watch' = Started(watch.batch.gen)
  /\ UNCHANGED <<disk, clock, slot, loads, shown, job, own, opens, unseen>>

\* Watching fails: the thread says so and ends, with the batch it had.
WatchFails ==
  /\ watch.running
  /\ posts' = Append(posts, [NoBatch(watch.batch.gen) EXCEPT !.failed = TRUE])
  /\ watch' = Stopped
  /\ UNCHANGED <<disk, clock, slot, loads, shown, job, own, opens, unseen>>

-----------------------------------------------------------------------------
(* Opening and closing.                                                    *)

\* open_checked_folder, open_library_step: add_root, then start_load_of.
Open ==
  /\ ~slot.open
  /\ opens < MaxOpens
  /\ Room
  /\ opens' = opens + 1
  /\ Becomes(LoadBegun([World EXCEPT !.slot = [Closed EXCEPT !.open = TRUE, !.watchGen = FreshWatch]]))
  /\ UNCHANGED <<disk, clock, watch, posts, shown, job, own, unseen>>

\* close_notebook_of once its pins are written, or notes mode off: the watcher
\* is joined, and what is still in flight names no slot when it lands.
Close ==
  /\ slot.open
  /\ slot' = Closed
  /\ watch' = Stopped
  /\ own' = FALSE
  /\ unseen' = FALSE
  /\ UNCHANGED <<disk, clock, loads, posts, shown, job, opens>>

-----------------------------------------------------------------------------
(* Loads and rescans.                                                      *)

\* Mutant: what a load found is shown in whatever notebook is open.
AnswersAnySlot(g) == slot.open

\* library_ready: the slot that waits for this load.
AnswersSlot(g) == slot.gen = g

\* load: the worker lists the folder.  What one lists for a slot since closed
\* nobody will see.
LoadReads(g) ==
  /\ AnswersSlot(g)
  /\ \E l \in loads :
       /\ l.gen = g
       /\ l.phase = "started"
       /\ loads' = (loads \ {l}) \cup {[l EXCEPT !.phase = "read", !.list = disk]}
  /\ UNCHANGED <<disk, clock, slot, watch, posts, shown, job, own, opens, unseen>>

\* Mutant: the marks the scan found replace those the window has.
MergedOverMarks(s, list, first) ==
  LET now == IF s.touched THEN disk ELSE list
  IN  [s EXCEPT !.loaded = TRUE, !.list = now,
                !.mark = now # 0 /\ ~shown /\ (IF s.loaded THEN ~s.touched /\ now # s.list ELSE first)]

\* install_of: merge_rescan re-reads what FastPad wrote meanwhile and marks
\* what else changed; the marks of shown notes are cleared.  A first load takes
\* the marks of the local file.
Merged(s, list, first) ==
  LET now == IF s.touched THEN disk ELSE list
  IN  [s EXCEPT !.loaded = TRUE, !.list = now,
                !.mark = /\ now # 0
                         /\ ~shown
                         /\ IF s.loaded THEN s.mark \/ (~s.touched /\ now # s.list) ELSE first]

\* ensure_watcher_of
WatcherEnsured(s, ok) ==
  IF s.watching \/ s.watchFailed THEN s
  ELSE [s EXCEPT !.watchGen = FreshWatch, !.watching = ok, !.watchFailed = ~ok]

\* What library_ready ends with: the rescan asked for meanwhile.
Owed(w) == IF w.slot.again THEN LoadBegun(w) ELSE w

Taken(l) == [World EXCEPT !.loads = @ \ {l}]
Answered(l) == [Taken(l) EXCEPT !.slot = [@ EXCEPT !.scanning = FALSE]]

\* library_ready for a slot since closed, or loaded anew.
LoadIsLate(g) ==
  /\ ~AnswersSlot(g)
  /\ \E l \in loads : l.gen = g /\ Becomes(Taken(l))
  /\ UNCHANGED <<disk, clock, watch, posts, shown, job, own, opens, unseen>>

\* library_ready with the reason the folder could not be listed.
LoadFails(g) ==
  /\ AnswersSlot(g)
  /\ Room
  /\ \E l \in loads :
       /\ l.gen = g
       /\ l.phase = "read"
       /\ Becomes(Owed([Answered(l) EXCEPT !.slot = [@ EXCEPT !.failed = TRUE]]))
  /\ UNCHANGED <<disk, clock, watch, posts, shown, job, own, opens, unseen>>

\* library_ready with what the worker listed.
LoadLands(g) ==
  /\ AnswersSlot(g)
  /\ Room
  /\ \E l \in loads, first, ok \in BOOLEAN :
       /\ l.gen = g
       /\ l.phase = "read"
       /\ Becomes(Owed([Answered(l) EXCEPT !.slot = WatcherEnsured(Merged(@, l.list, first), ok)]))
       /\ watch' = IF ok /\ ~slot.watching /\ ~slot.watchFailed THEN Started(FreshWatch) ELSE watch
  /\ UNCHANGED <<disk, clock, posts, shown, job, own, opens, unseen>>

\* The Refresh button, and retry_load_of after a load that failed.
Refresh ==
  /\ slot.open
  /\ Room
  /\ Becomes(RescanAsked(World))
  /\ UNCHANGED <<disk, clock, watch, posts, shown, job, own, opens, unseen>>

\* activation_changed, when the window was away for RESCAN_AFTER.
Return ==
  /\ slot.open
  /\ ~slot.watching
  /\ Room
  /\ Becomes(RescanAsked(World))
  /\ UNCHANGED <<disk, clock, watch, posts, shown, job, own, opens, unseen>>

-----------------------------------------------------------------------------
(* What the watcher reports.                                               *)

\* Mutant: a change is marked only when its batch asks for no rescan.
OutsideStampUnmarked(s, b) ==
  IF s.loaded /\ s.list # 0 /\ disk # 0
  THEN [s EXCEPT !.list = disk, !.mark = @ \/ (s.list # disk /\ ~shown /\ ~b.names)]
  ELSE s

\* mark_outside_changes_of: take_outside_stamp, and the mark unless a tab shows
\* the note.
OutsideStampTaken(s, b) ==
  IF s.loaded /\ s.list # 0 /\ disk # 0
  THEN [s EXCEPT !.list = disk, !.mark = @ \/ (s.list # disk /\ ~shown)]
  ELSE s

\* Mutant: a batch is taken for whatever notebook is open.
ReportsToAnySlot(b) == slot.open

\* files_changed: the slot whose watcher collected the batch.
ReportsToSlot(b) == slot.watchGen = b.gen

\* files_changed; without_own_writes drops the note's path, never another's,
\* until its time limit has passed.
FilesChanged ==
  /\ posts # <<>>
  /\ Room
  /\ \E limit \in {FALSE, own} :
     LET b == Head(posts)
         note == b.note /\ ~limit
         taken == [World EXCEPT !.slot = IF note THEN OutsideStampTaken(@, b) ELSE @]
     IN  Becomes(IF ~ReportsToSlot(b) THEN World
                 ELSE IF b.failed THEN [World EXCEPT !.slot = [@ EXCEPT !.watching = FALSE, !.watchFailed = TRUE]]
                 ELSE IF b.overflow THEN RescanAsked(World)
                 ELSE IF ~note /\ ~b.other THEN World
                 ELSE IF b.names THEN RescanAsked(taken)
                 ELSE taken)
  /\ posts' = Tail(posts)
  /\ UNCHANGED <<disk, clock, watch, shown, job, own, opens, unseen>>

-----------------------------------------------------------------------------
(* FastPad's own writes.                                                   *)

\* A save, an autosave or a link update, on the window's thread: the file with
\* its temp file beside it, then document_saved.
Save ==
  /\ clock < MaxChanges
  /\ clock' = clock + 1
  /\ disk' = clock + 1
  /\ Report(TRUE, TRUE)
  /\ slot' = IF slot.loaded THEN [slot EXCEPT !.list = clock + 1, !.touched = TRUE] ELSE slot
  /\ unseen' = FALSE
  /\ UNCHANGED <<loads, posts, shown, job, own, opens>>

\* A replace hands the listed note to its worker: apply_plan, begin_own_writes.
\* One an opening is enough.
AskReplace ==
  /\ job.phase = "idle"
  /\ slot.loaded
  /\ slot.list # 0
  /\ ~own
  /\ job' = [phase |-> "asked", id |-> opens, stamp |-> slot.list]
  /\ own' = TRUE
  /\ UNCHANGED <<disk, clock, slot, loads, watch, posts, shown, opens, unseen>>

\* replace_note: the worker writes it unless it changed since the search.
ReplaceWrites ==
  /\ job.phase = "asked"
  /\ disk = job.stamp
  /\ clock < MaxChanges
  /\ clock' = clock + 1
  /\ disk' = clock + 1
  /\ Report(TRUE, TRUE)
  /\ job' = [job EXCEPT !.phase = "written", !.stamp = clock + 1]
  /\ UNCHANGED <<slot, loads, posts, shown, own, opens, unseen>>

\* report_written: record_written_all while the notebook it was for is open.
\* The worker may have left the note as it was, and a report since cancelled is
\* dropped.
ReplaceLands ==
  /\ job.phase # "idle"
  /\ job' = Idle
  /\ \/ /\ job.phase = "written"
        /\ slot.loaded
        /\ opens = job.id
        /\ slot.list # 0
        /\ slot' = [slot EXCEPT !.list = job.stamp, !.touched = TRUE]
     \/ UNCHANGED slot
  /\ UNCHANGED <<disk, clock, loads, watch, posts, shown, own, opens, unseen>>

-----------------------------------------------------------------------------
(* What the user looks at.                                                 *)

Unmarked == IF slot.loaded THEN [slot EXCEPT !.mark = FALSE] ELSE slot

\* note_seen: the note opens in a tab, or its tab comes to the front.
Show ==
  /\ ~shown
  /\ shown' = TRUE
  /\ slot' = Unmarked
  /\ unseen' = FALSE
  /\ UNCHANGED <<disk, clock, loads, watch, posts, job, own, opens>>

Hide ==
  /\ shown
  /\ shown' = FALSE
  /\ UNCHANGED <<disk, clock, slot, loads, watch, posts, job, own, opens, unseen>>

\* clear_all_marks
ClearMarks ==
  /\ slot.mark
  /\ slot' = Unmarked
  /\ unseen' = FALSE
  /\ UNCHANGED <<disk, clock, loads, watch, posts, shown, job, own, opens>>

-----------------------------------------------------------------------------
Next ==
  \/ Foreign \/ Post \/ WatchFails
  \/ Open \/ Close
  \/ \E g \in Gens : LoadReads(g) \/ LoadIsLate(g) \/ LoadFails(g) \/ LoadLands(g)
  \/ Refresh \/ Return
  \/ FilesChanged
  \/ Save \/ AskReplace \/ ReplaceWrites \/ ReplaceLands
  \/ Show \/ Hide \/ ClearMarks

Spec == Init /\ [][Next]_vars

\* Workers end, the watcher's delay passes and the window handles its messages;
\* a folder that is listed again and again can be read in the end.
Fairness ==
  /\ WF_vars(\E g \in Gens : LoadReads(g))
  /\ SF_vars(\E g \in Gens : LoadLands(g))
  /\ WF_vars(Post)
  /\ WF_vars(FilesChanged)

FairSpec == Spec /\ Fairness

-----------------------------------------------------------------------------
(* Properties.                                                             *)

Waits(g) == \E i \in 1..Len(posts) : posts[i].gen = g /\ posts[i].failed

\* The slot's bookkeeping is its workers': it says it is loading exactly while
\* one load will answer to it, and that it is watched exactly while a watcher
\* will report to it or has still to say that it failed.  A load of a slot since
\* closed answers to none.
OneWorkerEach ==
  slot.open =>
    /\ slot.scanning <=> \E l \in loads : l.gen = slot.gen
    /\ \A l, m \in loads : l.gen = m.gen => l = m
    /\ slot.watching <=> (watch.running /\ watch.batch.gen = slot.watchGen) \/ Waits(slot.watchGen)

\* A note FastPad did not write itself that changed outside it is marked as
\* soon as the list has the change, unless the user has seen it.
UnseenChangesAreMarked ==
  slot.loaded /\ unseen /\ ~own /\ ~shown /\ slot.list = disk /\ disk # 0 => slot.mark

InBatch(b) == b.gen = slot.watchGen /\ ((b.note /\ b.names) \/ b.overflow)
NamesReported ==
  slot.watching /\ (InBatch(watch.batch) \/ \E i \in 1..Len(posts) : InBatch(posts[i]))

\* A note created or deleted outside FastPad, once the watcher heard of it, is
\* in the list or out of it in the end, whatever is scanned meanwhile and even
\* when the report did not fit its buffer.
NamesAreFollowed ==
  NamesReported ~> \/ slot.loaded /\ (slot.list = 0 <=> disk = 0)
                   \/ ~slot.watching \/ slot.failed \/ own

==============================================================================
