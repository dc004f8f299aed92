# FastPad: specifications, model checks and proofs

TLA+ modules of FastPad, the Windows note editor of this repository, the TLC
configurations that check them on small instances, and theorems about them that
TLAPS checks for every value of the constants. Every definition is translated
from the source; `PROJECT.json` names the lines (`map`). Where the code only
uses something (Windows, the file system, Scintilla) it is modelled from that
use and marked external.

| module | what it is |
| --- | --- |
| `DiskTab` | one text tab and its file while other programs write the file too |
| `AtomicFile` | what the atomic save promises its callers (abstract) |
| `AtomicSave` | the atomic save, one system call at a time; implements `AtomicFile` |
| `Recovery` | snapshots, sessions and crash recovery, across FastPad processes |
| `SingleInstance` | the instance mutex, the named pipe, and launches that forward |
| `LibraryFile` | the pins of a notebook in `library.ini`, which other PCs write too |
| `Notebook` | an open notebook: loads, rescans, its watcher and the changed marks |
| `FolderMove` | a folder that moves to another drive: worker, window, tabs inside |
| `Replace` | Replace in files: count, question, writers, reports, reloads |
| `SplitTree` | the layout of the editor groups (operators) |
| `TabGroups` | documents, their views in groups, the editors, reviewed closes |
| `MC...` | the instance of a module TLC checks (bounded texts, symmetry) |
| `...Proofs` | the theorems of a module and their proofs |

A definition marked *Mutant* in a comment is a plausible bug in the definition
that follows it; it is used nowhere in the specification, and
`PROJECT.json` records which property fails when it takes that definition's
place.

## 1. Inventory

FastPad is one process with one UI thread per window, a handful of worker
threads that report to it by posted messages, and a file system it shares with
other programs (editors, sync clients, agents) and with other FastPad
processes. `PROJECT.json` lists every component; these keep the state that
matters.

**Disk sync and autosave of a tab** (`library/external.rs`,
`window/library_host/{external,autosave}.rs`). State: the tab's text and save
point, dirty flag, last known disk stamp, text base, deleted mark, conflict,
autosave pause. Operations: check a tab (on a watcher report, or when the window
or the tab is activated), reload, merge an append, raise a conflict, autosave,
save, keep my version, reload from disk. Hard: every system call is a point
where another program writes. Correct when: a matching stamp means a known text,
autosave overwrites nothing the tab has not taken in, a check drops no unsaved
text, and no outside change is forgotten. *Modelled: `DiskTab`.*

**Atomic save** (`file/saver.rs`). State: the file, temp files, a counter of temp
names. Operations: create, write, flush, swap, retry, clean up. Hard: crash
between calls, `ReplaceFileW` failing half-way, several savers of one path.
Correct when: a reader never sees part of a text, a new name replaces nothing, a
failed save loses neither text. *Modelled: `AtomicSave`.*

**Crash recovery and session** (`recovery/`, `session.rs`,
`window/main_window/{snapshots,session_save,session_restore}.rs`). State: snapshot
files by recovery id, the session manifest, a mutex per process that marks its
snapshots as its own, and per document the snapshot it came from and the
generation last recorded. Operations: timer snapshots, restore, adoption,
discovery of leftovers, save, close with and without a session. Hard: a crash
between any two file operations; several processes reading and deleting the same
directory. Correct when: what reached a snapshot is lost by no crash, and no
process touches a live one's snapshots. *Modelled in part: `Recovery`.*

**Single instance and its pipe** (`ipc/`, `window/main_window/ipc_host.rs`). State:
handles of the instance mutex, the pipe's one instance, the server's pending
overlapped operation and its event, the window's queue. Operations: claim or
forward, connect with retries, poll, open requests, drain at close, shut down.
Hard: synthesized completions that must wake the loop; requests held by a restore
or a modal question; a close while launches are on their way. Correct when: one
primary, each launch carried out once, and every forwarded launch opened.
*Modelled in part: `SingleInstance`.*

**Notebook host** (`window/library_host/`, `library/mod.rs`, `library/watch.rs`).
State: notebook slots with generations for load and watcher, a rescan owed, the
list of notes with their stamps and changed marks, the names of FastPad's own
recent writes. Operations: open, close, load, rescan, refresh, take a batch of the
watcher, record a save or a replace. Hard: answers of a superseded worker, a
rescan asked for during a scan, a watcher that drops reports or fails, a scan
that lists a folder while FastPad writes to it. Correct when: an answer reaches
the slot it was for, an asked rescan runs, a creation or deletion is followed, and
a change nobody has seen is marked. *Modelled in part: `Notebook`.*

**Library store** (`library/{ops,store,model}.rs`). State: `library.ini`, its stamp,
the copy the window works on, operations not yet written, a write timer. Hard: the
FastPad of another PC writes the same file through a sync; scans read it while
pins change. Correct when: a write keeps both sides' pins and what the user asked
for reaches the file or still waits. *Modelled in part: `LibraryFile`.*

**Folder moves** (`window/{cross_move_host,move_worker}.rs`, `platform/files.rs`). A
worker copies and verifies, the UI thread compares a snapshot of the original,
recycles it and lands the copy. Hard: files added after the copy, cancel and
window close between copy and landing, a shell that asks before it recycles,
originals recycled in part, copies that cannot be removed, edits held during the
move. Correct when: no text is lost, the folder is whole on one side and the tabs are
there, nobody else's folder is touched. *Modelled in part: `FolderMove`.*

**Search and replace across notes** (`window/text_search_host.rs`,
`library/text_replace.rs`). Count, ask, write, report, reload, each with a
generation, and posts held while a modal loop runs. Hard: tabs, notebooks and the
window change while the question is on the screen or a note is written. Correct
when: nothing typed is replaced by an older text, nothing is saved that the user
was not told of, no note is cut off, and no replace hangs. *Modelled in part:
`Replace`.*

**Tabs, groups and the split tree** (`window/{tabs,document_store,split_tree}.rs`,
`window/main_window/{document_tabs,split_groups,group_layout,opening,saving}.rs`).
Documents shared by views, the order of use, previews, groups that close with
their last tab, a close reviewed in a modal question while a screen reader
selects tabs and the autosave timer fires. Correct when: store, views, order,
layout and editors agree, and no unsaved text goes unasked. *Modelled in part:
`TabGroups`, `SplitTree`.*

**Startup chain** (`window/main_window/startup.rs`). Posted messages that yield to
input; restore, recovery and the pipe in order. *Not modelled yet.*

**Not modelled**: painting, layout and hit testing, panels and dialogs, the
Markdown preview and the live editor (their correctness is equality of data with
a full parse), accessibility providers, settings, languages, encodings, the copy
worker, the index of a notebook (a cache its next build replaces), wrappers of
system calls, and measurement tools. Most are sequential or user interface;
`PROJECT.json` gives the reason for each. They are also most of the code: what is
modelled is the part where steps of several actors meet, a small share of the
lines.

How they meet: the watcher reports paths to the tab check and to the notebook;
autosave, saving, replaces and library writes call the atomic save; a save removes
the tab's snapshots and records itself as FastPad's own write; a folder move and a
replace hold or reload the tabs on their notes; `WM_CLOSE` drains the pipe,
autosaves, saves the session or reviews the tabs, joins the workers, and gives up
pipe and mutex last; a session restore binds the pipe early, holds back forwarded
requests, and comes before crash recovery. The instance mutex decides which
process restores and writes the session.

## 2. Plan

Done, in this order, what can lose a user's words first: `DiskTab`, `AtomicSave`
with `AtomicFile`, `Recovery`, `SingleInstance`, `LibraryFile`, `Notebook`,
`FolderMove`, `Replace`, `TabGroups` with `SplitTree`. To come:

1. `Startup`: the chain under arbitrary input, composed with the restore, so that
   the order `Recovery` and `SingleInstance` assume is derived.
2. `CopyJob`: the copy worker in the form of `FolderMove`.
3. `Notebook` with its index, and two slots whose notebooks share a folder.
4. Pure algorithms against reference definitions: change classification and
   minimal replacement, session layout normalisation.

## 3. The modules

### DiskTab

`disk` is the file (text and stamp, size and time), `tab` the document with its
Scintilla text and save point, `step` the system call the UI thread is about to
make. FastPad runs a check, an autosave or a save without yielding, so these never
interleave with one another; other programs write, delete and restore the file
before each call. `told` is the watcher's report on its way, which any write,
deletion or return of the file causes; `FilesChanged` takes it and starts a check,
`TabShown` starts one without it. `CheckStat`, `CheckRead` and `CheckUnreadable` are
`check_tab` and `library::external::verdict`; `AutosaveStart` and
`AutosaveResume` are `autosave_document`; `Save`, `WriteFile`, `DocumentSaved`
the save; `LoadStat`, `OpenRead`, `ReloadRead` opening and *Reload from disk*.

Abstractions: a text is a sequence of chunks; a text is compared as such where the
code compares a hash; each write gets a fresh stamp; a file comes back from the
recycle bin only if nothing was written since. The constant `Gaps` says where in
the middle of FastPad's own save another program may write; `AutoReloads` is what
`reload_changed_files` may be when a check reads it (`step.auto`). The note is one of
an open notebook whose watcher runs: a plain file, or one of a notebook whose watcher
failed, is looked at on activation only. `check_paths` runs to its end without yielding,
so a report is not lost while one is handled. No worker of FastPad's writes the file
meanwhile (its reports would be taken for FastPad's own, `without_own_writes`; those
workers have their tabs checked or reloaded afterwards, see *Replace*), and
Scintilla takes the edits it is given.

`unseen` is a history variable: the last look at the file could not read it, or there
was none yet since the tab was restored from a snapshot. Nothing in the code schedules
another look then. "The next check tries again" (`external.rs:80-83`) means the next
report, activation or autosave, whenever that is; so the property on outside changes
excepts it by name, and promises no more for it.

Two consequences of the code are visible in the model and meant to be: a recovered
tab stays dirty after *Reload from disk* until its snapshots go (`tabs.rs:879`),
and a tab marked deleted whose file comes back with another text goes into conflict
and keeps the mark (`library/external.rs`).

### AtomicFile and AtomicSave

`AtomicSave` makes each system call of `write_then_swap` a step: `Start` (with
`path.exists()`), `CreateTemp`, `WriteTemp`, `Look` (`destination.exists()`),
`Replace` or `Move`, `Blocked` (the retries), `Clean` and `RemoveTemp`. Several
savers, in one process or many, save one path; other programs write, delete or
create it; a crash may come before any step. The outcomes of `ReplaceFileW` and
`MoveFileExW` are those their documentation names, chosen freely, among them
"the file is gone and the temp file still has its own name". Temp names are taken
to be new: a process id used again by the system while an old temp file lies there
is left out. What the machine keeps after a power cut is the flush's business and
is not modelled.

`AtomicFile` is what callers rely on: a save takes effect in one step or not at
all, they learn which, a new name never replaces; its one exception (`Vanish`) is
the removed file the code's comments describe. The refinement mapping forgets the
temp files and reads the outcome off the saver's position.

### Recovery

`snaps` is the recovery directory, `manifest` the snapshots `session.ini` names,
`proc` and `tabs` the processes and their unsaved documents, and `kept`, a history
variable, the version of each work that reached a file and was not saved,
discarded or undone since. A step is what a process does between two operations
on the shared files: it may die there and the others run. `Start` takes the
owner mutex and maybe the instance mutex; `BeginRestore`, `RestoreEntry`, `Adopt`
and `FinishRestore` reopen a session; `Discover` and `OpenRecovered` are crash
recovery; `SnapshotTick` the timer; `Close`, `CloseSnapshot`, `WriteManifest`,
`CleanSession`, or `FinishReview`, a close. A process goes in two steps: `ShutDown`
closes its documents and gives up the instance mutex (`shutdown_ipc`), `Exit` drops the
`App` at `WM_NCDESTROY` and with it the owner mutex. In between the window is destroyed
and its writers are joined, and another process may become the primary and reopen the
snapshots the manifest names, while crash recovery still takes their owner for alive.
`LiveSnapshotsArePrivate` says both: nobody acts on the snapshots of a process that
has documents, and what recovery has found belongs to nobody alive. `doomed` holds the
files that are about to be removed, one `RemoveFile` each, and each removal may fail.

Abstractions: a text is the work it belongs to and a version. Reading all snapshot
files is one step. `Save` stands also for the removal of snapshots after *Reload
from disk*. Images, compare tabs, tabs with nothing unsaved and the layout of
groups are not in the manifest here. A process starts at most once, and a primary stays
one until it closes: that it gives the mutex up when its pipe cannot be bound
(`ipc_host.rs:31`) is left out here.

### SingleInstance

Every process is one launch with one request, named by the process. `Claim`,
`DropHandle`, `Connect`, `GiveUp`, `Write`, `SendFails`, `CloseClient` are
`claim_or_forward`, `forward_if_running` and `send_frame`. In the window that
created the mutex, `Bind` and `BindConnect` create the pipe, at the start of a
restore or later; `Wake` is the message loop's wait on the event; `PollConnected`,
`PollRead`, `PollBroken` one step of `IpcServer::poll` and `EndPoll` its return
in `service_ipc`. `Handle`, `FinishRestore`, `Ask`, `HoldWhileModal`, `EndModal` are
the window's messages, `BeginClose`, the polls, `EndDrain`, `DropPipe`,
`ReleaseMutex` the part of `WM_CLOSE` that concerns launches. `Crash` ends a
process and `Rundown` lets the kernel close its handles in any order.

The kernel is modelled from its use: a pipe instance lives while any handle of it
is open, so a name may be taken by a dead or leaving server's last client and
`CreateNamedPipeW` with `FIRST_PIPE_INSTANCE` fails; an operation that never
reached the kernel signals nothing, which is why `Synthesize` must.

Abstractions: a frame is written in one call, since the pipe's buffer holds the
largest one; encoding, access control and the check of the server's identity are
left out; system calls on valid handles do not fail; opening a queue of requests
is one step; the two refusals at the head of `WM_CLOSE` (a running folder
population or move) only keep a close from starting. `owed` remembers what was
forwarded when a close began. Bounds: each process launches
once, and `MaxSteps` stands for `MAX_STEPS_PER_POLL`.

### LibraryFile

`disk` is `library.ini` (absent, damaged or readable, its records and stamp), `state`
the window's `LibraryState`: the library as it shows it, whether the file could be
read, the stamp it was read at, and the operations that wait to be written. `scan` is
a load on its worker, `flush` how far a write has come. `TogglePin`, `PinIn`, `Touch`
and `Depart` are the operations of `ops.rs` on a record; `BeginLoad`, `Load`,
`LoadFails` and `Install` a scan and `merge_rescan`; `FlushTimer`, `Close`, `Quit`,
`FlushReads`, `Write` and `StampBack` the write: if the stamp is not the known one
the file is read again and the operations are replayed on what it says. `Foreign` is
the sync that brings another PC's version, `Crash` the end of the process.
`asked` remembers what the user last asked for each note.

Abstractions: a record is kept for its pin; the operations that wait are what they
leave to do per note. Other programs do not write between the last look at the file
and the stamp taken after the write unless `Gaps`; with it their write can be taken
for FastPad's own, as in `DiskTab`. Left out: the purge of records by a scan, several
records of one note, `notes.ini`. Consequences of the code that the model has: a
scan that found the file damaged may land after it was repaired, and the library stays
unreadable until the next rescan; when both the window's library and the scan's are
older than the file, the scan's may be installed.

### Notebook

One folder and one note in it, known by the time it was last written. `slot` is the
`NotebookSlot` (generation of its load, `scanning`, a rescan owed in `again`, the note
as listed, its changed mark, the generation of its watcher), `loads` the load workers
with their answers, `watch` the watcher thread and the batch it collects, `posts` the
batches on their way. `Open` and `Close` are a folder opened and closed, or notes
mode off; `LoadReads`, `LoadLands`, `LoadFails`, `LoadIsLate` a load and
`library_ready`, which merges a rescan with what changed meanwhile (`Merged`), starts
the watcher (`WatcherEnsured`) and begins the rescan that is owed (`Owed`).
`FilesChanged` is the window's side of a batch: failure, overflow, own writes taken
out, notes restamped and marked, names rescanned. `Save`, `AskReplace`,
`ReplaceWrites` and `ReplaceLands` are FastPad's own writes, with the names the
watcher is told to take for them (`own`). `Show`, `Hide`, `ClearMarks` are what the
user looks at. Init has the load or the failing watcher of an earlier opening still
on its way. `unseen` is a history variable.

Left out: the index; the check of the folder and the launch's load at startup;
`PostMessageW` failing (the slot would stay `scanning`). What the code does not
promise is in the model too, or excluded from the properties by name: changes between
a first listing and the watcher's start are seen by the next rescan only; a stale
rescan puts an old stamp back; the changes of others inside the window of an own
write are dropped; a watcher that fails takes the batch it had with it; the names a
closed notebook's own saves had are not remembered when it is opened again.

### FolderMove

`src` and `dst` are the folder and what is at its destination, `tabs` the tabs on its
notes, `job` the move with its worker, `done` the worker's outcome on its way,
`host` the window (open, asking, closing, joining the worker, gone) and the two
notebooks. `Ask`, `Answer`, `Refuse`, `Cancel` are the window's part of the start;
`Snapshots`, `Lists`, `Copies`, `CopyFails`, `CopyIsCancelled`, `CopyIsWhole`,
`CopyIsWanted`, `Verifies` the worker's `run`, which looks for a cancel in the copy and
once more before it verifies. `MoveDone` is `move_done` up to the recycling: the window
forgets the move, so nothing is held any more, and compares the original with the
snapshot. What may not land is removed; else `Recycled` is the rest of `land`: the
original goes, all or some of it (`RecycledSome`), tabs follow what is gone, and what is
unsaved goes where each file now is. Between the two the shell may ask (the warning of
`FOF_WANTNUKEWARNING`, modal to the window): the user can do nothing to the window
(`UserMay`), but timers and posts are handled, so autosave writes, and so may others.
`late`, a history variable, has the files whose last text was written to the
original in that time. A removal may fail, its result being ignored (`Without`): what
it leaves (`dst.by = "left"`) is not looked at again.
`CloseNotebook`, `AskToClose`, `KeepRunning`, `CancelAndClose`, `BackFromClose`,
`Destroy` and `Joined` close notebooks and the window.

Abstractions: a text is the number of its writing, which is its size and time too;
the snapshot, the verification and the comparison in `land` are one step each; other
programs do not write into the copy; a post to a window that lives does not fail
(`post_done` drops the outcome then, and the move would stay). Left out: a move on one
drive (a rename), the move of single notes, images, pins and expanded folders that go
along.

### Replace

`file` and `tabs` are the notes and the tabs on them, `results` what the Search view
lists with the stamps the search took, `host` the window's part (the current
generation, `replacing`, `applying`, a modal loop, the timer), `jobs` the replaces,
each with its plan, its worker and its post, `reloads` the tabs being read again.
`StartReplace`, `CountEnds`, `Counted`, `AnswerYes`, `AnswerNo` are the count and
the question; `Begins`, `Writes`, `WriteEnds`, `Written` the worker and its report;
`ReloadReads`, `ReloadLands` the reloads; `Timer` is what was held during a modal loop
looked at again. `Search`, `SearchWaits`, `CloseBook`, `OpenBook`, `Destroy` and
`Joined` are what a replace meets. A text is a number and whether the query matches.

Left out: matching itself and the plan for the current note only; a search is one
step; a change between a writer's look at the stamp and its save (the source says
that it is not guarded); read-only tabs, encodings. `MCStarts` gives each initial
state its share of the bounds, so that one run has both instances.

### SplitTree and TabGroups

`SplitTree` has the operations of `split_tree.rs` on rows and columns: the leaves in
order, a split, a leaf removed with the branches that collapse. `TabGroups` takes the
layouts as constants (`Layouts`, `LeavesOf`, `OneGroup`, `SplitAt`, `WithoutGroup`), with
what it needs of them as `LayoutAssumption`; `MCTabGroups` gives it the operators of
`SplitTree`, and TLC evaluates the assumption on all 51 layouts of up to three groups. In
`TabGroups` (`WindowInit`, `WindowNext`, `WindowSpec`), `win` is one record of documents,
strips of tabs, the order of use (`recent`), the layout and the document each editor
holds, changed by operators that compose as the functions do
(`ViewAdded`, `ViewMoved`, `TabRemoved`, `EmptyRemoved`, `Placed`, `ActivatedIn`);
`ask` is the question on the screen. The actions are the commands: new, open,
preview, promote, type, save, focus, split, drop on a group or an edge, reorder, close
a tab, a background tab, a group, delete a note, exit. While a question is asked only
`AccessibleSelect` (a screen reader) and `AutosaveTimer` happen, which is what a
modal question lets through. The loops over views and tabs of `close_every_view`,
`close_group` and `autosave_all` are steps of their own, and nothing else happens until
they end (`ask.kind` is "delete" or "autosave").

Left out: shares, rectangles and sashes, carets and scroll positions, session
restore, conflicts and reloads (`DiskTab`), the exit with a session (`Recovery`), drops
from the Explorer. The generation of a document is "changed since it was asked
about"; document identities are given again once free; every file with a path may be
a note; drops on edges are tried upwards, the other directions through the split
commands.

## 4. The runs

| run | instance | properties |
| --- | --- | --- |
| `disk_tab` | 2 chunks, texts of at most 2, 2 writes, the setting free at every check, no gap | `KnownStampMeansKnownText`, `AutosaveOverwritesOnlyKnownText`, `UnsavedTextSurvivesChecks`, `OutsideChangeIsNoticed` |
| `atomic_save_shared` | 2 savers, 1 save each, 2 retries, others write, delete, create, fair | `ImplementsAtomicFile`, `SaveReturns` |
| `atomic_save_stale` | 2 savers, 1 save each, 2 retries, nobody else | `NeverLosesBoth` is violated |
| `recovery_alone` | 2 processes, one after the other, 2 documents, 2 versions, sessions on or off | `RecordedTextIsInFile`, `SessionKeepsLatestText` |
| `recovery_together` | 3 processes at once, 1 document, 1 version | `LiveSnapshotsArePrivate`, `NothingUnsavedIsLost` |
| `single_instance` | 2 FastPads, 1 capture, 3 steps a poll, fair | `PrimaryMeetsNoServer`, `OpenedOnce`, `DrainOpensOwed`, `ForwardedIsOnItsWay`, `ForwardedIsOpened`, `LaunchSettles` |
| `library_file` | 2 notes, 4 stamps, no gap | `StampMeansLibrary`, `AskedIsKept`, `PendingHasTimer`, `WriteKeepsBoth`, `InstallKeepsCurrent` |
| `notebook` | 3 generations, 2 changes after the first, 1 opening after an earlier one, fair | `OneWorkerEach`, `UnseenChangesAreMarked`, `NamesAreFollowed` |
| `folder_move` | 2 names, one with a tab, 3 writes, 2 moves, fair | `NothingIsLost`, `OneFolderInTheEnd`, `OtherFolderKept`, `HeldEditsAreSaved`, `MovesEnd` |
| `replace` | 2 notebooks with a note each, one note with a tab; 1 replace with a write and a modal loop, or 2 replaces | `TypedIsShown`, `SavedOnlyIfAgreed`, `NoteIsNeverCutOff`, `ReplaceGoesOn`, `ClosedNotebookIsLeft` |
| `tab_groups` | 2 documents, 1 file, 3 groups, or 3 documents, 2 files (one an image), 2 groups; 3 views | `StoreIsTheViews`, `EditorsShowSelected`, `PreviewsAreDisposable`, `LayoutIsTheGroups`, `ExitIsReviewed`, `ClosedOnlyAsAgreed` |
| `tab_groups_focus` | the same | `FocusFollowsTheTab` is violated |

A run has what its theorems do not say better: the types are proved, not run again;
`NeverPartial` and `NewNameReplacesNothing` follow from the refinement and are proved as
well; and `NothingUnsavedIsLost` is run where it is hardest, with processes side by side,
and proved for any.

Why the bounds are enough.

- *DiskTab*: every verdict compares at most three texts (tab, base, file), and two
  chunks give equal, appended, shortened and different ones. Two writes are one by
  FastPad after one by others, or the reverse, or two in one gap. `ReloadLimit` is one
  chunk, so that files below and above it exist.
- *AtomicSave*: one retry already takes a save through a swap that removed the file
  and a second try; the code's five are five times the same loop. Two savers are every
  pairwise interference; a third adds nothing that other programs do not do.
- *Recovery*: two generations of processes show every crash and its recovery; a
  third process at once makes one recover while another restores what a third
  left. Two documents are needed for a manifest with one failed write. With one
  process after the other, documents can be edited after a snapshot, the second
  version; side by side each has one document and one version, and the theorem covers
  the rest.
- *SingleInstance*: a request needs a connect, a read and the end of the pipe, so
  three steps serve exactly one client per poll and the bound on a poll is met;
  with thirty-two it would be met after ten clients. Two FastPads give a primary
  and its successor, or a primary and two clients with the capture.
- *LibraryFile*: stamps are compared for equality between the file, the window and a
  scan, so a fourth is always new; they are used again, and writes are not bounded.
  Two notes give a pin of ours and one of the other PC in one file.
- *Notebook*: an answer of an earlier opening is there from the start, so one opening
  has every late answer; three generations keep what is in flight apart. Two changes
  give one that a listing missed and one it has, or a foreign one and one of FastPad's
  own in either order.
- *FolderMove*: a file in a tab and one without one; three writes are one by the
  user and two by others, before, during and after the copy; a second move meets what
  the first left.
- *Replace*: the note without a tab is the worker's, the other is changed in its tab or
  reloaded. A second replace meets the writer of a cancelled first one; those races
  depend on the generations and not on texts, so edits are left to the instance with
  one replace.
- *TabGroups*: a third group is needed for a neighbour that is neither source nor
  target, a third document for an exit with one to save, one to discard and one that
  changes meanwhile.

Deadlock is checked in `disk_tab` and `notebook`, where the user may always act. In
the others the system may stop for good: all savers have used their saves or are
dead, all processes are gone, the window is closed, the bounds are used up.

### Fairness

- *AtomicSave*: a thread in the middle of a save keeps running (weak). Nothing makes
  it start one, and other programs may interfere without end.
- *SingleInstance*: a launch runs on, a window's thread finishes what it is doing
  (weak), a question on the screen is answered in the end (weak, `EndModal`) and
  the kernel closes the handles of the dead (weak). `next_message` waits on the
  event and the messages together and looks at the event first; posted messages
  keep their order. So the loop comes to a signalled event, a posted message and
  the next entry of a restore, however often a question interrupts it (strong).
  No one is made to close a window, to start, or to crash.
- *Notebook*: a load worker lists the folder, the watcher's delay passes, and the window
  handles a posted batch (weak). A folder that is listed again and again can be read in
  the end (strong, `LoadLands`): the alternative, that every load fails, is what the
  property excepts as long as the user sees the failure.
- *FolderMove*: the worker runs, the window handles its messages, and the join at the
  end returns (weak). No one is made to cancel or to close, or to answer the shell's
  question: `MovesEnd` says that a move comes to its landing or ends, not that the
  recycling does.
- *DiskTab*, *Recovery*, *LibraryFile*, *Replace* and *TabGroups* have no liveness property: a
  failing disk may fail for ever, and a locked file stay unread. That nothing waits for ever
  is stated as an invariant there instead: what waits has a timer, a worker or a post that
  will come back to it (`OutsideChangeIsNoticed`, `PendingHasTimer`, `ReplaceGoesOn`).

### What the violation runs show

- `atomic_save_stale`: `existed` is read once, before the temp file is written. If
  the path is empty then, a first move is blocked, another saver puts the file there,
  and the second swap removes it without putting the new one in its place, the
  clean-up believes there was no file to lose and removes the temp file. It takes
  three unlikely events; the code means to exclude the loss.
- `tab_groups_focus`: with three groups, the only tab of one is dropped on another.
  `place_view` activates the group the tab went to and then removes the one it left;
  `remove_empty_group` activates the neighbour of the removed group whichever is
  active, so the focus ends in the third group. The doc comment of `place_view` says
  that it goes to the target.

### Disagreements without a run

Found while modelling, by a counterexample or by reading, and left out of the runs.

- An append on disk is merged as one more edit, without moving Scintilla's save point
  (`background_documents.rs:291`). Undoing past it reaches the save point; the tab goes
  clean, and the file has more text than it shows, against "Only a successful write
  marks the tab clean." (`autosave.rs:59`). The text is not lost.
- A second process started while the primary restores a session takes a snapshot for a
  crash leftover, between the deletion of the manifest and the adoption
  (`session_restore.rs:446`), and opens it after the primary has removed the file: its
  tab counts as recorded although no file of its own holds the text. The text is in the
  primary's own snapshot.
- A frame that reaches the pipe's buffer after the drain of a close is dropped with the
  pipe, and its launch has exited with success (`ipc_host.rs:170`). For `--capture` the
  text is gone.
- A close of a notebook whose `library.ini` is damaged drops the pins that wait
  (`notebooks.rs:42`).
- A rescan between a replace's write and its report marks FastPad's own write as a
  change made outside (`library/mod.rs:586`).
- A text that autosave, or another program, writes into the original while the shell
  recycles it (its warning waits for the user) goes with it, and the copy lands without
  it: `late` in `FolderMove`. The comment at `cross_move_host.rs:391` means the
  comparison before the recycling to exclude that: "a file added since the copy read its
  folder would go to the Recycle Bin uncopied". It is in the bin, unless the warning was
  that it would not be.
- A copy that cannot be removed stays beside the original, half of it or all, while the
  notice says "Nothing was moved" and the comments "so the original is the only one"
  (`cross_move_host.rs:352`, and 251 at the close); only that the original is whole
  holds then.
- A cancel after the worker's check is not looked at any more
  (`cross_move_host.rs:356`): the copy lands, although the design says of a cancelled
  move that nothing was moved.
- In the tab groups: an image opened while the empty untitled tab that is active is
  shown by two groups fails, since `open_image_placed` has not the condition
  that the opening of text has; "the active view is always first" of `recent`
  (`tabs.rs:240`) does not hold once a screen reader selected a tab of a group that is
  not active; moving a background tab from the right of the selected one can change
  the selection of its group (`move_view_at`); the path of a tab whose file was
  deleted does not keep a Save As off it; `autosave_all_of` returns to the document
  that was active but perhaps in another group; a drop on an edge whose open fails
  leaves an empty group.
- The comment at `saver.rs:23` says that any failure leaves the original untouched and
  removes the temp file, while a swap that deleted the destination and could not move
  the temp file in leaves no original and keeps the temp file (`saver.rs:98`).
- `forward_if_running`, which by its comment never keeps the mutex, creates it for a
  moment when no FastPad runs, so a FastPad starting just then takes it for a running
  one, finds no pipe and goes on by itself.

With `Gaps` containing `"stamp"`, `AutosaveOverwritesOnlyKnownText` does not
hold: a write between FastPad's save and its reading of the new stamp
(`autosave.rs:274`) is taken for FastPad's own. The runs and theorems that need it
say so in their constants; `LibraryFile` has the same gap.

## 5. What is proved

All theorems are about the specifications TLC checks, for every value of the
constants that meets the module's `ASSUME` and the hypotheses named below. Eight modules
have them, and every invariant and action property of a run that must hold is one of them.

**`DocumentProofs`** has the document on its own (`DiskTab`) and the documents of a window
(`TabGroups`). `SyncInvariant` is the inductive invariant: no stamp anyone holds
lies in the future (so a new write's stamp is new to everybody), a stamp the tab and
the file share stands for the text base, the same for the file in the recycle bin,
what FastPad has just written is there when it reads the stamp, a conflict pauses
autosave, an autosave about to write has looked since the last outside change, and a
stamp read for a check is the file's or reported since.
The invariants of the run are not inductive without it: `KnownStampMeansKnownText`
needs that a write cannot produce a stamp already held. From it follow `KnownText`,
`CleanTab` and `AutosaveIsSafe` (all three for saves nobody writes into, the
hypothesis `"stamp" \notin Gaps`, resp. `Gaps = {}`), and `ChangesAreNoticed`,
`ConflictsAreKept` and `UnsavedTextIsKept` without any such hypothesis.

`WindowInvariant` is about the tab groups. `WindowInv` says that between commands the
window is *sound* and *fresh*: every strip shows a document once and selects a tab it
has; a document is in the store exactly while a strip shows it; the order of use has
every view once; a group has at most one preview, which is nowhere else and has
no unsaved text; the layout has each group once; each editor holds the document of the
selected tab; and a question, a deletion or an exit on its way finds the views and
documents it is about. Almost nothing here is inductive without the rest: a
tab leaves the store only if no other strip has it, a preview may be replaced only
because it is alone, a group may go only because the layout has another. Within a
command the parts fail for a moment, so the lemmas on the operations (`ViewAdded`,
`TabRemoved`, `EmptyRemoved`, ...) are about a window that is sound but for one document
no strip shows yet, and fresh but for the editors still to be shown; each action's lemma
chains them in the order of the code and shows as well that it closes nothing unasked.
`WindowTypeCorrect`, `StoreHoldsTheViews`, `EditorsAreShown`, `PreviewsLoseNothing`,
`LayoutShowsTheGroups`, `ExitAsksFirst` and `NothingClosesUnasked` follow. The layouts are
whatever satisfies `LayoutAssumption`: that the trees of `SplitTree` do is an induction
over trees and stays with TLC. By the invariant a preview to be replaced is never
unsaved, so the branch that makes it a normal tab instead is not reached.

**`AtomicSaveProofs`**. `WholeInv` says that a saver at its swap has its whole text in
its temp file and that a new name never reaches `ReplaceFileW`; it gives
`NeverPartialHolds`, `NewNameIsExclusive` and the refinement
`SaveImplementsAtomicFile` (each step maps to a step of `AtomicFile` or a
stutter). `LossIsCovered` has its own invariant, for one saver and no other program
that creates the file: while the file exists the saver knows it, and a lost file
has a safe copy. Both hypotheses are needed: `atomic_save_stale`.

**`RecoveryProofs`**. `OwnersHold`: there is one primary; the manifest names only files
of processes on their way out; every file a process holds, whether about to remove
it, to restore it, to recover it or as the origin of a tab, is its own or one of a process
that has closed its documents, though it may still hold its owner mutex; and nothing
bears the name of a process that never started. It is the
part on held files that is inductive only with the others: a restored file could belong
to a process with documents if two primaries could read one manifest, or if a primary
gave up the instance mutex before its documents. `LiveSnapshotsHold` follows, with a
second invariant: what recovery has found was found dead, and the dead stay dead.

`KeepersHold` is why nothing is lost. A *keeper* of a work is a file that holds it, no
older than what was last put in a file, that no process is about to remove and whose
document, if it is open, is unsaved. That there is one is not inductive alone: a file
is given up when its text is known to be elsewhere, so the invariant says what the files
of a document hold (its source, while there, is a dead process's, no newer than it and
equal to it until something is typed or written; its own snapshot is equal to it while
recorded), that nobody removes the snapshot of a recorded text before the way out, and
that what a process is about to reopen belongs to dead ones. Each step either leaves a
keeper alone, gives it up for the file it has just written, or settles the work.
`NothingLost` and `SessionKept` follow, for processes that overlap in any way.

`AloneHold` adds what holds while no other process runs (`~Together`, the hypothesis of
this and the next two): no two documents come from one file, what is to be reopened is
there, no document came from it and it is not about to be removed; the manifest is empty
from the start of a process to its end, and what it then names are the files of the
documents that are kept. `RecordedHold` and `SessionWhole` follow. With processes side by
side both are false: two may recover one dead process's snapshot, and one of them removes
the file the other goes by.

**`SingleInstanceProofs`**. `Invariance`: one window holds the mutex, a living server of
the pipe holds it, a window that is leaving has no pipe any more, one between
creation and first listen has it. `PrimaryIsAlone` follows. `OnceOnly` adds where a
request may be: in the pipe, read, taken in the current poll, queued or opened, in
one of these places and one time in it, and only of a process that wrote it.

`DrainInvariance` is the other half, that it is in one at all. While the window it was
written to lives, a request that is not opened is in its queue, in its poll or in its
pipe (`WrittenIsKept`); a server between two calls has an operation under way, in the
kernel or completed with the event set (`ServerIsReady`); a queue that is not empty has a
message posted, held by a question or owed by a restore (`QueueIsAnnounced`); who has
exited has closed its end (`ClientIsOpen`); and what a close owes is three steps of its
poll away at most, the client, its frame and the end of it (`DrainReaches`). Each leans on
the others: a request leaves the pipe only into a poll that a window is doing, and the
poll ends early only if nothing is complete. `RequestsMoveOn` follows for every
`MaxSteps`; `DrainOpensAll` needs `MaxSteps >= 3`, which the code's 32 exceeds, and is
false with less.

**`LibraryFileProofs`**. The invariant `IInv` says of the window's library and of a scan
on its way the same thing: if its stamp is the file's, it is what the file says with
the pending operations done; no file at all is a stamp of its own. With it goes where
each request is (in the file, or pending as the user last asked it), and that a
flush about to write has just compared the stamps. `StampMeansLibrary` is inductive
only with the part about the scan, which becomes the window's when it lands.
`InstallsKeepCurrent` and `PendingIsScheduled` need no hypothesis on `Gaps`, the others
that nobody writes inside a flush.

**`NotebookProofs`**. `Inv` says that no two loads in flight have one generation and that a
closed slot has none (`OneLoadEach`); that a watcher says once, in its last words, that
it failed, and says nothing after (`FailureIsLast`); that nothing known of the note is
newer than its last change (`NothingIsNewer`: a new write is told from every listing);
that a change nobody has seen is one of the loaded notebook which no landing load will
take for FastPad's own (`UnseenIsLoaded`); and that the report of a replace comes to a
later opening or while its names are still known (`ReportIsOwn`). Each is what one
handler needs of the others: `library_ready` of the generations, `files_changed` of
the last words, `merge_rescan` of the ages. `OneWorker` and `ChangesAreMarked` follow.

**`FolderMoveProofs`**. `Inv` has the whole argument of the move: texts have numbers of
their own, so a file that looks as it did in the snapshot is as it was
(`TextsAreOld`, `CopyIsFaithful`); a checked copy has every file of the snapshot
(`CopyIsComplete`); the copy is the worker's own while it exists (`CopyIsMine`); until a
copy lands, the original has the last text of every file (`SourceIsCurrent`) and tabs
follow only then (`TabsFollowed`). The landing compares the original with the snapshot
once more; from then on the copy has every last text but the late ones, whoever writes
until the original is gone, and these parts together make the recycling safe for the rest.
`NothingLost`, `OneFolder`, `OtherFolder` and `HeldAreSaved` follow.

**`ReplaceProofs`**. `Inv` has a part about control and one about texts. Control: a
replace that can still do something is the one the window names, and its number is
its own (`OneIsLive`, `NumbersAreOld`), what is held has a timer (`TimerIsRight`), and a
worker's notes are agreed and in notebooks that are open or told to it as closed
(`JobsAreSound`). Texts: a tab is at or ahead of its file's known text and of what
was last typed in it (`TabsAreAhead`), and what a reload has read lies between what its
tab knew and what the file has now (`ReloadsAreBetween`), so a reload that finds its
tab as it marked it brings nothing older. `TypedIsShown` needs all of the second part,
the others the first.

Proofs are hierarchical, one step per action; what several actions share (a field
of one process changes, a queue grows by what a poll took, a load may begin) is a lemma.

**Only model-checked**: the liveness properties (`SaveReturns`, `ForwardedIsOpened`,
`LaunchSettles`, `NamesAreFollowed`, `MovesEnd`), since fairness and `ENABLED` are outside
what the prover handles; and that the layouts of `SplitTree`, whose operators are
recursive, satisfy `LayoutAssumption`.

## 6. Running it

```
tlc -workers 2 -config DiskTab.cfg MCDiskTab
tlc -workers 2 -config RecoveryAlone.cfg MCRecovery
tlapm ReplaceProofs.tla
```

Each `.cfg` names its properties; `PROJECT.json` says which module goes with it. The
largest run, `replace`, has some 2.6 million states and takes about a minute; the
slowest, `notebook` with its liveness property, under three.
