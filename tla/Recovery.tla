------------------------------ MODULE Recovery ------------------------------
(***************************************************************************)
(* Unsaved text across crashes and closes: recovery snapshots, the session *)
(* manifest, and every FastPad process that reads and deletes them.        *)
(* Sources: recovery/mod.rs, recovery/snapshot.rs, session.rs,             *)
(* window/main_window/{snapshots, session_save, session_restore}.rs, and   *)
(* the closes of document_tabs.rs and wndproc.rs.                          *)
(*                                                                         *)
(* A process runs on one UI thread.  Each action below is what it does     *)
(* between two operations on the shared files, where the other processes   *)
(* run and where it may die; `busy` and `doomed` say what is left to do    *)
(* before it returns to its message loop.                                  *)
(***************************************************************************)
EXTENDS Naturals, FiniteSets

CONSTANTS
  Process,     \* FastPad processes, each of them started at most once
  None,        \* Option::None, a file that is not there
  MaxTabs,     \* bound on the unsaved documents of one process
  MaxVersion,  \* bound on the edits of one document
  Settings,    \* the values restore_session takes
  Together     \* whether a process may start while another one runs

Slot == 1..MaxTabs
Id == Process \X Slot   \* RecoveryId: who wrote it and a counter
Owner(id) == id[1]

\* A work is named after the document it was first typed in; it keeps its name
\* when a snapshot of it becomes a tab of a later process.
Text == [work : Id, version : 1..MaxVersion]
Tab == [text : Text,
        dirty : BOOLEAN,
        recorded : BOOLEAN,        \* recovery_generation = Some(generation)
        origin : Id \cup {None}]   \* recovery_origin.snapshot_path

ASSUME RecoveryAssumption ==
  /\ MaxTabs \in Nat
  /\ MaxVersion \in Nat \ {0}
  /\ Settings \in (SUBSET BOOLEAN) \ {{}}
  /\ Together \in BOOLEAN
  /\ None \notin Id \cup Text \cup Tab

VARIABLES
  snaps,     \* the Recovery directory: what each snapshot file holds
  manifest,  \* the snapshots session.ini names; {} while there is none
  proc,      \* the processes
  tabs,      \* their unsaved documents, numbered by recovery id
  kept       \* history: the version of each work last put in a file and not
             \* saved, discarded or undone since; 0 for none

vars == <<snaps, manifest, proc, tabs, kept>>

-----------------------------------------------------------------------------
Found == [id : Id, text : Text]
Proc == [state : {"off", "boot", "up", "saving", "cleaning", "reviewing", "exiting",
                  "leaving", "gone"},
         primary : BOOLEAN,        \* holds the instance mutex
         restore : BOOLEAN,        \* settings.restore_session
         restoring : BOOLEAN,      \* session_restore.is_some()
         todo : SUBSET Id,         \* manifest entries not reopened yet
         busy : {"no", "adopt", "open"},
         found : SUBSET Found,     \* candidates of a recovery under way
         doomed : SUBSET Id,       \* files about to be removed
         last : 0..MaxTabs,        \* last_snapshot_attempt
         left : 0..MaxTabs,        \* snapshot calls a session close has left
         used : 0..MaxTabs]        \* recovery ids given out

TypeOK ==
  /\ snaps \in [Id -> Text \cup {None}]
  /\ manifest \in SUBSET Id
  /\ proc \in [Process -> Proc]
  /\ tabs \in [Process -> [Slot -> Tab \cup {None}]]
  /\ kept \in [Id -> 0..MaxVersion]

NotStarted ==
  [state |-> "off", primary |-> FALSE, restore |-> FALSE, restoring |-> FALSE, todo |-> {}, busy |-> "no",
   found |-> {}, doomed |-> {}, last |-> 0, left |-> 0, used |-> 0]

Init ==
  /\ snaps = [id \in Id |-> None]
  /\ manifest = {}
  /\ proc = [p \in Process |-> NotStarted]
  /\ tabs = [p \in Process |-> [n \in Slot |-> None]]
  /\ kept = [id \in Id |-> 0]

-----------------------------------------------------------------------------
\* owner_is_alive: the owner mutex is held until the App is dropped, after the
\* window is destroyed.
Alive(p) == proc[p].state \notin {"off", "gone"}
Idle(p) == proc[p].busy = "no" /\ proc[p].doomed = {}
Running(p) == Idle(p) /\ proc[p].state = "up"
IsOpen(p, n) == tabs[p][n] # None
Needs(p, n) == IsOpen(p, n) /\ tabs[p][n].dirty /\ ~tabs[p][n].recorded

\* The tab's own snapshot file and the one it was recovered or restored from.
OwnedFiles(p, n) == {<<p, n>>} \cup ({tabs[p][n].origin} \ {None})

\* Mutant: the last snapshot written counts, whatever was typed since.
CurrentOfAnyAge(p, n) ==
  CASE snaps[<<p, n>>] # None -> <<p, n>>
    [] OTHER -> tabs[p][n].origin

\* The file that holds the latest text, if any does.
Current(p, n) ==
  CASE ~tabs[p][n].recorded -> None
    [] tabs[p][n].recorded /\ snaps[<<p, n>>] # None -> <<p, n>>
    [] OTHER -> IF tabs[p][n].origin \in Id /\ snaps[tabs[p][n].origin] # None
                THEN tabs[p][n].origin ELSE None

Set(p, fields) == proc' = [proc EXCEPT ![p] = fields]
SetTab(p, n, tab) == tabs' = [tabs EXCEPT ![p] = [tabs[p] EXCEPT ![n] = tab]]
Settled(w) == kept' = [kept EXCEPT ![w] = 0]

\* Give out a recovery id and open a document under it.
OpenTab(p, tab) == SetTab(p, proc[p].used + 1, tab)

-----------------------------------------------------------------------------
(* Starting: the owner mutex, the instance mutex, the session's manifest.  *)

Start(p) ==
  /\ proc[p].state = "off"
  /\ Together \/ \A q \in Process : ~Alive(q)
  /\ \E on \in Settings :
       Set(p, [proc[p] EXCEPT !.state = "boot",
                              !.restore = on,
                              !.primary = \A q \in Process : ~(Alive(q) /\ proc[q].primary)])
  /\ UNCHANGED <<snaps, manifest, tabs, kept>>

\* begin_session_restore: the primary takes the manifest, or deletes it when
\* sessions are off.
BeginRestore(p) ==
  /\ proc[p].state = "boot"
  /\ IF proc[p].primary
     THEN /\ manifest' = {}
          /\ Set(p, [proc[p] EXCEPT !.state = "up",
                                    !.todo = IF proc[p].restore THEN manifest ELSE {},
                                    !.restoring = proc[p].restore /\ manifest # {}])
     ELSE /\ Set(p, [proc[p] EXCEPT !.state = "up"])
          /\ UNCHANGED manifest
  /\ UNCHANGED <<snaps, tabs, kept>>

\* Mutant: a restored tab forgets where its text came from.
FromSnapshotUnrecorded(id, text) == [text |-> text, dirty |-> TRUE, recorded |-> TRUE, origin |-> None]

\* A restored or recovered tab: unsaved, its text known to be in `id`.
FromSnapshot(id, text) == [text |-> text, dirty |-> TRUE, recorded |-> TRUE, origin |-> id]

RestoreEntry(p, id) ==
  /\ Running(p) /\ proc[p].restoring
  /\ id \in proc[p].todo
  /\ IF snaps[id] = None
     THEN /\ Set(p, [proc[p] EXCEPT !.todo = @ \ {id}])
          /\ UNCHANGED tabs
     ELSE /\ proc[p].used < MaxTabs
          /\ OpenTab(p, FromSnapshot(id, snaps[id]))
          /\ Set(p, [proc[p] EXCEPT !.todo = @ \ {id}, !.used = @ + 1, !.busy = "adopt"])
  /\ UNCHANGED <<snaps, manifest, kept>>

\* A snapshot of tab n reaches the disk.
Written(p, n) ==
  /\ snaps' = [snaps EXCEPT ![<<p, n>>] = tabs[p][n].text]
  /\ SetTab(p, n, [tabs[p][n] EXCEPT !.recorded = TRUE])
  /\ kept' = [kept EXCEPT ![tabs[p][n].text.work] = tabs[p][n].text.version]

\* Mutant: the source goes before anyone looks whether the write succeeded.
AdoptUnchecked(p) ==
  /\ proc[p].busy = "adopt"
  /\ LET n == proc[p].used IN
     /\ Written(p, n) \/ UNCHANGED <<snaps, tabs, kept>>
     /\ Set(p, [proc[p] EXCEPT !.busy = "no", !.doomed = {tabs[p][n].origin}])
  /\ UNCHANGED manifest

\* adopt_restored_snapshot: rewrite the text under an id of this process, then
\* remove the source.  A failed write keeps the source.
Adopt(p) ==
  /\ proc[p].busy = "adopt"
  /\ LET n == proc[p].used IN
     \/ /\ Written(p, n)
        /\ Set(p, [proc[p] EXCEPT !.busy = "no", !.doomed = {tabs[p][n].origin}])
     \/ /\ Set(p, [proc[p] EXCEPT !.busy = "no"])
        /\ UNCHANGED <<snaps, tabs, kept>>
  /\ UNCHANGED manifest

FinishRestore(p) ==
  /\ Running(p) /\ proc[p].restoring /\ proc[p].todo = {}
  /\ Set(p, [proc[p] EXCEPT !.restoring = FALSE])
  /\ UNCHANGED <<snaps, manifest, tabs, kept>>

-----------------------------------------------------------------------------
(* Recovery after a crash, which runs again whenever a file is opened.     *)

\* Mutant: the snapshots of running processes are taken for leftovers.
ForeignAny(p, id) == snaps[id] # None /\ Owner(id) # p

\* discover_snapshots_with(owner_is_alive)
Foreign(p, id) == snaps[id] # None /\ ~Alive(Owner(id))

Discover(p) ==
  /\ Running(p) /\ ~proc[p].restoring
  /\ \E id \in Id : Foreign(p, id)
  /\ Set(p, [proc[p] EXCEPT !.busy = "open",
                            !.found = {[id |-> id, text |-> snaps[id]] : id \in {i \in Id : Foreign(p, i)}}])
  /\ UNCHANGED <<snaps, manifest, tabs, kept>>

\* Snapshots the next restore will open are not left by a crash.
Saved(p) == IF proc[p].restore THEN manifest ELSE {}
Claimed(p, id) ==
  Owner(id) = p \/ \E n \in Slot : IsOpen(p, n) /\ tabs[p][n].origin = id

\* What is left of the candidates once the manifest is read; the tabs then
\* open one after the other, as far as MaxTabs goes.
OpenRecovered(p) ==
  /\ proc[p].busy = "open"
  /\ LET fresh == {f \in proc[p].found : f.id \notin Saved(p) /\ ~Claimed(p, f.id)} IN
     \/ /\ fresh = {} \/ proc[p].used = MaxTabs
        /\ Set(p, [proc[p] EXCEPT !.busy = "no", !.found = {}])
        /\ UNCHANGED tabs
     \/ \E f \in fresh :
          /\ proc[p].used < MaxTabs
          /\ OpenTab(p, FromSnapshot(f.id, f.text))
          /\ Set(p, [proc[p] EXCEPT !.used = @ + 1, !.found = @ \ {f}])
  /\ UNCHANGED <<snaps, manifest, kept>>

-----------------------------------------------------------------------------
(* The user's work.                                                        *)

NewDocument(p) ==
  /\ Running(p)
  /\ proc[p].used < MaxTabs
  /\ LET id == <<p, proc[p].used + 1>> IN
     /\ OpenTab(p, [text |-> [work |-> id, version |-> 1], dirty |-> TRUE,
                    recorded |-> FALSE, origin |-> None])
     /\ Set(p, [proc[p] EXCEPT !.used = @ + 1])
  /\ UNCHANGED <<snaps, manifest, kept>>

Edit(p, n) ==
  /\ Running(p) /\ IsOpen(p, n)
  /\ tabs[p][n].text.version < MaxVersion
  /\ SetTab(p, n, [tabs[p][n] EXCEPT !.text.version = @ + 1, !.dirty = TRUE, !.recorded = FALSE])
  /\ UNCHANGED <<snaps, manifest, proc, kept>>

\* set_dirty: a recovered tab stays dirty until it is saved.
MayGoClean(p, n) == IsOpen(p, n) /\ tabs[p][n].dirty /\ tabs[p][n].origin = None

UndoAll(p, n) ==
  /\ Running(p) /\ MayGoClean(p, n)
  /\ SetTab(p, n, [tabs[p][n] EXCEPT !.dirty = FALSE, !.recorded = FALSE])
  /\ Settled(tabs[p][n].text.work)
  /\ UNCHANGED <<snaps, manifest, proc>>

\* A save supersedes the tab's own snapshot and the one it came from.
Save(p, n) ==
  /\ Idle(p) /\ proc[p].state \in {"up", "reviewing"}
  /\ IsOpen(p, n) /\ tabs[p][n].dirty
  /\ SetTab(p, n, [tabs[p][n] EXCEPT !.dirty = FALSE, !.recorded = FALSE, !.origin = None])
  /\ Set(p, [proc[p] EXCEPT !.doomed = OwnedFiles(p, n)])
  /\ Settled(tabs[p][n].text.work)
  /\ UNCHANGED <<snaps, manifest>>

\* Close tab, answered Discard when it is dirty (Save is Save, then this).
CloseTab(p, n) ==
  /\ Running(p) /\ IsOpen(p, n)
  /\ SetTab(p, n, None)
  /\ Set(p, [proc[p] EXCEPT !.doomed = OwnedFiles(p, n)])
  /\ IF tabs[p][n].dirty THEN Settled(tabs[p][n].text.work) ELSE UNCHANGED kept
  /\ UNCHANGED <<snaps, manifest>>

\* The restore_session command.
ToggleRestore(p) ==
  /\ Running(p)
  /\ \E on \in Settings \ {proc[p].restore} : Set(p, [proc[p] EXCEPT !.restore = on])
  /\ UNCHANGED <<snaps, manifest, tabs, kept>>

-----------------------------------------------------------------------------
(* Snapshots.                                                              *)

\* The next document needing a snapshot after the last one tried, wrapping.
NextSnapshot(p) ==
  LET needing == {n \in Slot : Needs(p, n)}
      after == {n \in needing : n > proc[p].last} IN
  IF after # {} THEN CHOOSE n \in after : \A m \in after : n <= m
                ELSE CHOOSE n \in needing : \A m \in needing : n <= m

\* Once a recovered tab has its own snapshot, its source is a stale duplicate.
SourceDone(p, n, written) == IF written THEN {tabs[p][n].origin} \ {None} ELSE {}

\* snapshot_next_document, whose write may fail.
SnapshotNext(p, after) ==
  LET n == NextSnapshot(p) IN
  \E written \in BOOLEAN :
    /\ IF written THEN Written(p, n) ELSE UNCHANGED <<snaps, tabs, kept>>
    /\ Set(p, [after EXCEPT !.last = n, !.doomed = SourceDone(p, n, written)])
    /\ UNCHANGED manifest

SnapshotTick(p) ==
  /\ Running(p)
  /\ \E n \in Slot : Needs(p, n)
  /\ SnapshotNext(p, proc[p])

RemoveFile(p, id) ==
  /\ id \in proc[p].doomed
  /\ Set(p, [proc[p] EXCEPT !.doomed = @ \ {id}])
  /\ \/ snaps' = [snaps EXCEPT ![id] = None]
     \/ UNCHANGED snaps
  /\ UNCHANGED <<manifest, tabs, kept>>

-----------------------------------------------------------------------------
(* Closing the window.                                                     *)

CloseCalls(p) == Cardinality({n \in Slot : Needs(p, n)})

\* WM_CLOSE: save_session_for_close in a primary with sessions on, the review
\* of unsaved documents otherwise and while a restore is under way.
Close(p) ==
  /\ Running(p)
  /\ IF proc[p].primary /\ proc[p].restore /\ ~proc[p].restoring
     THEN /\ Set(p, [proc[p] EXCEPT !.state = "saving",
                                    !.left = CloseCalls(p)])
          /\ UNCHANGED manifest
     ELSE /\ Set(p, [proc[p] EXCEPT !.state = "reviewing"])
          /\ manifest' = IF proc[p].primary /\ ~proc[p].restore THEN {} ELSE manifest
  /\ UNCHANGED <<snaps, tabs, kept>>

CloseSnapshot(p) ==
  /\ Idle(p) /\ proc[p].state = "saving" /\ proc[p].left > 0
  /\ LET after == [proc[p] EXCEPT !.left = @ - 1] IN
     IF \E n \in Slot : Needs(p, n)
     THEN SnapshotNext(p, after)
     ELSE Set(p, after) /\ UNCHANGED <<snaps, manifest, tabs, kept>>

\* build_session: every dirty document's text is in a file.
Secured(p) == \A n \in Slot : IsOpen(p, n) /\ tabs[p][n].dirty => Current(p, n) # None

SessionSnapshots(p) == {Current(p, n) : n \in {m \in Slot : IsOpen(p, m) /\ tabs[p][m].dirty}} \ {None}

WriteManifest(p) ==
  /\ Idle(p) /\ proc[p].state = "saving" /\ proc[p].left = 0
  /\ \/ /\ Secured(p)
        /\ manifest' = SessionSnapshots(p)
        /\ Set(p, [proc[p] EXCEPT !.state = "cleaning"])
     \/ /\ Set(p, [proc[p] EXCEPT !.state = "reviewing"])
        /\ UNCHANGED manifest
  /\ UNCHANGED <<snaps, tabs, kept>>

\* snapshots_removed_on_session_close
Superseded(p, n) ==
  CASE ~tabs[p][n].dirty -> OwnedFiles(p, n)
    [] tabs[p][n].dirty /\ Current(p, n) = None -> {}
    [] OTHER -> OwnedFiles(p, n) \ {Current(p, n)}

CleanSession(p) ==
  /\ Idle(p) /\ proc[p].state = "cleaning"
  /\ Set(p, [proc[p] EXCEPT !.state = "exiting",
                            !.doomed = UNION {Superseded(p, n) : n \in {m \in Slot : IsOpen(p, m)}}])
  /\ UNCHANGED <<snaps, manifest, tabs, kept>>

CancelReview(p) ==
  /\ Idle(p) /\ proc[p].state = "reviewing"
  /\ Set(p, [proc[p] EXCEPT !.state = "up"])
  /\ UNCHANGED <<snaps, manifest, tabs, kept>>

\* The review ends with every document that is still dirty discarded
\* (remove_session_snapshots).
FinishReview(p) ==
  /\ Idle(p) /\ proc[p].state = "reviewing"
  /\ Set(p, [proc[p] EXCEPT !.state = "exiting",
                            !.doomed = UNION {OwnedFiles(p, n) : n \in {m \in Slot : IsOpen(p, m)}}])
  /\ kept' = [w \in Id |-> IF \E n \in Slot : /\ IsOpen(p, n) /\ tabs[p][n].dirty
                                              /\ tabs[p][n].text.work = w
                           THEN 0 ELSE kept[w]]
  /\ UNCHANGED <<snaps, manifest, tabs>>

\* The instance mutex and the documents are given up; what is left is `state`.
Released(p, state) ==
  /\ Set(p, [NotStarted EXCEPT !.state = state, !.used = proc[p].used])
  /\ tabs' = [tabs EXCEPT ![p] = [n \in Slot |-> None]]
  /\ UNCHANGED <<snaps, manifest, kept>>

\* shutdown_ipc and clear_documents_for_shutdown.  The owner mutex is still held
\* while the window is destroyed and its writers are joined: another process may
\* become the primary and take the manifest in between.
ShutDown(p) == Idle(p) /\ proc[p].state = "exiting" /\ Released(p, "leaving")

\* WM_NCDESTROY drops the App, and the owner mutex with it.
Exit(p) == proc[p].state = "leaving" /\ Released(p, "gone")

Crash(p) == Alive(p) /\ Released(p, "gone")

-----------------------------------------------------------------------------
Next ==
  \E p \in Process :
    \/ Start(p) \/ BeginRestore(p) \/ Adopt(p) \/ FinishRestore(p)
    \/ Discover(p) \/ OpenRecovered(p)
    \/ NewDocument(p) \/ ToggleRestore(p) \/ SnapshotTick(p)
    \/ Close(p) \/ CloseSnapshot(p) \/ WriteManifest(p) \/ CleanSession(p)
    \/ CancelReview(p) \/ FinishReview(p)
    \/ ShutDown(p) \/ Exit(p) \/ Crash(p)
    \/ \E n \in Slot : Edit(p, n) \/ UndoAll(p, n) \/ Save(p, n) \/ CloseTab(p, n)
    \/ \E id \in Id : RestoreEntry(p, id) \/ RemoveFile(p, id)

Spec == Init /\ [][Next]_vars

-----------------------------------------------------------------------------
(* Properties.                                                             *)

\* The snapshots p acts on.
HeldFiles(p) ==
  proc[p].doomed \cup proc[p].todo \cup {f.id : f \in proc[p].found}
    \cup ({tabs[p][n].origin : n \in {m \in Slot : IsOpen(p, m)}} \ {None})

\* "Never lose a word": whatever was once put in a snapshot and not saved,
\* discarded or undone since is in some snapshot file, no older, after any
\* crash of any process at any point.
NothingUnsavedIsLost ==
  \A w \in Id : kept[w] > 0 =>
    \E id \in Id : snaps[id] # None /\ snaps[id].work = w /\ snaps[id].version >= kept[w]

\* A tab that the timer passes over, its text being in a file already, has it
\* in a file: its own snapshot or the one it came from.
RecordedTextIsInFile ==
  \A p \in Process, n \in Slot :
    IsOpen(p, n) /\ tabs[p][n].dirty /\ tabs[p][n].recorded /\ proc[p].state # "exiting" =>
      \E id \in OwnedFiles(p, n) : snaps[id] = tabs[p][n].text

\* A session close asks nothing: every dirty text, as it was when the window
\* closed, is in a snapshot its manifest names.
SessionKeepsLatestText ==
  [][\A p \in Process : proc[p].state = "saving" /\ proc'[p].state = "cleaning" =>
       \A n \in Slot : IsOpen(p, n) /\ tabs[p][n].dirty =>
         \E id \in manifest' : snaps[id] = tabs[p][n].text]_vars

HasDocuments(p) == proc[p].state \notin {"off", "leaving", "gone"}

\* While a process has documents, its snapshots are its own: no other process
\* opens them as tabs, restores them or is about to remove them.  Only those in
\* the manifest are handed on before the owner mutex is dropped, when their
\* writer has closed its documents; crash recovery waits for that mutex.
LiveSnapshotsArePrivate ==
  \A p \in Process :
    /\ \A id \in HeldFiles(p) : Owner(id) = p \/ ~HasDocuments(Owner(id))
    /\ \A f \in proc[p].found : ~Alive(Owner(f.id))

=============================================================================
