------------------------------ MODULE DiskTab ------------------------------
(***************************************************************************)
(* One text tab and its file, while other programs write the file too:     *)
(* opening, the tab check (reload, append merge, conflict), autosave,      *)
(* Save and Note: Keep my version, Note: Reload from disk.                 *)
(* Sources: library/external.rs, window/library_host/external.rs,          *)
(* window/library_host/autosave.rs, window/main_window/saving.rs.          *)
(*                                                                         *)
(* FastPad runs each of these on its UI thread without yielding, so they   *)
(* do not interleave with one another; but every system call inside them   *)
(* is a point where another program's write can land.  `step` says which   *)
(* system call the UI thread is about to make.                             *)
(***************************************************************************)
EXTENDS Naturals, Sequences

CONSTANTS
  Chunk,        \* the pieces texts are made of
  Texts,        \* the texts users and other programs write (bounds the model)
  None,         \* Option::None
  ReloadLimit,  \* AUTO_RELOAD_LIMIT, in chunks
  AutoReloads,  \* the values reload_changed_files takes: TRUE is `auto`,
                \* FALSE is `ask`
  Gaps,         \* where inside a save another program's write may land:
                \* "write" before the file is replaced, "stamp" after it and
                \* before FastPad reads its new stamp
  MaxClock      \* bound on the number of writes

Stamp == [size : Nat, modified : Nat]

ASSUME DiskTabAssumption ==
  /\ Texts \subseteq Seq(Chunk)
  /\ Texts # {}
  /\ None \notin Stamp
  /\ None \notin Seq(Chunk)
  /\ None \notin [text : Seq(Chunk), stamp : Stamp]
  /\ ReloadLimit \in Nat
  /\ MaxClock \in Nat
  /\ AutoReloads \subseteq BOOLEAN
  /\ Gaps \subseteq {"write", "stamp"}

VARIABLES
  disk,   \* the file: its text and stamp, or None while it is missing
  bin,    \* the file as last deleted: a restore brings the same stamp back
  clock,  \* the last write's `modified` time
  tab,    \* the tab's Document, and its text and save point in Scintilla
  step,   \* the UI thread: what it is doing, for whom, the stamp it has read
  told,   \* the watcher's report of a write to the file is on its way
  unseen  \* history: the tab was restored and not compared with its file yet,
          \* or its last check could not read it

vars == <<disk, bin, clock, tab, step, told, unseen>>

-----------------------------------------------------------------------------
File == [text : Seq(Chunk), stamp : Stamp]
Tab  == [text : Seq(Chunk),          \* the Scintilla document
         save : Seq(Chunk),          \* its text at the last save point
         dirty : BOOLEAN,
         known : Stamp \cup {None},  \* disk_stamp
         base : Seq(Chunk) \cup {None},  \* text_base
         deleted : BOOLEAN,          \* deleted_on_disk
         conflict : {"none", "changed", "deleted"},
         paused : BOOLEAN,           \* autosave_paused
         recovered : BOOLEAN]        \* recovery_origin.is_some()
Step == [at : {"idle", "stat", "read", "resume", "write", "stamp", "load"},
         by : {"check", "autosave", "user", "open"},
         auto : BOOLEAN,             \* the setting as the check read it
         now : Stamp \cup {None}]

TypeOK ==
  /\ disk \in File \cup {None}
  /\ bin \in File \cup {None}
  /\ clock \in Nat
  /\ tab \in Tab
  /\ step \in Step
  /\ told \in BOOLEAN
  /\ unseen \in BOOLEAN

Idle == [at |-> "idle", by |-> "user", auto |-> FALSE, now |-> None]

StampOf(file) == IF file = None THEN None ELSE file.stamp

\* The file after a write of `t`: the clock ticks between two writes.
Written(t) == [text |-> t, stamp |-> [size |-> Len(t), modified |-> clock + 1]]

\* A tab just loaded from a file with this text, whose stamp was read before.
Loaded(t, stamp) ==
  [text |-> t, save |-> t, dirty |-> FALSE, known |-> stamp, base |-> t,
   deleted |-> FALSE, conflict |-> "none", paused |-> FALSE,
   recovered |-> FALSE]

\* A tab brought back from a session snapshot bound to this path.
FromSnapshot(t) ==
  [Loaded(t, None) EXCEPT !.save = <<>>, !.dirty = TRUE, !.base = None,
                          !.recovered = TRUE]

Init ==
  /\ clock = 0
  /\ bin = None
  /\ step = Idle
  /\ told = FALSE
  /\ disk \in {[text |-> t, stamp |-> [size |-> Len(t), modified |-> 0]] :
                 t \in Texts} \cup {None}
  /\ \/ /\ disk # None
        /\ tab = Loaded(disk.text, disk.stamp)
        /\ unseen = FALSE
     \/ /\ \E t \in Texts : tab = FromSnapshot(t)
        /\ unseen = TRUE

-----------------------------------------------------------------------------
(* Other programs, and the watcher, which reports what anybody does to the  *)
(* file.                                                                    *)

OutsideMayWrite == clock < MaxClock /\ step.at \notin {"write", "stamp"} \ Gaps

\* An editor, an agent or a sync client writes the file: a rewrite, an append,
\* or the same text again.
OutsideWrite(t) ==
  /\ OutsideMayWrite
  /\ disk' = Written(t)
  /\ clock' = clock + 1
  /\ bin' = None
  /\ told' = TRUE
  /\ UNCHANGED <<tab, step, unseen>>

OutsideDelete ==
  /\ OutsideMayWrite
  /\ disk # None
  /\ bin' = disk
  /\ disk' = None
  /\ told' = TRUE
  /\ UNCHANGED <<clock, tab, step, unseen>>

\* Back from the recycle bin with its old time, nothing having been written at
\* the path since it was deleted.
OutsideRestore ==
  /\ OutsideMayWrite
  /\ disk = None
  /\ bin # None
  /\ disk' = bin
  /\ told' = TRUE
  /\ UNCHANGED <<bin, clock, tab, step, unseen>>

-----------------------------------------------------------------------------
(* The user's edits.                                                       *)

\* Typing leaves the save point.
Edit(t) ==
  /\ step = Idle
  /\ t # tab.text
  /\ tab' = [tab EXCEPT !.text = t, !.dirty = TRUE]
  /\ UNCHANGED <<disk, bin, clock, step, told, unseen>>

\* Undo all the way to the save point; a recovered tab stays dirty there.
UndoToSavePoint ==
  /\ step = Idle
  /\ tab.dirty
  /\ tab' = [tab EXCEPT !.text = tab.save, !.dirty = tab.recovered]
  /\ UNCHANGED <<disk, bin, clock, step, told, unseen>>

-----------------------------------------------------------------------------
(* The tab check.                                                          *)

\* How a text read from disk relates to the text last loaded or saved.
Classify(base, t) ==
  CASE base = None -> "Other"
    [] t = base -> "Same"
    [] base # None /\ t # base
         /\ Len(t) > Len(base) /\ SubSeq(t, 1, Len(base)) = base -> "Appended"
    [] OTHER -> "Other"

UnsureWithoutStamp == tab.known = None

\* A tab with no known stamp is treated as dirty.
Unsure == tab.dirty \/ tab.known = None

\* A clean tab takes a changed file by itself, unless the user is to be asked
\* or the file is too large.
MayReload(now) == ~Unsure /\ step.auto /\ now.size <= ReloadLimit

\* Whether the verdict on a file stamped `now` depends on its text.
NeedsText(now) ==
  /\ now # None
  /\ tab.known \notin {None, now}
  /\ ~Unsure /\ step.auto => MayReload(now)

Verdict(now, change) ==
  CASE now = None /\ tab.deleted -> "Unchanged"
    [] now = None /\ ~tab.deleted ->
         IF tab.dirty THEN "ConflictDeleted" ELSE "Deleted"
    [] now # None /\ (now = tab.known \/ change = "Same") ->
         IF tab.deleted THEN "Restored" ELSE "Unchanged"
    [] now # None /\ now # tab.known /\ change # "Same" ->
         IF change = "Appended" /\ Unsure THEN "AppendMerge"
         ELSE IF MayReload(now) THEN "Reload" ELSE "ConflictChanged"

\* The tab takes the file's text as one undoable edit and a save point.  The
\* dirty flag of a recovered tab cannot be cleared this way.
Taken(t, stamp) ==
  [tab EXCEPT !.text = t, !.save = t, !.dirty = tab.recovered,
              !.known = stamp, !.base = t, !.paused = FALSE,
              !.conflict = "none", !.deleted = FALSE]

MergedKeepingBase(t, stamp) ==
  [tab EXCEPT !.text = @ \o SubSeq(t, Len(tab.base) + 1, Len(t)),
              !.dirty = TRUE, !.known = stamp]

\* Text appended on disk goes to the end of the tab, behind its edits.
Merged(t, stamp) ==
  [tab EXCEPT !.text = @ \o SubSeq(t, Len(tab.base) + 1, Len(t)),
              !.dirty = TRUE, !.known = stamp, !.base = t]

\* The file's stamp stays as it was known: the next check finds it changed again.
InConflict(kind) ==
  [tab EXCEPT !.conflict = kind, !.paused = TRUE,
              !.deleted = @ \/ kind = "deleted"]

\* The tab after a verdict that needed no text.
Settle(verdict) ==
  CASE verdict = "Unchanged" -> tab
    [] verdict = "Restored" -> [tab EXCEPT !.deleted = FALSE]
    [] verdict = "Deleted" -> [tab EXCEPT !.deleted = TRUE]
    [] verdict = "ConflictDeleted" -> InConflict("deleted")
    [] verdict = "ConflictChanged" -> InConflict("changed")

\* The tab after a verdict on the text `t` read from the file.
SettleWith(verdict, t) ==
  CASE verdict = "Unchanged" -> [tab EXCEPT !.known = step.now]
    [] verdict = "Reload" -> Taken(t, step.now)
    [] verdict = "AppendMerge" -> Merged(t, step.now)
    [] verdict \notin {"Unchanged", "Reload", "AppendMerge"} -> Settle(verdict)

\* Where the UI thread goes after a check: autosave goes on only if the tab is
\* unchanged or took in an append.
After(verdict) ==
  IF step.by = "autosave" /\ verdict \in {"Unchanged", "AppendMerge"}
  THEN [step EXCEPT !.at = "resume"] ELSE Idle

ChecksTab ==
  /\ step = Idle
  /\ \E auto \in AutoReloads : step' = [at |-> "stat", by |-> "check", auto |-> auto, now |-> None]
  /\ UNCHANGED <<disk, bin, clock, tab, unseen>>

\* Mutant: a report is not for a tab with unsaved edits.
FilesChangedClean ==
  /\ told
  /\ told' = FALSE
  /\ IF tab.dirty THEN step = Idle /\ UNCHANGED <<disk, bin, clock, tab, step, unseen>> ELSE ChecksTab

\* files_changed and check_paths: the watcher's report names the file.
FilesChanged ==
  /\ told
  /\ told' = FALSE
  /\ ChecksTab

\* The window is activated, the tab is shown, or a report lost its paths.
TabShown == ChecksTab /\ UNCHANGED told

\* check_tab stats the file; a verdict that needs no text falls at once.
CheckStat ==
  /\ step.at = "stat"
  /\ LET now == StampOf(disk)
         verdict == Verdict(now, "Other") IN
     IF NeedsText(now)
     THEN /\ step' = [step EXCEPT !.at = "read", !.now = now]
          /\ UNCHANGED <<tab, unseen>>
     ELSE /\ tab' = Settle(verdict)
          /\ step' = After(verdict)
          /\ unseen' = FALSE
  /\ UNCHANGED <<disk, bin, clock, told>>

\* The file is read after its stamp, so its text may be newer than the stamp.
CheckRead ==
  /\ step.at = "read"
  /\ disk # None
  /\ LET verdict == Verdict(step.now, Classify(tab.base, disk.text)) IN
     /\ tab' = SettleWith(verdict, disk.text)
     /\ step' = After(verdict)
  /\ unseen' = FALSE
  /\ UNCHANGED <<disk, bin, clock, told>>

\* Locked by its writer, gone since the stat, or not text: the tab is left as
\* it is, which autosave takes for Unchanged, and nothing asks for another check.
CheckUnreadable ==
  /\ step.at = "read"
  /\ step' = After("Unchanged")
  /\ unseen' = TRUE
  /\ UNCHANGED <<disk, bin, clock, tab, told>>

-----------------------------------------------------------------------------
(* Autosave.                                                               *)

AutosaveEligible == tab.dirty /\ ~tab.paused

CaughtUpOrGone == tab.known = StampOf(disk)

\* Whether the tab knows the file as it is now.
CaughtUp == tab.known # None /\ tab.known = StampOf(disk)

\* The idle timer, leaving the tab, or closing the window.
AutosaveStart ==
  /\ step = Idle
  /\ AutosaveEligible
  /\ IF CaughtUp
     THEN step' = [Idle EXCEPT !.at = "write", !.by = "autosave"]
     ELSE \E auto \in AutoReloads :
            step' = [at |-> "stat", by |-> "autosave", auto |-> auto, now |-> None]
  /\ UNCHANGED <<disk, bin, clock, tab, told, unseen>>

\* After the check, autosave looks at the file once more before it writes.
AutosaveResume ==
  /\ step.at = "resume"
  /\ step' = IF CaughtUp /\ AutosaveEligible
             THEN [Idle EXCEPT !.at = "write", !.by = "autosave"]
             ELSE Idle
  /\ UNCHANGED <<disk, bin, clock, tab, told, unseen>>

-----------------------------------------------------------------------------
(* Saving.                                                                 *)

\* Ctrl+S and Note: Keep my version write without looking at the file first.
Save ==
  /\ step = Idle
  /\ step' = [Idle EXCEPT !.at = "write"]
  /\ UNCHANGED <<disk, bin, clock, tab, told, unseen>>

\* save_atomic replaces the file, the tab's snapshots go, and it is clean.
WriteFile ==
  /\ step.at = "write"
  /\ clock < MaxClock
  /\ disk' = Written(tab.text)
  /\ clock' = clock + 1
  /\ tab' = [tab EXCEPT !.save = tab.text, !.dirty = FALSE,
                        !.recovered = FALSE]
  /\ step' = [step EXCEPT !.at = "stamp"]
  /\ bin' = None
  /\ told' = TRUE
  /\ UNCHANGED unseen

\* The write failed: the file is as it was, or is gone when the replace lost it
\* (see AtomicSave).
WriteFails ==
  /\ step.at = "write"
  /\ disk' \in {disk, None}
  /\ told' = (told \/ disk' # disk)
  /\ step' = Idle
  /\ UNCHANGED <<bin, clock, tab, unseen>>

\* document_saved: the stamp is read after the write.
DocumentSaved ==
  /\ step.at = "stamp"
  /\ tab' = [tab EXCEPT !.known = StampOf(disk), !.base = tab.text,
                        !.paused = FALSE, !.conflict = "none",
                        !.deleted = FALSE]
  /\ step' = Idle
  /\ unseen' = FALSE
  /\ UNCHANGED <<disk, bin, clock, told>>

-----------------------------------------------------------------------------
(* Loading.                                                                *)

\* Opening the path (the tab was closed, its edits saved or discarded), and
\* Note: Reload from disk: both read the stamp before the text.
LoadStat(by) ==
  /\ step = Idle
  /\ step' = [Idle EXCEPT !.at = "load", !.by = by, !.now = StampOf(disk)]
  /\ UNCHANGED <<disk, bin, clock, tab, told, unseen>>

OpenRead ==
  /\ step.at = "load"
  /\ step.by = "open"
  /\ disk # None
  /\ tab' = Loaded(disk.text, step.now)
  /\ step' = Idle
  /\ unseen' = FALSE
  /\ UNCHANGED <<disk, bin, clock, told>>

\* Afterwards the tab's snapshots are removed, and with them its origin.
ReloadRead ==
  /\ step.at = "load"
  /\ step.by = "user"
  /\ disk # None
  /\ tab' = [Taken(disk.text, step.now) EXCEPT !.recovered = FALSE]
  /\ step' = Idle
  /\ unseen' = FALSE
  /\ UNCHANGED <<disk, bin, clock, told>>

LoadFails ==
  /\ step.at = "load"
  /\ step' = Idle
  /\ UNCHANGED <<disk, bin, clock, tab, told, unseen>>

-----------------------------------------------------------------------------
Outside ==
  \/ \E t \in Texts : OutsideWrite(t)
  \/ OutsideDelete
  \/ OutsideRestore

User ==
  \/ \E t \in Texts : Edit(t)
  \/ UndoToSavePoint
  \/ Save
  \/ LoadStat("open")
  \/ LoadStat("user")

UiThread ==
  \/ CheckStat
  \/ CheckRead
  \/ CheckUnreadable
  \/ AutosaveResume
  \/ WriteFile
  \/ WriteFails
  \/ DocumentSaved
  \/ OpenRead
  \/ ReloadRead
  \/ LoadFails

Next == Outside \/ User \/ FilesChanged \/ TabShown \/ AutosaveStart \/ UiThread

Spec == Init /\ [][Next]_vars

-----------------------------------------------------------------------------
(* Properties.                                                             *)

\* A known stamp stands for a known text: whenever the tab's stamp is the
\* file's, the text base is the file's text.  check_tab and autosave both act
\* on the stamp alone when it matches, so all of them rest on this.
KnownStampMeansKnownText ==
  disk # None /\ tab.known = disk.stamp => tab.base = disk.text

\* A clean tab whose stamp is the file's shows the file's text, unless an
\* append was merged behind the save point.
CleanTabShowsFile ==
  /\ ~tab.dirty
  /\ disk # None
  /\ tab.known = disk.stamp
  /\ tab.save = tab.base
  => tab.text = disk.text

AutosaveWrites == step.at = "write" /\ step.by = "autosave" /\ step'.at = "stamp"

\* Autosave replaces only a file whose text the tab has taken in, never a text
\* another program wrote since, and never re-creates a deleted file.
AutosaveOverwritesOnlyKnownText ==
  [][AutosaveWrites => disk # None /\ disk.text = tab.base]_vars

\* A conflict is the user's to resolve: no autosave writes over it, however
\* many checks, edits and deletions follow it.
AutosaveLeavesConflicts ==
  [][AutosaveWrites => tab.conflict = "none"]_vars

\* Unsaved text survives every check, FastPad's own or autosave's: the text
\* before it is still there, at most with text added behind it.
UnsavedTextSurvivesChecks ==
  [][tab.dirty /\ step.at \in {"stat", "read", "resume"} =>
       /\ tab'.dirty
       /\ Len(tab'.text) >= Len(tab.text)
       /\ SubSeq(tab'.text, 1, Len(tab.text)) = tab.text]_vars

\* The tab knows the file as it is, or shows a conflict or the deleted mark.
ShownToUser ==
  \/ tab.known = StampOf(disk)
  \/ disk # None /\ tab.base = disk.text
  \/ tab.conflict # "none"
  \/ tab.deleted /\ disk = None

\* No change made to the file is forgotten, whenever it lands: while the tab does
\* not show it, the watcher's report of it is on its way or being handled, or the
\* last look at the file failed ("the next check tries again").
OutsideChangeIsNoticed == ShownToUser \/ told \/ unseen \/ step.at \in {"stat", "read"}

-----------------------------------------------------------------------------
(* The inductive invariant behind these properties.                        *)

\* No stamp anyone holds is from the future, so a new write's stamp is new.
StampsArePast ==
  \A s \in {StampOf(disk), StampOf(bin), tab.known, step.now} :
     s # None => s.modified <= clock

\* A file in the bin beside a file at the path: it was restored.
RestoredIsTheFile == disk # None /\ bin # None => disk = bin

\* The same as KnownStampMeansKnownText for the file that may come back.
BinStampMeansKnownText ==
  bin # None /\ tab.known = bin.stamp => tab.base = bin.text

\* What FastPad has just written is what is there when it reads the stamp.
WrittenIsThere ==
  step.at = "stamp" => disk # None /\ bin = None /\ disk.text = tab.text

CleanIsAtSavePoint == ~tab.dirty => tab.text = tab.save

ConflictPauses == tab.conflict # "none" => tab.paused

\* Autosave about to write: nothing has changed since it looked.
AutosaveLooked ==
  step.at = "write" /\ step.by = "autosave" =>
     /\ ~tab.paused
     /\ "write" \notin Gaps => disk # None /\ tab.known = disk.stamp

\* A stamp that is being used is the file's, or a report of a write since is on
\* its way.
StampIsReported == step.at \in {"read", "load"} => told \/ step.now = StampOf(disk)

SyncInv ==
  /\ TypeOK
  /\ StampsArePast
  /\ RestoredIsTheFile
  /\ CleanIsAtSavePoint
  /\ ConflictPauses
  /\ AutosaveLooked
  /\ StampIsReported
  /\ OutsideChangeIsNoticed
  /\ "stamp" \notin Gaps => /\ KnownStampMeansKnownText
                            /\ BinStampMeansKnownText
                            /\ WrittenIsThere

=============================================================================
