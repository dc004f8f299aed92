--------------------------- MODULE DocumentProofs ---------------------------
(***************************************************************************)
(* Theorems about open documents. First DiskTab, the tab and its file, for *)
(* every set of texts, every reload limit and any number of writes; then   *)
(* TabGroups, the tabs of all groups, for any documents, files and layouts *)
(* and any number of groups.                                               *)
(***************************************************************************)
EXTENDS DiskTab, TabGroups, SequenceTheorems, WellFoundedInduction, TLAPS

-----------------------------------------------------------------------------
(* A tab and its file.                                                     *)

\* The text of a merge is a sequence of chunks.
LEMMA SuffixType ==
  ASSUME NEW t \in Seq(Chunk), NEW b \in Seq(Chunk), Len(t) > Len(b)
  PROVE  SubSeq(t, Len(b) + 1, Len(t)) \in Seq(Chunk)
<1>1. Len(b) \in Nat /\ Len(t) \in Nat
  BY LenProperties
<1>2. \A i \in Len(b) + 1 .. Len(t) : i \in 1 .. Len(t)
  BY <1>1
<1> QED
  BY <1>1, <1>2, SubSeqProperties

\* What Classify tells of a base it calls appended to.
LEMMA AppendedHasBase ==
  ASSUME NEW b, NEW t, Classify(b, t) = "Appended"
  PROVE  b # None /\ Len(t) > Len(b)
BY DEF Classify

-----------------------------------------------------------------------------
LEMMA WrittenType ==
  ASSUME NEW t \in Seq(Chunk), clock \in Nat
  PROVE  /\ Written(t) \in File
         /\ Written(t).text = t
         /\ Written(t).stamp.modified = clock + 1
BY LenProperties DEF Written, File, Stamp

LEMMA LoadedType ==
  ASSUME NEW t \in Seq(Chunk), NEW s \in Stamp \cup {None}
  PROVE  Loaded(t, s) \in Tab
BY DEF Loaded, Tab

LEMMA SettleType ==
  ASSUME tab \in Tab, NEW v \in {"Unchanged", "Restored", "Deleted",
                                 "ConflictDeleted", "ConflictChanged"}
  PROVE  Settle(v) \in Tab
BY DEF Settle, InConflict, Tab

LEMMA VerdictRange ==
  ASSUME NEW now, NEW change
  PROVE  Verdict(now, change) \in
           {"Unchanged", "Restored", "Deleted", "ConflictDeleted",
            "ConflictChanged", "AppendMerge", "Reload"}
BY DEF Verdict

\* A verdict reached without the text is never one that needs the text.
LEMMA VerdictAtOnce ==
  ASSUME NEW now, ~NeedsText(now)
  PROVE  Verdict(now, "Other") \in
           {"Unchanged", "Restored", "Deleted", "ConflictDeleted",
            "ConflictChanged"}
BY DEF Verdict, NeedsText, MayReload, Unsure

\* A merge needs a text that has the base as its beginning.
LEMMA VerdictMerge ==
  ASSUME NEW now, NEW change, Verdict(now, change) = "AppendMerge"
  PROVE  change = "Appended"
BY DEF Verdict

LEMMA AfterType ==
  ASSUME step \in Step, NEW v
  PROVE  After(v) \in Step
BY DEF After, Step, Idle

LEMMA SettleWithType ==
  ASSUME tab \in Tab, step \in Step, NEW t \in Seq(Chunk),
         NEW v, v = Verdict(step.now, Classify(tab.base, t))
  PROVE  SettleWith(v, t) \in Tab
<1>1. v \in {"Unchanged", "Restored", "Deleted", "ConflictDeleted",
             "ConflictChanged", "AppendMerge", "Reload"}
  BY VerdictRange
<1>2. step.now \in Stamp \cup {None}
  BY DEF Step
<1>3. CASE v = "Unchanged"
  BY <1>2, <1>3 DEF SettleWith, Tab
<1>4. CASE v = "Reload"
  BY <1>2, <1>4 DEF SettleWith, Taken, Tab
<1>5. CASE v = "AppendMerge"
  <2>1. tab.base \in Seq(Chunk) /\ Len(t) > Len(tab.base)
    BY <1>5, VerdictMerge, AppendedHasBase DEF Tab
  <2>2. tab.text \o SubSeq(t, Len(tab.base) + 1, Len(t)) \in Seq(Chunk)
    BY <2>1, SuffixType, ConcatProperties DEF Tab
  <2>3. Merged(t, step.now) \in Tab
    BY <1>2, <2>2 DEF Merged, Tab
  <2> QED
    BY <1>5, <2>3 DEF SettleWith
<1>6. CASE v \notin {"Unchanged", "Reload", "AppendMerge"}
  BY <1>1, <1>6, SettleType DEF SettleWith
<1> QED
  BY <1>3, <1>4, <1>5, <1>6

-----------------------------------------------------------------------------
\* What the steps that begin something leave in `step`.
LEMMA StartEffect ==
  ASSUME ChecksTab \/ AutosaveStart
  PROVE  /\ UNCHANGED <<disk, bin, clock, tab, unseen>>
         /\ AutosaveStart => UNCHANGED told
         /\ step' \in Step /\ step'.now = None
         /\ step'.at = "stat" \/ (step'.at = "write" /\ AutosaveStart /\ CaughtUp)
<1>0. AutosaveStart => UNCHANGED told
  BY DEF AutosaveStart
<1>1. ASSUME NEW by \in {"check", "autosave"}, NEW auto \in BOOLEAN,
             step' = [at |-> "stat", by |-> by, auto |-> auto, now |-> None]
      PROVE  step' \in Step /\ step'.now = None /\ step'.at = "stat"
  BY <1>1 DEF Step
<1>2. CASE ChecksTab
  <2>1. PICK auto \in AutoReloads :
          step' = [at |-> "stat", by |-> "check", auto |-> auto, now |-> None]
    BY <1>2 DEF ChecksTab
  <2> QED
    BY <1>0, <1>1, <1>2, <2>1, DiskTabAssumption DEF ChecksTab
<1>3. CASE AutosaveStart /\ CaughtUp
  <2>1. step' = [at |-> "write", by |-> "autosave", auto |-> FALSE, now |-> None]
    BY <1>3 DEF AutosaveStart, Idle
  <2>2. step' \in Step /\ step'.now = None /\ step'.at = "write"
    BY <2>1 DEF Step
  <2> QED
    BY <1>3, <2>2 DEF AutosaveStart
<1>4. CASE AutosaveStart /\ ~CaughtUp
  <2>1. PICK auto \in AutoReloads :
          step' = [at |-> "stat", by |-> "autosave", auto |-> auto, now |-> None]
    BY <1>4 DEF AutosaveStart
  <2> QED
    BY <1>1, <1>4, <2>1, DiskTabAssumption DEF AutosaveStart
<1> QED
  BY <1>2, <1>3, <1>4

\* A check is asked for by the watcher's report, or by showing the tab.
Checking == FilesChanged \/ TabShown

LEMMA CheckingEffect ==
  ASSUME Checking
  PROVE  ChecksTab /\ (told' = FALSE \/ told' = told)
BY DEF Checking, FilesChanged, TabShown

LEMMA ResumeEffect ==
  ASSUME AutosaveResume
  PROVE  /\ UNCHANGED <<disk, bin, clock, tab, told, unseen>>
         /\ step' \in Step /\ step'.now = None
         /\ step'.at = "idle" \/ (step'.at = "write" /\ AutosaveEligible /\ CaughtUp)
<1>1. step' = [at |-> "write", by |-> "autosave", auto |-> FALSE, now |-> None] \/ step' = Idle
  BY DEF AutosaveResume, Idle
<1>2. (CaughtUp /\ AutosaveEligible) \/ step' = Idle
  BY DEF AutosaveResume
<1>3. step' \in Step /\ step'.now = None /\ step'.at \in {"idle", "write"}
  <2>1. CASE step' = [at |-> "write", by |-> "autosave", auto |-> FALSE, now |-> None]
    BY <2>1 DEF Step
  <2>2. CASE step' = Idle
    BY <2>2 DEF Step, Idle
  <2> QED
    BY <1>1, <2>1, <2>2
<1>4. step' = Idle => step'.at = "idle"
  BY DEF Idle
<1> QED
  BY <1>2, <1>3, <1>4 DEF AutosaveResume

LEMMA InitType == Init => TypeOK
<1> SUFFICES ASSUME Init PROVE TypeOK
  OBVIOUS
<1>1. disk \in File \cup {None}
  BY DiskTabAssumption, LenProperties DEF Init, File, Stamp
<1>2. tab \in Tab
  <2>1. CASE disk # None /\ tab = Loaded(disk.text, disk.stamp)
    BY <1>1, <2>1, LoadedType DEF File
  <2>2. CASE \E t \in Texts : tab = FromSnapshot(t)
    <3>1. PICK t \in Texts : tab = FromSnapshot(t)
      BY <2>2
    <3>2. t \in Seq(Chunk) /\ <<>> \in Seq(Chunk)
      BY DiskTabAssumption
    <3> QED
      BY <3>1, <3>2 DEF FromSnapshot, Loaded, Tab
  <2> QED
    BY <2>1, <2>2 DEF Init
<1> QED
  BY <1>1, <1>2 DEF Init, TypeOK, Idle, Step

\* Every step keeps every variable in its type.
LEMMA NextType == TypeOK /\ [Next]_vars => TypeOK'
<1> SUFFICES ASSUME TypeOK, [Next]_vars PROVE TypeOK'
  OBVIOUS
<1> USE DEF TypeOK
<1>0. StampOf(disk) \in Stamp \cup {None}
  BY DEF StampOf, File
<1>1. ASSUME NEW t \in Texts, OutsideWrite(t) PROVE TypeOK'
  BY <1>1, DiskTabAssumption, WrittenType DEF OutsideWrite
<1>2. CASE OutsideDelete
  BY <1>2 DEF OutsideDelete
<1>3. CASE OutsideRestore
  BY <1>3 DEF OutsideRestore
<1>4. ASSUME NEW t \in Texts, Edit(t) PROVE TypeOK'
  BY <1>4, DiskTabAssumption DEF Edit, Tab
<1>5. CASE UndoToSavePoint
  BY <1>5 DEF UndoToSavePoint, Tab
<1>6. CASE Save
  BY <1>6 DEF Save, Step, Idle
<1>7. ASSUME NEW by \in {"open", "user"}, LoadStat(by) PROVE TypeOK'
  BY <1>7, <1>0 DEF LoadStat, Step, Idle
<1>8. CASE Checking
  BY <1>8, CheckingEffect, StartEffect
<1>9. CASE AutosaveStart
  BY <1>9, StartEffect
<1>10. CASE CheckStat
  <2>1. CASE NeedsText(StampOf(disk))
    BY <1>0, <1>10, <2>1 DEF CheckStat, Step
  <2>2. CASE ~NeedsText(StampOf(disk))
    BY <1>10, <2>2, VerdictAtOnce, SettleType, AfterType DEF CheckStat
  <2> QED
    BY <2>1, <2>2
<1>11. CASE CheckRead
  <2>1. disk.text \in Seq(Chunk)
    BY <1>11 DEF CheckRead, File
  <2> QED
    BY <1>11, <2>1, SettleWithType, AfterType DEF CheckRead
<1>12. CASE CheckUnreadable
  BY <1>12, AfterType DEF CheckUnreadable
<1>13. CASE AutosaveResume
  BY <1>13 DEF AutosaveResume, Step, Idle
<1>14. CASE WriteFile
  <2>1. tab.text \in Seq(Chunk)
    BY DEF Tab
  <2>2. Written(tab.text) \in File
    BY <2>1, WrittenType
  <2>3. tab' \in Tab
    BY <1>14, <2>1 DEF WriteFile, Tab
  <2> QED
    BY <1>14, <2>2, <2>3 DEF WriteFile, Step
<1>15. CASE WriteFails
  BY <1>15 DEF WriteFails, Step, Idle
<1>16. CASE DocumentSaved
  BY <1>0, <1>16 DEF DocumentSaved, Step, Idle, Tab
<1>17. CASE OpenRead
  BY <1>17, LoadedType DEF OpenRead, Step, Idle, File
<1>18. CASE ReloadRead
  BY <1>18 DEF ReloadRead, Taken, Step, Idle, File, Tab
<1>19. CASE LoadFails
  BY <1>19 DEF LoadFails, Step, Idle
<1>20. CASE UNCHANGED vars
  BY <1>20 DEF vars
<1> QED
  BY <1>1, <1>2, <1>3, <1>4, <1>5, <1>6, <1>7, <1>8, <1>9, <1>10, <1>11,
     <1>12, <1>13, <1>14, <1>15, <1>16, <1>17, <1>18, <1>19, <1>20
     DEF Next, Checking, Outside, User, UiThread

\* Every variable keeps its type, wherever other programs' writes land.
THEOREM TypeCorrect == Spec => []TypeOK
BY InitType, NextType, PTL DEF Spec

-----------------------------------------------------------------------------
LEMMA InitSync == Init => SyncInv
<1> SUFFICES ASSUME Init PROVE SyncInv
  OBVIOUS
<1>1. TypeOK
  BY InitType
<1>2. StampsArePast
  <2>1. StampOf(disk) # None => StampOf(disk).modified = 0
    BY DEF Init, StampOf
  <2>2. StampOf(bin) = None /\ step.now = None
    BY DEF Init, StampOf, Idle
  <2>3. tab.known # None => tab.known.modified = 0
    <3>1. CASE disk # None /\ tab = Loaded(disk.text, disk.stamp)
      BY <3>1 DEF Init, Loaded
    <3>2. CASE \E t \in Texts : tab = FromSnapshot(t)
      BY <3>2 DEF Loaded, FromSnapshot
    <3> QED
      BY <3>1, <3>2 DEF Init
  <2> QED
    BY <2>1, <2>2, <2>3 DEF StampsArePast, Init
<1>3. RestoredIsTheFile /\ AutosaveLooked /\ BinStampMeansKnownText /\ WrittenIsThere
  BY DEF Init, RestoredIsTheFile, AutosaveLooked, BinStampMeansKnownText,
         WrittenIsThere, Idle
<1>4. CleanIsAtSavePoint /\ ConflictPauses
  <2>1. CASE disk # None /\ tab = Loaded(disk.text, disk.stamp)
    BY <2>1 DEF CleanIsAtSavePoint, ConflictPauses, Loaded
  <2>2. CASE \E t \in Texts : tab = FromSnapshot(t)
    BY <2>2 DEF CleanIsAtSavePoint, ConflictPauses, Loaded, FromSnapshot
  <2> QED
    BY <2>1, <2>2 DEF Init
<1>5. KnownStampMeansKnownText
  <2>1. CASE disk # None /\ tab = Loaded(disk.text, disk.stamp)
    BY <2>1 DEF KnownStampMeansKnownText, Loaded
  <2>2. CASE \E t \in Texts : tab = FromSnapshot(t)
    <3>1. tab.known = None
      BY <2>2 DEF FromSnapshot, Loaded
    <3>2. disk # None => disk.stamp \in Stamp
      BY <1>1 DEF TypeOK, File
    <3> QED
      BY <3>1, <3>2, DiskTabAssumption DEF KnownStampMeansKnownText
  <2> QED
    BY <2>1, <2>2 DEF Init
<1>6. StampIsReported /\ OutsideChangeIsNoticed
  <2>1. StampIsReported
    BY DEF Init, StampIsReported, Idle
  <2>2. unseen \/ (disk # None /\ tab = Loaded(disk.text, disk.stamp))
    BY DEF Init
  <2> QED
    BY <2>1, <2>2 DEF OutsideChangeIsNoticed, ShownToUser, Loaded, StampOf
<1> QED
  BY <1>1, <1>2, <1>3, <1>4, <1>5, <1>6 DEF SyncInv

\* A write made now has a stamp that neither the tab nor the UI thread knows.
LEMMA NewStampIsNew ==
  ASSUME TypeOK, StampsArePast, NEW t \in Seq(Chunk)
  PROVE  /\ tab.known # Written(t).stamp
         /\ step.now # Written(t).stamp
<1>1. Written(t).stamp.modified = clock + 1 /\ Written(t).stamp # None
  BY WrittenType, DiskTabAssumption DEF TypeOK, File
<1>2. clock \in Nat
  BY DEF TypeOK
<1> QED
  BY <1>1, <1>2 DEF StampsArePast

\* The fields a verdict leaves as they were, and those it sets.
LEMMA SettleEffect ==
  ASSUME tab \in Tab, NEW v \in {"Unchanged", "Restored", "Deleted",
                                 "ConflictDeleted", "ConflictChanged"}
  PROVE  /\ Settle(v).text = tab.text
         /\ Settle(v).save = tab.save
         /\ Settle(v).dirty = tab.dirty
         /\ Settle(v).known = tab.known
         /\ Settle(v).base = tab.base
         /\ \/ Settle(v).conflict = tab.conflict /\ Settle(v).paused = tab.paused
            \/ Settle(v).paused
BY DEF Settle, InConflict, Tab

\* A check that has read the text `t` leaves the tab with the stamp and base it
\* had, with the stamp read and `t` as its base, or with no stamp at all.
LEMMA SettleWithEffect ==
  ASSUME tab \in Tab, step \in Step, NEW t \in Seq(Chunk),
         NEW v, v = Verdict(step.now, Classify(tab.base, t)),
         ConflictPauses, CleanIsAtSavePoint
  PROVE  /\ \/ /\ SettleWith(v, t).known = tab.known
               /\ SettleWith(v, t).base = tab.base
            \/ SettleWith(v, t).known = step.now /\ SettleWith(v, t).base = t
            \/ SettleWith(v, t).known = None
         /\ ~SettleWith(v, t).dirty => SettleWith(v, t).text = SettleWith(v, t).save
         /\ SettleWith(v, t).conflict # "none" => SettleWith(v, t).paused
<1> USE DEF ConflictPauses, CleanIsAtSavePoint
<1>1. v \in {"Unchanged", "Restored", "Deleted", "ConflictDeleted",
             "ConflictChanged", "AppendMerge", "Reload"}
  BY VerdictRange
<1>2. CASE v = "Unchanged"
  <2>1. step.now = tab.known \/ step.now = None \/ t = tab.base
    BY <1>2 DEF Verdict, Classify
  <2>2. SettleWith(v, t) = [tab EXCEPT !.known = step.now]
    BY <1>2 DEF SettleWith
  <2> QED
    BY <2>1, <2>2 DEF Tab
<1>3. CASE v = "Reload"
  <2>1. SettleWith(v, t) = Taken(t, step.now)
    BY <1>3 DEF SettleWith
  <2> QED
    BY <2>1 DEF Taken, Tab
<1>4. CASE v = "AppendMerge"
  <2>1. SettleWith(v, t) = Merged(t, step.now)
    BY <1>4 DEF SettleWith
  <2> QED
    BY <2>1 DEF Merged, Tab
<1>5. CASE v \notin {"Unchanged", "Reload", "AppendMerge"}
  <2>1. SettleWith(v, t) = Settle(v)
    BY <1>5 DEF SettleWith
  <2> QED
    BY <1>1, <1>5, <2>1, SettleEffect
<1> QED
  BY <1>2, <1>3, <1>4, <1>5

\* The stamps people hold stay in the past.
LEMMA NextPast == SyncInv /\ [Next]_vars => StampsArePast'
<1> SUFFICES ASSUME SyncInv, [Next]_vars PROVE StampsArePast'
  OBVIOUS
<1>0. TypeOK /\ TypeOK' /\ StampsArePast /\ ConflictPauses /\ CleanIsAtSavePoint
  BY NextType DEF SyncInv
<1>a. clock \in Nat /\ tab \in Tab /\ step \in Step
  BY <1>0 DEF TypeOK
<1> DEFINE Past(s) == s # None => s.modified <= clock
<1>b. Past(StampOf(disk)) /\ Past(StampOf(bin)) /\ Past(tab.known) /\ Past(step.now)
  BY <1>0 DEF StampsArePast
<1>c. \A t \in Seq(Chunk) :
        Written(t).stamp.modified <= clock + 1 /\ Written(t) # None
  BY <1>a, WrittenType, DiskTabAssumption DEF File
<1>d. ASSUME clock' = clock + 1, bin' = None, NEW t \in Seq(Chunk),
             disk' = Written(t), tab'.known = tab.known, step'.now = step.now
      PROVE  StampsArePast'
  BY <1>a, <1>b, <1>c, <1>d DEF StampsArePast, StampOf, Tab, Stamp, Step
<1>e. ASSUME clock' = clock,
             StampOf(disk)' \in {StampOf(disk), StampOf(bin), None},
             StampOf(bin)' \in {StampOf(disk), StampOf(bin), None},
             tab'.known \in {tab.known, step.now, StampOf(disk), None},
             step'.now \in {step.now, StampOf(disk), None}
      PROVE  StampsArePast'
  BY <1>b, <1>e DEF StampsArePast
<1>1. ASSUME NEW t \in Texts, OutsideWrite(t) PROVE StampsArePast'
  BY <1>1, <1>d, DiskTabAssumption DEF OutsideWrite
<1>2. CASE OutsideDelete
  BY <1>2, <1>e DEF OutsideDelete, StampOf
<1>3. CASE OutsideRestore
  BY <1>3, <1>e DEF OutsideRestore, StampOf
<1>4. ASSUME NEW t \in Texts, Edit(t) PROVE StampsArePast'
  BY <1>4, <1>a, <1>e DEF Edit, StampOf, Tab
<1>5. CASE UndoToSavePoint
  BY <1>5, <1>a, <1>e DEF UndoToSavePoint, StampOf, Tab
<1>6. CASE Save \/ Checking \/ AutosaveStart \/ (\E by \in {"open", "user"} : LoadStat(by))
  <2>1. CASE Checking \/ AutosaveStart
    BY <2>1, <1>e, CheckingEffect, StartEffect DEF StampOf
  <2>2. CASE Save \/ \E by \in {"open", "user"} : LoadStat(by)
    BY <2>2, <1>e DEF Save, LoadStat, StampOf, Idle
  <2> QED
    BY <1>6, <2>1, <2>2
<1>7. CASE CheckStat
  <2>1. CASE NeedsText(StampOf(disk))
    BY <1>7, <2>1, <1>a, <1>e DEF CheckStat, StampOf, Step
  <2>2. CASE ~NeedsText(StampOf(disk))
    <3>1. tab'.known = tab.known
      BY <1>7, <2>2, <1>a, VerdictAtOnce, SettleEffect DEF CheckStat
    <3>2. step'.now \in {step.now, None}
      BY <1>7, <2>2, <1>a DEF CheckStat, After, Step, Idle
    <3> QED
      BY <1>7, <3>1, <3>2, <1>e DEF CheckStat, StampOf
  <2> QED
    BY <2>1, <2>2
<1>8. CASE CheckRead
  <2>1. disk.text \in Seq(Chunk)
    BY <1>0, <1>8 DEF CheckRead, TypeOK, File
  <2>2. tab'.known \in {tab.known, step.now, None}
    BY <1>8, <2>1, <1>a, <1>0, SettleWithEffect DEF CheckRead
  <2>3. step'.now \in {step.now, None}
    BY <1>8, <1>a DEF CheckRead, After, Step, Idle
  <2> QED
    BY <1>8, <2>2, <2>3, <1>e DEF CheckRead, StampOf
<1>9. CASE CheckUnreadable \/ AutosaveResume \/ LoadFails
  <2>1. CASE AutosaveResume
    BY <2>1, <1>e, ResumeEffect DEF StampOf
  <2>2. CASE CheckUnreadable \/ LoadFails
    BY <2>2, <1>a, <1>e DEF CheckUnreadable, LoadFails, After, Step, Idle, StampOf
  <2> QED
    BY <1>9, <2>1, <2>2
<1>10. CASE WriteFile
  <2>1. tab.text \in Seq(Chunk)
    BY <1>a DEF Tab
  <2>2. tab'.known = tab.known /\ step'.now = step.now
    BY <1>10, <1>a DEF WriteFile, Tab, Step
  <2> QED
    BY <1>10, <2>1, <2>2, <1>d DEF WriteFile
<1>11. CASE WriteFails
  BY <1>11, <1>e DEF WriteFails, StampOf, Idle
<1>12. CASE DocumentSaved
  <2>1. tab'.known = StampOf(disk)
    BY <1>12, <1>a DEF DocumentSaved, Tab
  <2> QED
    BY <1>12, <2>1, <1>e DEF DocumentSaved, StampOf, Idle
<1>13. CASE OpenRead
  BY <1>13, <1>e DEF OpenRead, Loaded, StampOf, Idle
<1>14. CASE ReloadRead
  <2>1. tab'.known = step.now
    BY <1>14, <1>a DEF ReloadRead, Taken, Tab
  <2> QED
    BY <1>14, <2>1, <1>e DEF ReloadRead, StampOf, Idle
<1>15. CASE UNCHANGED vars
  BY <1>15, <1>e DEF vars, StampOf
<1> QED
  BY <1>1, <1>2, <1>3, <1>4, <1>5, <1>6, <1>7, <1>8, <1>9, <1>10, <1>11,
     <1>12, <1>13, <1>14, <1>15 DEF Next, Checking, Outside, User, UiThread

\* Clean tabs at their save point, conflicts with autosave paused, autosave on a
\* file it has looked at: these hold wherever other programs' writes land.
LEMMA NextPlain ==
  SyncInv /\ [Next]_vars =>
    /\ RestoredIsTheFile'
    /\ CleanIsAtSavePoint'
    /\ ConflictPauses'
    /\ AutosaveLooked'
<1> DEFINE Goal == /\ RestoredIsTheFile'
                   /\ CleanIsAtSavePoint'
                   /\ ConflictPauses'
                   /\ AutosaveLooked'
<1> SUFFICES ASSUME SyncInv, [Next]_vars PROVE Goal
  OBVIOUS
<1>0. /\ TypeOK /\ RestoredIsTheFile /\ CleanIsAtSavePoint
      /\ ConflictPauses /\ AutosaveLooked
  BY DEF SyncInv
<1>a. tab \in Tab /\ step \in Step
  BY <1>0 DEF TypeOK
<1>b. ASSUME disk' = disk, bin' = bin PROVE RestoredIsTheFile'
  BY <1>0, <1>b DEF RestoredIsTheFile
<1>c. ASSUME step'.at # "write" PROVE AutosaveLooked'
  BY <1>c DEF AutosaveLooked
<1>d. ASSUME tab' = tab PROVE CleanIsAtSavePoint' /\ ConflictPauses'
  BY <1>0, <1>d DEF CleanIsAtSavePoint, ConflictPauses
<1>e. ASSUME NEW v, NEW s, s = After(v) PROVE s.at # "write" \/ step.at = "write"
  BY <1>a, <1>e DEF After, Idle, Step
<1>1. ASSUME NEW t \in Texts, OutsideWrite(t) PROVE Goal
  BY <1>0, <1>1, <1>d DEF OutsideWrite, OutsideMayWrite, RestoredIsTheFile, AutosaveLooked
<1>2. CASE OutsideDelete
  BY <1>0, <1>2, <1>d
     DEF OutsideDelete, OutsideMayWrite, RestoredIsTheFile, AutosaveLooked
<1>3. CASE OutsideRestore
  BY <1>0, <1>3, <1>d
     DEF OutsideRestore, OutsideMayWrite, RestoredIsTheFile, AutosaveLooked
<1>4. ASSUME NEW t \in Texts, Edit(t) PROVE Goal
  <2>1. CleanIsAtSavePoint' /\ ConflictPauses'
    BY <1>0, <1>4, <1>a DEF Edit, CleanIsAtSavePoint, ConflictPauses, Tab
  <2> QED
    BY <1>4, <2>1, <1>b, <1>c DEF Edit, Idle
<1>5. CASE UndoToSavePoint
  <2>1. CleanIsAtSavePoint' /\ ConflictPauses'
    BY <1>0, <1>5, <1>a
       DEF UndoToSavePoint, CleanIsAtSavePoint, ConflictPauses, Tab
  <2> QED
    BY <1>5, <2>1, <1>b, <1>c DEF UndoToSavePoint, Idle
<1>6. CASE Save \/ Checking \/ (\E by \in {"open", "user"} : LoadStat(by))
  <2>1. CASE Checking
    <3>1. ChecksTab
      BY <2>1, CheckingEffect
    <3>2. step'.at # "write"
      BY <3>1 DEF ChecksTab
    <3> QED
      BY <3>1, <3>2, <1>b, <1>c, <1>d DEF ChecksTab
  <2>2. CASE Save \/ \E by \in {"open", "user"} : LoadStat(by)
    <3>1. AutosaveLooked'
      BY <2>2 DEF Save, LoadStat, AutosaveLooked, Idle
    <3> QED
      BY <2>2, <3>1, <1>b, <1>d DEF Save, LoadStat
  <2> QED
    BY <1>6, <2>1, <2>2
<1>7. CASE AutosaveStart
  <2>1. AutosaveLooked'
    BY <1>7, <1>a
       DEF AutosaveStart, AutosaveEligible, CaughtUp, AutosaveLooked, StampOf, Step
  <2> QED
    BY <1>7, <2>1, <1>b, <1>d DEF AutosaveStart
<1>8. CASE AutosaveResume
  <2>1. AutosaveLooked'
    BY <1>8, <1>a DEF AutosaveResume, AutosaveEligible, CaughtUp,
                      AutosaveLooked, StampOf, Idle
  <2> QED
    BY <1>8, <2>1, <1>b, <1>d DEF AutosaveResume
<1>9. CASE CheckStat
  <2>1. CASE NeedsText(StampOf(disk))
    BY <1>9, <2>1, <1>a, <1>b, <1>c, <1>d DEF CheckStat, Step
  <2>2. CASE ~NeedsText(StampOf(disk))
    <3>1. CleanIsAtSavePoint' /\ ConflictPauses'
      BY <1>0, <1>9, <2>2, <1>a, VerdictAtOnce, SettleEffect
         DEF CheckStat, CleanIsAtSavePoint, ConflictPauses
    <3> QED
      BY <1>9, <2>2, <3>1, <1>b, <1>c, <1>e DEF CheckStat
  <2> QED
    BY <2>1, <2>2
<1>10. CASE CheckRead
  <2>1. disk.text \in Seq(Chunk)
    BY <1>0, <1>10 DEF CheckRead, TypeOK, File
  <2>2. CleanIsAtSavePoint' /\ ConflictPauses'
    BY <1>0, <1>10, <2>1, <1>a, SettleWithEffect
       DEF CheckRead, CleanIsAtSavePoint, ConflictPauses
  <2> QED
    BY <1>10, <2>2, <1>b, <1>c, <1>e DEF CheckRead
<1>11. CASE CheckUnreadable \/ LoadFails
  BY <1>11, <1>b, <1>c, <1>d, <1>e DEF CheckUnreadable, LoadFails, Idle
<1>12. CASE WriteFile
  BY <1>0, <1>12, <1>a, <1>c
     DEF WriteFile, RestoredIsTheFile, CleanIsAtSavePoint, ConflictPauses, Tab, Step
<1>13. CASE WriteFails
  BY <1>0, <1>13, <1>c, <1>d DEF WriteFails, RestoredIsTheFile, Idle
<1>14. CASE DocumentSaved
  <2>1. CleanIsAtSavePoint' /\ ConflictPauses'
    BY <1>0, <1>14, <1>a DEF DocumentSaved, CleanIsAtSavePoint, ConflictPauses, Tab
  <2> QED
    BY <1>14, <2>1, <1>b, <1>c DEF DocumentSaved, Idle
<1>15. CASE OpenRead
  BY <1>15, <1>b, <1>c DEF OpenRead, Loaded, CleanIsAtSavePoint, ConflictPauses, Idle
<1>16. CASE ReloadRead
  <2>1. CleanIsAtSavePoint' /\ ConflictPauses'
    BY <1>16, <1>a DEF ReloadRead, Taken, CleanIsAtSavePoint, ConflictPauses, Tab
  <2> QED
    BY <1>16, <2>1, <1>b, <1>c DEF ReloadRead, Idle
<1>17. CASE UNCHANGED vars
  BY <1>0, <1>17 DEF vars, RestoredIsTheFile, CleanIsAtSavePoint, ConflictPauses,
                     AutosaveLooked
<1> QED
  BY <1>1, <1>2, <1>3, <1>4, <1>5, <1>6, <1>7, <1>8, <1>9, <1>10, <1>11,
     <1>12, <1>13, <1>14, <1>15, <1>16, <1>17 DEF Next, Checking, Outside, User, UiThread

\* Without a foreign write between FastPad's write and its stat, a known stamp
\* goes on meaning a known text.
LEMMA NextKnown ==
  ASSUME "stamp" \notin Gaps
  PROVE  SyncInv /\ [Next]_vars =>
           /\ KnownStampMeansKnownText'
           /\ BinStampMeansKnownText'
           /\ WrittenIsThere'
<1> DEFINE Goal == /\ KnownStampMeansKnownText'
                   /\ BinStampMeansKnownText'
                   /\ WrittenIsThere'
<1> SUFFICES ASSUME SyncInv, [Next]_vars PROVE Goal
  OBVIOUS
<1>0. /\ TypeOK /\ StampsArePast /\ RestoredIsTheFile /\ ConflictPauses
      /\ CleanIsAtSavePoint /\ KnownStampMeansKnownText
      /\ BinStampMeansKnownText /\ WrittenIsThere
  BY DEF SyncInv
<1>a. /\ tab \in Tab /\ step \in Step
      /\ disk # None => disk.stamp \in Stamp
      /\ bin # None => bin.stamp \in Stamp
  BY <1>0 DEF TypeOK, File
<1>b. None \notin Stamp
  BY DiskTabAssumption
<1> DEFINE Kept == KnownStampMeansKnownText' /\ BinStampMeansKnownText'
<1>c. ASSUME step'.at # "stamp" PROVE WrittenIsThere'
  BY <1>c DEF WrittenIsThere
\* The file stays, and the tab keeps its stamp and base, takes the file's text
\* as its base, or forgets its stamp.
<1>d. ASSUME disk' = disk, bin' = bin,
             \/ tab'.known = tab.known /\ tab'.base = tab.base
             \/ disk # None /\ tab'.base = disk.text
             \/ tab'.known = None
      PROVE  Kept
  BY <1>0, <1>a, <1>b, <1>d
     DEF KnownStampMeansKnownText, BinStampMeansKnownText, RestoredIsTheFile
\* A new file.
<1>e. ASSUME NEW t \in Seq(Chunk), disk' = Written(t), bin' = None,
             tab'.known = tab.known
      PROVE  Kept
  BY <1>0, <1>e, NewStampIsNew DEF KnownStampMeansKnownText, BinStampMeansKnownText
<1>f. ASSUME NEW v, NEW s, s = After(v) PROVE s.at # "stamp" \/ step.at = "stamp"
  BY <1>a, <1>f DEF After, Idle, Step
<1>1. ASSUME NEW t \in Texts, OutsideWrite(t) PROVE Goal
  <2>1. step.at # "stamp"
    BY <1>1 DEF OutsideWrite, OutsideMayWrite
  <2> QED
    BY <1>1, <2>1, <1>c, <1>e, DiskTabAssumption DEF OutsideWrite
<1>2. CASE OutsideDelete
  BY <1>0, <1>2
     DEF OutsideDelete, OutsideMayWrite, KnownStampMeansKnownText,
         BinStampMeansKnownText, WrittenIsThere
<1>3. CASE OutsideRestore
  BY <1>0, <1>3
     DEF OutsideRestore, OutsideMayWrite, KnownStampMeansKnownText,
         BinStampMeansKnownText, WrittenIsThere
<1>4. ASSUME NEW t \in Texts, Edit(t) PROVE Goal
  BY <1>4, <1>a, <1>c, <1>d DEF Edit, Tab, Idle
<1>5. CASE UndoToSavePoint
  BY <1>5, <1>a, <1>c, <1>d DEF UndoToSavePoint, Tab, Idle
<1>6. CASE \/ Save \/ Checking \/ AutosaveStart
           \/ \E by \in {"open", "user"} : LoadStat(by)
  <2>1. CASE Checking \/ AutosaveStart
    BY <2>1, <1>c, <1>d, CheckingEffect, StartEffect
  <2>2. CASE Save \/ \E by \in {"open", "user"} : LoadStat(by)
    BY <2>2, <1>c, <1>d DEF Save, LoadStat, Idle
  <2> QED
    BY <1>6, <2>1, <2>2
<1>7. CASE CheckStat
  <2>1. CASE NeedsText(StampOf(disk))
    BY <1>7, <2>1, <1>a, <1>c, <1>d DEF CheckStat, Step
  <2>2. CASE ~NeedsText(StampOf(disk))
    <3>1. tab'.known = tab.known /\ tab'.base = tab.base
      BY <1>7, <2>2, <1>a, VerdictAtOnce, SettleEffect DEF CheckStat
    <3> QED
      BY <1>7, <2>2, <3>1, <1>c, <1>d, <1>f DEF CheckStat
  <2> QED
    BY <2>1, <2>2
<1>8. CASE CheckRead
  <2>1. disk.text \in Seq(Chunk)
    BY <1>0, <1>8 DEF CheckRead, TypeOK, File
  <2>2. \/ tab'.known = tab.known /\ tab'.base = tab.base
        \/ tab'.base = disk.text
        \/ tab'.known = None
    BY <1>8, <2>1, <1>a, <1>0, SettleWithEffect DEF CheckRead
  <2> QED
    BY <1>8, <2>2, <1>c, <1>d, <1>f DEF CheckRead
<1>9. CASE CheckUnreadable \/ AutosaveResume \/ LoadFails
  <2>1. CASE AutosaveResume
    BY <2>1, <1>c, <1>d, ResumeEffect
  <2>2. CASE CheckUnreadable \/ LoadFails
    BY <2>2, <1>c, <1>d, <1>f DEF CheckUnreadable, LoadFails, Idle
  <2> QED
    BY <1>9, <2>1, <2>2
<1>10. CASE WriteFile
  <2>1. tab.text \in Seq(Chunk)
    BY <1>a DEF Tab
  <2>2. tab'.known = tab.known /\ tab'.text = tab.text
    BY <1>10, <1>a DEF WriteFile, Tab
  <2>3. WrittenIsThere'
    BY <1>10, <2>1, <2>2, <1>0, WrittenType, DiskTabAssumption
       DEF WriteFile, WrittenIsThere, TypeOK, File
  <2> QED
    BY <1>10, <2>1, <2>2, <2>3, <1>e DEF WriteFile
<1>11. CASE WriteFails
  BY <1>0, <1>11, <1>c
     DEF WriteFails, Idle, KnownStampMeansKnownText, BinStampMeansKnownText
<1>12. CASE DocumentSaved
  <2>1. disk # None /\ tab'.base = disk.text
    BY <1>0, <1>12, <1>a DEF DocumentSaved, WrittenIsThere, Tab
  <2> QED
    BY <1>12, <2>1, <1>c, <1>d DEF DocumentSaved, Idle
<1>13. CASE OpenRead
  BY <1>13, <1>c, <1>d DEF OpenRead, Loaded, Idle
<1>14. CASE ReloadRead
  <2>1. tab'.base = disk.text
    BY <1>14, <1>a DEF ReloadRead, Taken, Tab
  <2> QED
    BY <1>14, <2>1, <1>c, <1>d DEF ReloadRead, Idle
<1>15. CASE UNCHANGED vars
  BY <1>0, <1>15, <1>d DEF vars, WrittenIsThere
<1> QED
  BY <1>1, <1>2, <1>3, <1>4, <1>5, <1>6, <1>7, <1>8, <1>9, <1>10, <1>11,
     <1>12, <1>13, <1>14, <1>15 DEF Next, Checking, Outside, User, UiThread

\* What a verdict without the text leaves is shown.
LEMMA SettleShows ==
  ASSUME TypeOK, CheckStat, ~NeedsText(StampOf(disk))
  PROVE  ShownToUser'
<1> DEFINE v == Verdict(StampOf(disk), "Other")
<1>1. tab \in Tab /\ tab' = Settle(v) /\ disk' = disk
  BY DEF CheckStat, TypeOK
<1>2. v \in {"Unchanged", "Restored", "Deleted", "ConflictDeleted", "ConflictChanged"}
  BY VerdictAtOnce
<1>3. StampOf(disk) = None => disk = None
  BY DiskTabAssumption DEF TypeOK, File, StampOf
<1>4. CASE v \in {"Unchanged", "Restored"}
  <2>1. StampOf(disk) = tab.known \/ (StampOf(disk) = None /\ tab.deleted)
    BY <1>4 DEF Verdict
  <2>2. tab'.known = tab.known /\ (v = "Unchanged" => tab' = tab)
    BY <1>1, <1>2, SettleEffect DEF Settle
  <2>3. v = "Restored" => StampOf(disk) = tab.known
    BY DEF Verdict
  <2> QED
    BY <1>1, <1>3, <1>4, <2>1, <2>2, <2>3 DEF ShownToUser, StampOf
<1>5. CASE v = "Deleted"
  <2>1. StampOf(disk) = None
    BY <1>5 DEF Verdict
  <2>2. tab'.deleted
    BY <1>1, <1>5 DEF Settle, Tab
  <2> QED
    BY <1>1, <1>3, <2>1, <2>2 DEF ShownToUser
<1>6. CASE v \in {"ConflictDeleted", "ConflictChanged"}
  <2>1. tab'.conflict # "none"
    BY <1>1, <1>6 DEF Settle, InConflict, Tab
  <2> QED
    BY <2>1 DEF ShownToUser
<1> QED
  BY <1>2, <1>4, <1>5, <1>6

\* What a verdict on the file's text leaves is shown, if the stamp it goes with
\* is still the file's.
LEMMA SettleWithShows ==
  ASSUME TypeOK, CheckRead, step.now = StampOf(disk)
  PROVE  ShownToUser'
<1> DEFINE v == Verdict(step.now, Classify(tab.base, disk.text))
<1>1. tab \in Tab /\ disk # None /\ disk' = disk /\ tab' = SettleWith(v, disk.text)
  BY DEF CheckRead, TypeOK
<1>2. step.now # None /\ StampOf(disk)' = step.now
  BY <1>1, DiskTabAssumption DEF TypeOK, File, StampOf
<1>3. v \in {"Unchanged", "Restored", "ConflictChanged", "AppendMerge", "Reload"}
  BY <1>2 DEF Verdict
<1>4. CASE v \in {"Unchanged", "AppendMerge", "Reload"}
  <2>1. tab'.known = step.now
    BY <1>1, <1>4 DEF SettleWith, Merged, Taken, Tab
  <2> QED
    BY <1>2, <2>1 DEF ShownToUser
<1>5. CASE v = "Restored"
  <2>1. step.now = tab.known \/ Classify(tab.base, disk.text) = "Same"
    BY <1>2, <1>5 DEF Verdict
  <2>2. step.now = tab.known \/ disk.text = tab.base
    BY <2>1 DEF Classify
  <2>3. tab'.known = tab.known /\ tab'.base = tab.base
    BY <1>1, <1>5 DEF SettleWith, Settle, Tab
  <2> QED
    BY <1>1, <1>2, <2>2, <2>3 DEF ShownToUser
<1>6. CASE v = "ConflictChanged"
  <2>1. tab'.conflict # "none"
    BY <1>1, <1>6 DEF SettleWith, Settle, InConflict, Tab
  <2> QED
    BY <2>1 DEF ShownToUser
<1> QED
  BY <1>3, <1>4, <1>5, <1>6

\* Every write is reported, and what handles a report ends with a tab that shows
\* the file, or with a file it could not read.
LEMMA NextNoticed ==
  SyncInv /\ [Next]_vars => StampIsReported' /\ OutsideChangeIsNoticed'
<1> DEFINE Goal == StampIsReported' /\ OutsideChangeIsNoticed'
<1> SUFFICES ASSUME SyncInv, [Next]_vars PROVE Goal
  OBVIOUS
<1>0. TypeOK /\ StampIsReported /\ OutsideChangeIsNoticed
  BY DEF SyncInv
<1>a. tab \in Tab /\ step \in Step
  BY <1>0 DEF TypeOK
<1>b. ASSUME told' PROVE Goal
  BY <1>b DEF StampIsReported, OutsideChangeIsNoticed
<1>c. ASSUME step'.at \notin {"read", "load"} PROVE StampIsReported'
  BY <1>c DEF StampIsReported
\* Outside a check, a step that changes neither the file nor what the tab shows
\* of it.
<1>d. ASSUME disk' = disk, told' = told, unseen' = unseen, step.at \notin {"stat", "read"},
             tab'.known = tab.known, tab'.base = tab.base, tab'.conflict = tab.conflict, tab'.deleted = tab.deleted
      PROVE  OutsideChangeIsNoticed'
  BY <1>0, <1>d DEF OutsideChangeIsNoticed, ShownToUser, StampOf
<1>1. CASE Outside \/ WriteFile
  BY <1>1, <1>b DEF Outside, OutsideWrite, OutsideDelete, OutsideRestore, WriteFile
<1>2. CASE (\E t \in Texts : Edit(t)) \/ UndoToSavePoint
  <2>1. /\ disk' = disk /\ told' = told /\ unseen' = unseen /\ step = Idle /\ step' = step
        /\ tab'.known = tab.known /\ tab'.base = tab.base /\ tab'.conflict = tab.conflict /\ tab'.deleted = tab.deleted
    BY <1>2, <1>a DEF Edit, UndoToSavePoint, Tab
  <2> QED
    BY <2>1, <1>c, <1>d DEF Idle
<1>3. CASE Save
  BY <1>3, <1>c, <1>d DEF Save, Idle
<1>4. ASSUME NEW by \in {"open", "user"}, LoadStat(by) PROVE Goal
  <2>1. StampIsReported'
    BY <1>4 DEF LoadStat, StampIsReported, StampOf, Idle
  <2> QED
    BY <1>4, <2>1, <1>d DEF LoadStat, Idle
<1>5. CASE Checking
  <2>1. step'.at = "stat"
    BY <1>5, CheckingEffect DEF ChecksTab
  <2> QED
    BY <2>1, <1>c DEF OutsideChangeIsNoticed
<1>6. CASE AutosaveStart
  <2>1. step = Idle
    BY <1>6 DEF AutosaveStart
  <2> QED
    BY <1>6, <2>1, <1>c, <1>d, StartEffect DEF Idle
<1>7. CASE CheckStat
  <2>1. CASE NeedsText(StampOf(disk))
    <3>1. step'.at = "read" /\ step'.now = StampOf(disk) /\ disk' = disk
      BY <1>7, <1>a, <2>1 DEF CheckStat, Step
    <3> QED
      BY <3>1 DEF StampIsReported, OutsideChangeIsNoticed, StampOf
  <2>2. CASE ~NeedsText(StampOf(disk))
    <3>1. step'.at \notin {"read", "load"}
      BY <1>7, <1>a, <2>2 DEF CheckStat, After, Idle, Step
    <3>2. ShownToUser'
      BY <1>0, <1>7, <2>2, SettleShows
    <3> QED
      BY <3>1, <3>2, <1>c DEF OutsideChangeIsNoticed
  <2> QED
    BY <2>1, <2>2
<1>8. CASE CheckRead
  <2>1. step'.at \notin {"read", "load"}
    BY <1>8, <1>a DEF CheckRead, After, Idle, Step
  <2>2. CASE told
    BY <1>8, <2>2, <1>b DEF CheckRead
  <2>3. CASE ~told
    <3>1. step.now = StampOf(disk)
      BY <1>0, <1>8, <2>3 DEF CheckRead, StampIsReported
    <3>2. ShownToUser'
      BY <1>0, <1>8, <3>1, SettleWithShows
    <3> QED
      BY <2>1, <3>2, <1>c DEF OutsideChangeIsNoticed
  <2> QED
    BY <2>2, <2>3
<1>9. CASE CheckUnreadable
  <2>1. step'.at \notin {"read", "load"}
    BY <1>9, <1>a DEF CheckUnreadable, After, Idle, Step
  <2> QED
    BY <1>9, <2>1, <1>c DEF CheckUnreadable, OutsideChangeIsNoticed
<1>10. CASE AutosaveResume
  <2>1. step.at = "resume"
    BY <1>10 DEF AutosaveResume
  <2> QED
    BY <1>10, <2>1, <1>c, <1>d, ResumeEffect
<1>11. CASE WriteFails
  <2>1. CASE disk' = disk
    <3>1. told' <=> told
      BY <1>11, <2>1 DEF WriteFails
    <3>2. tab' = tab /\ unseen' = unseen /\ step.at = "write" /\ step'.at = "idle"
      BY <1>11 DEF WriteFails, Idle
    <3> QED
      BY <1>0, <2>1, <3>1, <3>2, <1>c DEF OutsideChangeIsNoticed, ShownToUser, StampOf
  <2>2. CASE disk' # disk
    BY <1>11, <2>2, <1>b DEF WriteFails
  <2> QED
    BY <2>1, <2>2
<1>12. CASE DocumentSaved
  <2>1. tab'.known = StampOf(disk) /\ disk' = disk /\ step'.at = "idle"
    BY <1>12, <1>a DEF DocumentSaved, Tab, Idle
  <2> QED
    BY <2>1, <1>c DEF OutsideChangeIsNoticed, ShownToUser, StampOf
<1>13. CASE OpenRead \/ ReloadRead
  <2>1. tab'.known = step.now
    <3>1. CASE OpenRead
      BY <3>1 DEF OpenRead, Loaded
    <3>2. CASE ReloadRead
      BY <3>2, <1>a DEF ReloadRead, Taken, Tab
    <3> QED
      BY <1>13, <3>1, <3>2
  <2>2. disk' = disk /\ step'.at = "idle" /\ told' = told /\ step.at = "load"
    BY <1>13 DEF OpenRead, ReloadRead, Idle
  <2> QED
    BY <1>0, <2>1, <2>2, <1>b, <1>c DEF StampIsReported, OutsideChangeIsNoticed, ShownToUser, StampOf
<1>14. CASE LoadFails
  <2>1. step.at = "load" /\ step'.at = "idle" /\ UNCHANGED <<disk, tab, told, unseen>>
    BY <1>14 DEF LoadFails, Idle
  <2> QED
    BY <2>1, <1>c, <1>d
<1>15. CASE UNCHANGED vars
  BY <1>0, <1>15 DEF vars, StampIsReported, OutsideChangeIsNoticed, ShownToUser, StampOf
<1> QED
  BY <1>1, <1>2, <1>3, <1>4, <1>5, <1>6, <1>7, <1>8, <1>9, <1>10, <1>11,
     <1>12, <1>13, <1>14, <1>15 DEF Next, Checking, Outside, User, UiThread

-----------------------------------------------------------------------------
\* The inductive invariant of the tab and its file.
THEOREM SyncInvariant == Spec => []SyncInv
<1>1. Init => SyncInv
  BY InitSync
<1>2. SyncInv /\ [Next]_vars => SyncInv'
  <2> SUFFICES ASSUME SyncInv, [Next]_vars PROVE SyncInv'
    OBVIOUS
  <2>1. TypeOK' /\ StampsArePast'
    BY NextType, NextPast DEF SyncInv
  <2> QED
    BY <2>1, NextPlain, NextKnown, NextNoticed DEF SyncInv
<1> QED
  BY <1>1, <1>2, PTL DEF Spec

\* When no other program writes between FastPad's write and the stat after it, a
\* tab whose stamp is the file's has the file's text as its base, always.
THEOREM KnownText ==
  ASSUME "stamp" \notin Gaps
  PROVE  Spec => []KnownStampMeansKnownText
<1>1. SyncInv => KnownStampMeansKnownText
  BY DEF SyncInv
<1> QED
  BY <1>1, SyncInvariant, PTL

\* Under the same condition a clean tab that knows the file shows it, unless an
\* append was merged behind its save point.
THEOREM CleanTab ==
  ASSUME "stamp" \notin Gaps
  PROVE  Spec => []CleanTabShowsFile
<1>1. SyncInv => CleanTabShowsFile
  BY DEF SyncInv, CleanTabShowsFile, CleanIsAtSavePoint, KnownStampMeansKnownText
<1> QED
  BY <1>1, SyncInvariant, PTL

\* files_changed and check_tab: wherever other programs' writes land, a change of
\* the file is shown in the tab, or its report is on its way or being handled, or
\* the file could not be read the last time it was looked at.
THEOREM ChangesAreNoticed == Spec => []OutsideChangeIsNoticed
<1>1. SyncInv => OutsideChangeIsNoticed
  BY DEF SyncInv
<1> QED
  BY <1>1, SyncInvariant, PTL

\* When no other program writes inside FastPad's save, autosave never overwrites
\* a text the tab has not taken in, and never re-creates a deleted file.
THEOREM AutosaveIsSafe ==
  ASSUME Gaps = {}
  PROVE  Spec => AutosaveOverwritesOnlyKnownText
<1>1. SyncInv /\ [Next]_vars =>
        [AutosaveWrites => disk # None /\ disk.text = tab.base]_vars
  BY DEF SyncInv, AutosaveLooked, AutosaveWrites, KnownStampMeansKnownText
<1> QED
  BY <1>1, SyncInvariant, PTL DEF Spec, AutosaveOverwritesOnlyKnownText

\* Wherever other writes land, autosave never writes a tab that is in conflict.
THEOREM ConflictsAreKept == Spec => AutosaveLeavesConflicts
<1>1. SyncInv /\ [Next]_vars => [AutosaveWrites => tab.conflict = "none"]_vars
  BY DEF SyncInv, AutosaveLooked, AutosaveWrites, ConflictPauses
<1> QED
  BY <1>1, SyncInvariant, PTL DEF Spec, AutosaveLeavesConflicts

\* A text is the beginning of itself, and of itself with more behind it.
LEMMA TextIsItsBeginning ==
  ASSUME NEW s \in Seq(Chunk), NEW u \in Seq(Chunk)
  PROVE  /\ Len(s \o u) >= Len(s) /\ SubSeq(s \o u, 1, Len(s)) = s
         /\ Len(s) >= Len(s) /\ SubSeq(s, 1, Len(s)) = s
<1>1. Len(s) \in Nat /\ Len(u) \in Nat /\ Len(s \o u) = Len(s) + Len(u)
  BY LenProperties, ConcatProperties
<1>2. SubSeq(s, 1, Len(s)) = s
  BY SubSeqFull
<1>3. s \o u \in Seq(Chunk) /\ \A i \in 1 .. Len(s) : (s \o u)[i] = s[i]
  BY <1>1, ConcatProperties
<1>4. SubSeq(s \o u, 1, Len(s)) = s
  <2>1. /\ SubSeq(s \o u, 1, Len(s)) \in Seq(Chunk)
        /\ Len(SubSeq(s \o u, 1, Len(s))) = Len(s)
        /\ \A i \in 1 .. Len(s) : SubSeq(s \o u, 1, Len(s))[i] = (s \o u)[i]
    BY <1>1, <1>3, SubSeqProperties
  <2> QED
    BY <1>3, <2>1, SeqEqual
<1> QED
  BY <1>1, <1>2, <1>4

Extends(new, old) ==
  /\ new.dirty
  /\ Len(new.text) >= Len(old.text)
  /\ SubSeq(new.text, 1, Len(old.text)) = old.text

\* No check drops unsaved text, whatever the file holds.
THEOREM UnsavedTextIsKept == Spec => UnsavedTextSurvivesChecks
<1> DEFINE Checks == tab.dirty /\ step.at \in {"stat", "read", "resume"}
<1>1. ASSUME TypeOK, [Next]_vars, Checks PROVE Extends(tab', tab)
  <2>0. tab \in Tab /\ step \in Step /\ tab.text \in Seq(Chunk)
    BY <1>1 DEF TypeOK, Tab
  <2>a. ASSUME tab'.text = tab.text, tab'.dirty = tab.dirty PROVE Extends(tab', tab)
    BY <1>1, <2>0, <2>a, TextIsItsBeginning DEF Extends
  <2>1. CASE CheckStat
    <3>1. CASE NeedsText(StampOf(disk))
      BY <2>1, <2>a, <3>1 DEF CheckStat
    <3>2. CASE ~NeedsText(StampOf(disk))
      BY <2>0, <2>1, <2>a, <3>2, VerdictAtOnce, SettleEffect DEF CheckStat
    <3> QED
      BY <3>1, <3>2
  <2>2. CASE CheckRead
    <3> DEFINE v == Verdict(step.now, Classify(tab.base, disk.text))
    <3>0. disk.text \in Seq(Chunk) /\ tab' = SettleWith(v, disk.text)
      BY <1>1, <2>2 DEF CheckRead, TypeOK, File
    <3>1. v # "Reload"
      BY <1>1 DEF Verdict, MayReload, Unsure
    <3>2. CASE v = "Unchanged"
      BY <2>0, <2>a, <3>0, <3>2 DEF SettleWith, Tab
    <3>3. CASE v = "AppendMerge"
      <4>1. tab.base \in Seq(Chunk) /\ Len(disk.text) > Len(tab.base)
        BY <2>0, <3>3, VerdictMerge, AppendedHasBase DEF Tab
      <4>2. SubSeq(disk.text, Len(tab.base) + 1, Len(disk.text)) \in Seq(Chunk)
        BY <3>0, <4>1, SuffixType
      <4>3. /\ tab'.text = tab.text \o SubSeq(disk.text, Len(tab.base) + 1, Len(disk.text))
            /\ tab'.dirty
        BY <2>0, <3>0, <3>3 DEF SettleWith, Merged, Tab
      <4>4. tab.text \in Seq(Chunk)
        BY <2>0 DEF Tab
      <4>5. Len(tab'.text) >= Len(tab.text) /\ SubSeq(tab'.text, 1, Len(tab.text)) = tab.text
        <5>1. PICK u \in Seq(Chunk) : tab'.text = tab.text \o u
          BY <4>2, <4>3
        <5> QED
          BY <4>4, <5>1, TextIsItsBeginning
      <4> QED
        BY <4>3, <4>5 DEF Extends
    <3>4. CASE v \notin {"Unchanged", "AppendMerge"}
      <4>1. v \in {"Restored", "Deleted", "ConflictDeleted", "ConflictChanged"}
        BY <3>1, <3>4, VerdictRange
      <4>2. tab' = Settle(v)
        BY <3>0, <4>1 DEF SettleWith
      <4> QED
        BY <2>0, <2>a, <4>1, <4>2, SettleEffect
    <3> QED
      BY <3>2, <3>3, <3>4
  <2>3. CASE tab' = tab
    BY <2>3, <2>a
  <2>4. CASE Outside \/ CheckUnreadable \/ AutosaveResume
    BY <2>3, <2>4 DEF Outside, OutsideWrite, OutsideDelete, OutsideRestore,
                      CheckUnreadable, AutosaveResume
  <2>5. CASE User \/ Checking \/ AutosaveStart
    <3>1. step = Idle
      BY <2>5, CheckingEffect DEF User, Edit, UndoToSavePoint, Save, LoadStat, ChecksTab, AutosaveStart
    <3> QED
      BY <1>1, <3>1 DEF Idle
  <2>6. CASE WriteFile \/ WriteFails \/ DocumentSaved \/ OpenRead \/ ReloadRead \/ LoadFails
    BY <1>1, <2>6 DEF WriteFile, WriteFails, DocumentSaved, OpenRead, ReloadRead, LoadFails
  <2>7. CASE UNCHANGED vars
    BY <2>3, <2>7 DEF vars
  <2> QED
    BY <1>1, <2>1, <2>2, <2>4, <2>5, <2>6, <2>7 DEF Next, Checking, UiThread
<1>2. TypeOK /\ [Next]_vars =>
        [Checks => /\ tab'.dirty
                   /\ Len(tab'.text) >= Len(tab.text)
                   /\ SubSeq(tab'.text, 1, Len(tab.text)) = tab.text]_vars
  BY <1>1 DEF Extends
<1> QED
  BY <1>2, TypeCorrect, PTL DEF Spec, UnsavedTextSurvivesChecks

-----------------------------------------------------------------------------
(* What holds of the window between the steps of every command. A moved    *)
(* tab is for a moment in no strip, and an editor shows its new tab last,  *)
(* so `aside` names the document, and `stale` the groups, still to come.   *)

WellTyped(s) ==
  /\ Groups(s) \subseteq Ids
  /\ s \in Window(Groups(s))
  /\ \A g \in Groups(s) : s.strip[g].sel \in DOMAIN s.strip[g].tabs \/ s.strip[g] = NoTabs

Viewed(s, d) == \E g \in Groups(s) : InGroup(s, g, d)

Stored(s, aside) ==
  \A d \in Docs :
    /\ Viewed(s, d) \/ d = aside => s.docs[d].open
    /\ s.docs[d].open => Viewed(s, d) \/ d = aside
    /\ s.docs[d].open \/ s.docs[d] = NoDoc

Ordered(s) ==
  /\ IsInjective(s.recent)
  /\ \A g \in Ids, d \in Docs : <<g, d>> \in Range(s.recent) <=> g \in Groups(s) /\ InGroup(s, g, d)

IsPreview(s, g, d) == InGroup(s, g, d) /\ s.docs[d].preview

OnePreview(s) ==
  \A g \in Groups(s), d \in Docs :
    IsPreview(s, g, d) =>
      /\ ~s.docs[d].dirty
      /\ \A h \in Groups(s) : InGroup(s, h, d) => h = g
      /\ \A e \in Docs : IsPreview(s, g, e) => e = d

Sound(s, aside) ==
  /\ WellTyped(s)
  /\ \A g \in Groups(s) : IsInjective(s.strip[g].tabs) /\ g <= s.made
  /\ Stored(s, aside)
  /\ Ordered(s)
  /\ OnePreview(s)
  /\ Range(LeavesOf(s.tree)) = Groups(s)

Fresh(s, stale) == \A g \in Groups(s) \ stale : s.shown[g] = Holds(s, Selected(s, g))

\* What a question, a deletion or an exit relies on while it is under way.
AskHolds ==
  /\ ask \in Ask
  /\ ask.kind \in {"close", "exit", "delete"} => ask.doc # Nil
  /\ Asking => win.docs[ask.doc].open /\ (ask.changed => ~win.docs[ask.doc].dirty)
  /\ ask.kind = "close" => InGroup(win, win.active, ask.doc)
  /\ ask.kind = "autosave" =>
       /\ ask.doc # Nil => win.docs[ask.doc].open
       /\ \A d \in ask.left : win.docs[d].open
  /\ ask.kind \in {"none", "close"} /\ ask.group \in Groups(win) /\ Selected(win, ask.group) # Nil =>
       win.active = ask.group
  /\ ask.kind = "gone" => \A d \in Docs : win.docs[d].dirty => d \in ask.reviewed

WindowInv ==
  /\ Sound(win, Nil)
  /\ Fresh(win, {})
  /\ AskHolds
  /\ room \in Rooms
  /\ win.made <= room.groups

-----------------------------------------------------------------------------
(* Strips and the order of use as sequences.                               *)

\* IndexOf finds a place that has the element.
LEMMA IndexFound ==
  ASSUME NEW S, NEW q \in Seq(S), NEW e \in Range(q)
  PROVE  IndexOf(e, q) \in 1..Len(q) /\ q[IndexOf(e, q)] = e
<1>1. PICK i \in DOMAIN q : q[i] = e
  BY DEF Range
<1>2. IndexOf(e, q) \in DOMAIN q /\ q[IndexOf(e, q)] = e
  BY <1>1 DEF IndexOf
<1> QED
  BY <1>2

\* What is taken out at a place: the elements before it stay where they are, those
\* after it move up.
LEMMA RemoveAtPlaces ==
  ASSUME NEW S, NEW q \in Seq(S), NEW p \in 1..Len(q)
  PROVE  /\ RemoveAt(q, p) \in Seq(S)
         /\ Len(RemoveAt(q, p)) = Len(q) - 1
         /\ \A i \in 1..Len(q) - 1 : RemoveAt(q, p)[i] = IF i < p THEN q[i] ELSE q[i + 1]
<1> DEFINE front == SubSeq(q, 1, p - 1)
           back == SubSeq(q, p + 1, Len(q))
<1>1. front \in Seq(S) /\ Len(front) = p - 1 /\ \A i \in 1..p - 1 : front[i] = q[i]
  OBVIOUS
<1>2. back \in Seq(S) /\ Len(back) = Len(q) - p /\ \A i \in 1..Len(q) - p : back[i] = q[p + i]
  OBVIOUS
<1>3. RemoveAt(q, p) = front \o back
  BY DEF RemoveAt
<1> HIDE DEF front, back
<1>4. Len(q) \in Nat
  OBVIOUS
<1>5. front \o back \in Seq(S) /\ Len(front \o back) = Len(q) - 1
  <2>1. front \o back \in Seq(S) /\ Len(front \o back) = Len(front) + Len(back)
    BY <1>1, <1>2, ConcatProperties
  <2> QED
    BY <2>1, <1>1, <1>2, <1>4
<1>6. ASSUME NEW i \in 1..Len(q) - 1 PROVE (front \o back)[i] = IF i < p THEN q[i] ELSE q[i + 1]
  <2>1. (front \o back)[i] = IF i <= Len(front) THEN front[i] ELSE back[i - Len(front)]
    BY <1>1, <1>2, <1>4, ConcatProperties
  <2>2. CASE i < p
    BY <2>1, <2>2, <1>1, <1>4
  <2>3. CASE ~(i < p)
    <3>1. i - (p - 1) \in 1..Len(q) - p /\ p + (i - (p - 1)) = i + 1
      BY <2>3, <1>4
    <3>2. back[i - (p - 1)] = q[i + 1]
      BY <3>1, <1>2
    <3> QED
      BY <2>1, <2>3, <3>2, <1>1, <1>4
  <2> QED
    BY <2>2, <2>3
<1> QED
  BY <1>3, <1>5, <1>6

\* Taking the element at a place out of a strip without repetitions leaves the others.
LEMMA RemoveAtRest ==
  ASSUME NEW S, NEW q \in Seq(S), IsInjective(q), NEW p \in 1..Len(q)
  PROVE  /\ RemoveAt(q, p) \in Seq(S)
         /\ Len(RemoveAt(q, p)) = Len(q) - 1
         /\ IsInjective(RemoveAt(q, p))
         /\ Range(RemoveAt(q, p)) = Range(q) \ {q[p]}
<1> DEFINE r == RemoveAt(q, p)
<1>1. /\ r \in Seq(S) /\ Len(r) = Len(q) - 1
      /\ \A i \in 1..Len(q) - 1 : r[i] = IF i < p THEN q[i] ELSE q[i + 1]
  BY RemoveAtPlaces
<1> HIDE DEF r
<1>2. Len(q) \in Nat /\ DOMAIN q = 1..Len(q) /\ DOMAIN r = 1..Len(q) - 1
  BY <1>1
<1>3. \A i, j \in 1..Len(q) : q[i] = q[j] => i = j
  BY <1>2 DEF IsInjective
<1>4. ASSUME NEW i \in DOMAIN r, NEW j \in DOMAIN r, r[i] = r[j]
      PROVE  i = j
  <2> DEFINE up(k) == IF k < p THEN k ELSE k + 1
  <2>1. up(i) \in 1..Len(q) /\ up(j) \in 1..Len(q)
    BY <1>2
  <2>2. r[i] = q[up(i)] /\ r[j] = q[up(j)]
    BY <1>1, <1>2
  <2>3. up(i) = up(j)
    BY <2>1, <2>2, <1>3, <1>4
  <2> QED
    BY <2>3, <1>2
<1>5. IsInjective(r)
  BY <1>4 DEF IsInjective
<1>6. ASSUME NEW e \in Range(r) PROVE e \in Range(q) \ {q[p]}
  <2>1. PICK i \in DOMAIN r : r[i] = e
    BY <1>6 DEF Range
  <2> DEFINE k == IF i < p THEN i ELSE i + 1
  <2>2. k \in 1..Len(q) /\ k # p /\ q[k] = e
    BY <2>1, <1>1, <1>2
  <2> HIDE DEF k
  <2>3. q[k] # q[p]
    BY <2>2, <1>3
  <2> QED
    BY <2>2, <2>3, <1>2 DEF Range
<1>7. ASSUME NEW e \in Range(q), e # q[p] PROVE e \in Range(r)
  <2>1. PICK i \in DOMAIN q : q[i] = e
    BY DEF Range
  <2> DEFINE k == IF i < p THEN i ELSE i - 1
  <2>2. i # p
    BY <2>1, <1>7
  <2>3. k \in 1..Len(q) - 1 /\ r[k] = q[i]
    BY <2>2, <1>1, <1>2
  <2> HIDE DEF k
  <2> QED
    BY <2>1, <2>3, <1>2 DEF Range
<1>8. Range(r) = Range(q) \ {q[p]}
  BY <1>6, <1>7
<1> QED
  BY <1>1, <1>5, <1>8 DEF r

\* Putting in an element that is not there adds it, at its place.
LEMMA InsertAtMore ==
  ASSUME NEW S, NEW q \in Seq(S), IsInjective(q), NEW p \in 1..Len(q) + 1,
         NEW e \in S, e \notin Range(q)
  PROVE  /\ InsertAt(q, p, e) \in Seq(S)
         /\ Len(InsertAt(q, p, e)) = Len(q) + 1
         /\ IsInjective(InsertAt(q, p, e))
         /\ Range(InsertAt(q, p, e)) = Range(q) \cup {e}
         /\ InsertAt(q, p, e)[p] = e
<1>0. /\ InsertAt(q, p, e) \in Seq(S) /\ Len(InsertAt(q, p, e)) = Len(q) + 1
      /\ \A i \in 1..Len(q) + 1 :
           InsertAt(q, p, e)[i] = IF i < p THEN q[i] ELSE IF i = p THEN e ELSE q[i - 1]
  <2> DEFINE front == SubSeq(q, 1, p - 1)
             back == SubSeq(q, p, Len(q))
  <2>1. front \in Seq(S) /\ Len(front) = p - 1 /\ \A i \in 1..p - 1 : front[i] = q[i]
    OBVIOUS
  <2>2. back \in Seq(S) /\ Len(back) = Len(q) + 1 - p
          /\ \A i \in 1..Len(q) + 1 - p : back[i] = q[p + i - 1]
    OBVIOUS
  <2>3. InsertAt(q, p, e) = (front \o <<e>>) \o back
    BY DEF InsertAt
  <2> HIDE DEF front, back
  <2>4. Len(q) \in Nat
    OBVIOUS
  <2>5. front \o <<e>> \in Seq(S) /\ Len(front \o <<e>>) = p
    BY <2>1, <2>4
  <2>6. \A i \in 1..p : (front \o <<e>>)[i] = IF i < p THEN q[i] ELSE e
    BY <2>1, <2>4
  <2> DEFINE upto == front \o <<e>>
  <2>7. upto \in Seq(S) /\ Len(upto) = p /\ \A i \in 1..p : upto[i] = IF i < p THEN q[i] ELSE e
    BY <2>5, <2>6
  <2>8. InsertAt(q, p, e) = upto \o back
    BY <2>3
  <2> HIDE DEF upto
  <2>9. upto \o back \in Seq(S) /\ Len(upto \o back) = Len(q) + 1
    <3>1. upto \o back \in Seq(S) /\ Len(upto \o back) = Len(upto) + Len(back)
      BY <2>7, <2>2, ConcatProperties
    <3> QED
      BY <3>1, <2>7, <2>2, <2>4
  <2>10. ASSUME NEW i \in 1..Len(q) + 1
         PROVE  (upto \o back)[i] = IF i < p THEN q[i] ELSE IF i = p THEN e ELSE q[i - 1]
    <3>1. (upto \o back)[i] = IF i <= Len(upto) THEN upto[i] ELSE back[i - Len(upto)]
      BY <2>7, <2>2, <2>4, ConcatProperties
    <3>2. CASE i <= p
      BY <3>1, <3>2, <2>7, <2>4
    <3>3. CASE ~(i <= p)
      <4>1. i - p \in 1..Len(q) + 1 - p /\ p + (i - p) - 1 = i - 1
        BY <3>3, <2>4
      <4>2. back[i - p] = q[i - 1]
        BY <4>1, <2>2
      <4> QED
        BY <3>1, <3>3, <4>2, <2>7, <2>4
    <3> QED
      BY <3>2, <3>3
  <2> QED
    BY <2>8, <2>9, <2>10
<1> DEFINE r == InsertAt(q, p, e)
<1>1. /\ r \in Seq(S) /\ Len(r) = Len(q) + 1
      /\ \A i \in 1..Len(q) + 1 : r[i] = IF i < p THEN q[i] ELSE IF i = p THEN e ELSE q[i - 1]
  BY <1>0, Zenon
<1> HIDE DEF r
<1>2. Len(q) \in Nat /\ DOMAIN q = 1..Len(q) /\ DOMAIN r = 1..Len(q) + 1
  BY <1>1
<1>3. \A i, j \in 1..Len(q) : q[i] = q[j] => i = j
  BY <1>2 DEF IsInjective
<1>4. \A i \in 1..Len(q) : q[i] # e
  BY <1>2 DEF Range
<1> DEFINE down(k) == IF k < p THEN k ELSE k - 1
<1>5. \A i \in 1..Len(q) + 1 : i # p => down(i) \in 1..Len(q) /\ r[i] = q[down(i)]
  BY <1>1, <1>2
<1>6. r[p] = e
  BY <1>1, <1>2
<1>7. ASSUME NEW i \in DOMAIN r, NEW j \in DOMAIN r, r[i] = r[j]
      PROVE  i = j
  <2>1. CASE i # p /\ j # p
    <3>1. down(i) \in 1..Len(q) /\ r[i] = q[down(i)]
      BY <1>2, <1>5, <2>1
    <3>2. down(j) \in 1..Len(q) /\ r[j] = q[down(j)]
      BY <1>2, <1>5, <2>1
    <3>3. down(i) = down(j)
      BY <3>1, <3>2, <1>3, <1>7
    <3> QED
      BY <3>3, <2>1, <1>2
  <2>2. CASE i = p /\ j # p
    BY <2>2, <1>2, <1>4, <1>5, <1>6, <1>7
  <2>3. CASE i # p /\ j = p
    BY <2>3, <1>2, <1>4, <1>5, <1>6, <1>7
  <2> QED
    BY <2>1, <2>2, <2>3
<1>8. IsInjective(r)
  BY <1>7 DEF IsInjective
<1>9. ASSUME NEW x \in Range(r) PROVE x \in Range(q) \cup {e}
  <2>1. PICK i \in DOMAIN r : r[i] = x
    BY <1>9 DEF Range
  <2>2. CASE i = p
    BY <2>1, <2>2, <1>6
  <2>3. CASE i # p
    <3>1. down(i) \in DOMAIN q /\ q[down(i)] = x
      BY <2>1, <2>3, <1>2, <1>5
    <3> QED
      BY <3>1 DEF Range
  <2> QED
    BY <2>2, <2>3
<1>10. ASSUME NEW x \in Range(q) PROVE x \in Range(r)
  <2>1. PICK i \in DOMAIN q : q[i] = x
    BY DEF Range
  <2> DEFINE k == IF i < p THEN i ELSE i + 1
  <2>2. k \in DOMAIN r /\ r[k] = x
    BY <2>1, <1>1, <1>2
  <2> HIDE DEF k
  <2> QED
    BY <2>2 DEF Range
<1>11. e \in Range(r)
  BY <1>2, <1>6 DEF Range
<1>12. Range(r) = Range(q) \cup {e}
  BY <1>9, <1>10, <1>11
<1> QED
  BY <1>1, <1>6, <1>8, <1>12 DEF r

\* Putting an element at the front is putting it in at the first place; at the end, at
\* the one after the last.
LEMMA FrontMore ==
  ASSUME NEW S, NEW q \in Seq(S), IsInjective(q), NEW e \in S, e \notin Range(q)
  PROVE  /\ <<e>> \o q \in Seq(S)
         /\ IsInjective(<<e>> \o q)
         /\ Range(<<e>> \o q) = Range(q) \cup {e}
<1>1. SubSeq(q, 1, 0) = <<>>
  OBVIOUS
<1>2. SubSeq(q, 1, Len(q)) = q
  OBVIOUS
<1>3. InsertAt(q, 1, e) = <<e>> \o q
  <2>1. InsertAt(q, 1, e) = SubSeq(q, 1, 1 - 1) \o <<e>> \o SubSeq(q, 1, Len(q))
    BY DEF InsertAt
  <2>2. <<>> \o <<e>> = <<e>>
    OBVIOUS
  <2> QED
    BY <2>1, <2>2, <1>1, <1>2
<1>4. 1 \in 1..Len(q) + 1
  OBVIOUS
<1>5. /\ InsertAt(q, 1, e) \in Seq(S)
      /\ IsInjective(InsertAt(q, 1, e))
      /\ Range(InsertAt(q, 1, e)) = Range(q) \cup {e}
  BY <1>4, InsertAtMore, SMTT(60)
<1> QED
  BY <1>3, <1>5

\* A tab pushed at the end of a strip is one more, behind the others.
LEMMA AppendMore ==
  ASSUME NEW S, NEW q \in Seq(S), IsInjective(q), NEW e \in S, e \notin Range(q)
  PROVE  /\ Append(q, e) \in Seq(S)
         /\ Len(Append(q, e)) = Len(q) + 1
         /\ IsInjective(Append(q, e))
         /\ Range(Append(q, e)) = Range(q) \cup {e}
         /\ Append(q, e)[Len(q) + 1] = e
<1> DEFINE r == Append(q, e)
<1>1. /\ r \in Seq(S) /\ Len(r) = Len(q) + 1 /\ r[Len(q) + 1] = e
      /\ \A i \in 1..Len(q) : r[i] = q[i]
  BY AppendProperties
<1> HIDE DEF r
<1>2. Len(q) \in Nat /\ DOMAIN q = 1..Len(q) /\ DOMAIN r = 1..Len(q) + 1
  BY <1>1
<1>3. \A i, j \in 1..Len(q) : q[i] = q[j] => i = j
  BY <1>2 DEF IsInjective
<1>4. \A i \in 1..Len(q) : q[i] # e
  BY <1>2 DEF Range
<1>5. IsInjective(r)
  <2>1. ASSUME NEW i \in 1..Len(q) + 1, NEW j \in 1..Len(q) + 1, r[i] = r[j] PROVE i = j
    <3>1. CASE i = Len(q) + 1 /\ j \in 1..Len(q)
      BY <3>1, <2>1, <1>1, <1>4
    <3>2. CASE j = Len(q) + 1 /\ i \in 1..Len(q)
      BY <3>2, <2>1, <1>1, <1>4
    <3>3. CASE i \in 1..Len(q) /\ j \in 1..Len(q)
      BY <3>3, <2>1, <1>1, <1>3
    <3> QED
      BY <3>1, <3>2, <3>3, <1>2
  <2> QED
    BY <2>1, <1>2 DEF IsInjective
<1>6. ASSUME NEW x \in Range(r) PROVE x \in Range(q) \cup {e}
  <2>1. PICK i \in DOMAIN r : r[i] = x
    BY <1>6 DEF Range
  <2>2. CASE i = Len(q) + 1
    BY <2>1, <2>2, <1>1
  <2>3. CASE i \in 1..Len(q)
    BY <2>1, <2>3, <1>1, <1>2 DEF Range
  <2> QED
    BY <2>2, <2>3, <1>2
<1>7. ASSUME NEW x \in Range(q) PROVE x \in Range(r)
  <2>1. PICK i \in DOMAIN q : q[i] = x
    BY DEF Range
  <2>2. i \in DOMAIN r /\ r[i] = x
    BY <2>1, <1>1, <1>2
  <2> QED
    BY <2>2 DEF Range
<1>8. e \in Range(r)
  <2>1. Len(q) + 1 \in DOMAIN r
    BY <1>2
  <2> QED
    BY <2>1, <1>1 DEF Range
<1> QED
  BY <1>1, <1>5, <1>6, <1>7, <1>8 DEF r

\* Another document in a place of the strip.
LEMMA ReplacedAt ==
  ASSUME NEW S, NEW q \in Seq(S), IsInjective(q), NEW p \in 1..Len(q),
         NEW e \in S, e \notin Range(q)
  PROVE  /\ [q EXCEPT ![p] = e] \in Seq(S)
         /\ Len([q EXCEPT ![p] = e]) = Len(q)
         /\ IsInjective([q EXCEPT ![p] = e])
         /\ Range([q EXCEPT ![p] = e]) = (Range(q) \ {q[p]}) \cup {e}
         /\ [q EXCEPT ![p] = e][p] = e
<1> DEFINE r == [q EXCEPT ![p] = e]
<1>1. /\ r \in Seq(S) /\ Len(r) = Len(q)
      /\ \A i \in 1..Len(q) : r[i] = IF i = p THEN e ELSE q[i]
  BY ExceptSeq
<1> HIDE DEF r
<1>2. Len(q) \in Nat /\ DOMAIN q = 1..Len(q) /\ DOMAIN r = 1..Len(q)
  BY <1>1
<1>3. \A i, j \in 1..Len(q) : q[i] = q[j] => i = j
  BY <1>2 DEF IsInjective
<1>4. \A i \in 1..Len(q) : q[i] # e
  BY <1>2 DEF Range
<1>5. IsInjective(r)
  BY <1>1, <1>2, <1>3, <1>4 DEF IsInjective
<1>6. ASSUME NEW x \in Range(r) PROVE x \in (Range(q) \ {q[p]}) \cup {e}
  <2>1. PICK i \in 1..Len(q) : r[i] = x
    BY <1>6, <1>2 DEF Range
  <2>2. CASE i = p
    BY <2>1, <2>2, <1>1
  <2>3. CASE i # p
    BY <2>1, <2>3, <1>1, <1>2, <1>3 DEF Range
  <2> QED
    BY <2>2, <2>3
<1>7. ASSUME NEW x \in Range(q), x # q[p] PROVE x \in Range(r)
  <2>1. PICK i \in 1..Len(q) : q[i] = x
    BY <1>2 DEF Range
  <2>2. r[i] = x
    BY <2>1, <1>1, <1>7
  <2> QED
    BY <2>2, <1>2 DEF Range
<1>8. e \in Range(r)
  BY <1>1, <1>2 DEF Range
<1>9. Range(r) = (Range(q) \ {q[p]}) \cup {e}
  BY <1>6, <1>7, <1>8
<1> QED
  BY <1>1, <1>5, <1>9 DEF r

\* The order of use without a view.
LEMMA WithoutView ==
  ASSUME NEW S, NEW q \in Seq(S), IsInjective(q), NEW v
  PROVE  /\ Without(q, v) \in Seq(S)
         /\ IsInjective(Without(q, v))
         /\ Range(Without(q, v)) = Range(q) \ {v}
<1>1. CASE v \in Range(q)
  <2>1. IndexOf(v, q) \in 1..Len(q) /\ q[IndexOf(v, q)] = v
    BY <1>1, IndexFound
  <2>2. Without(q, v) = RemoveAt(q, IndexOf(v, q))
    BY <1>1 DEF Without
  <2> QED
    BY <2>1, <2>2, RemoveAtRest
<1>2. CASE v \notin Range(q)
  BY <1>2 DEF Without
<1> QED
  BY <1>1, <1>2

\* The order of use with a view first.
LEMMA ViewFirst ==
  ASSUME NEW S, NEW q \in Seq(S), IsInjective(q), NEW v \in S
  PROVE  /\ <<v>> \o Without(q, v) \in Seq(S)
         /\ IsInjective(<<v>> \o Without(q, v))
         /\ Range(<<v>> \o Without(q, v)) = Range(q) \cup {v}
<1> DEFINE r == Without(q, v)
<1>1. r \in Seq(S) /\ IsInjective(r) /\ Range(r) = Range(q) \ {v}
  BY WithoutView
<1> HIDE DEF r
<1>2. /\ <<v>> \o r \in Seq(S)
      /\ IsInjective(<<v>> \o r)
      /\ Range(<<v>> \o r) = Range(r) \cup {v}
  BY <1>1, FrontMore, SMTT(60)
<1>3. Range(r) \cup {v} = Range(q) \cup {v}
  BY <1>1
<1> QED
  BY <1>2, <1>3 DEF r

-----------------------------------------------------------------------------
(* The operations on the window.                                           *)

\* What WellTyped says of the parts.
LEMMA PartsTyped ==
  ASSUME NEW s, WellTyped(s)
  PROVE  /\ s.docs \in [Docs -> Doc]
         /\ s.strip \in [Groups(s) -> Strip]
         /\ s.active \in Groups(s)
         /\ s.recent \in Seq(Views)
         /\ s.tree \in Layouts
         /\ s.shown \in [Groups(s) -> Docs \cup {Nil}]
         /\ s.made \in Nat
         /\ \A g \in Groups(s) :
              /\ g \in Ids
              /\ s.strip[g].tabs \in Seq(Docs)
              /\ s.strip[g].sel \in Nat
              /\ s.strip[g].tabs # <<>> => s.strip[g].sel \in 1..Len(s.strip[g].tabs)
<1>1. /\ s.docs \in [Docs -> Doc]
      /\ s.strip \in [Groups(s) -> Strip]
      /\ s.active \in Groups(s)
      /\ s.recent \in Seq(Views)
      /\ s.tree \in Layouts
      /\ s.shown \in [Groups(s) -> Docs \cup {Nil}]
      /\ s.made \in Nat
  BY DEF WellTyped, Window
<1>2. ASSUME NEW g \in Groups(s)
      PROVE  /\ g \in Ids
             /\ s.strip[g].tabs \in Seq(Docs)
             /\ s.strip[g].sel \in Nat
             /\ s.strip[g].tabs # <<>> => s.strip[g].sel \in 1..Len(s.strip[g].tabs)
  <2>1. s.strip[g] \in Strip
    BY <1>1
  <2>2. g \in Ids /\ s.strip[g].tabs \in Seq(Docs) /\ s.strip[g].sel \in Nat
    BY <2>1 DEF Strip, WellTyped
  <2>3. DOMAIN s.strip[g].tabs = 1..Len(s.strip[g].tabs)
    BY <2>2
  <2>4. s.strip[g].sel \in DOMAIN s.strip[g].tabs \/ s.strip[g] = NoTabs
    BY DEF WellTyped
  <2>5. s.strip[g] = NoTabs => s.strip[g].tabs = <<>>
    BY DEF NoTabs
  <2> QED
    BY <2>2, <2>3, <2>4, <2>5
<1> QED
  BY <1>1, <1>2

\* Touching a view only moves it to the front of the order of use.
LEMMA TouchedIs ==
  ASSUME NEW groups, NEW s \in Window(groups), IsInjective(s.recent), NEW g \in Ids, NEW d \in Docs
  PROVE  \E q \in Seq(Views) :
           /\ Touched(s, g, d) = [s EXCEPT !.recent = q]
           /\ IsInjective(q)
           /\ Range(q) = Range(s.recent) \cup {<<g, d>>}
<1> DEFINE q == <<<<g, d>>>> \o Without(s.recent, <<g, d>>)
<1>1. <<g, d>> \in Views
  BY DEF Views
<1>2. s.recent \in Seq(Views)
  BY DEF Window
<1>3. q \in Seq(Views) /\ IsInjective(q) /\ Range(q) = Range(s.recent) \cup {<<g, d>>}
  BY <1>1, <1>2, ViewFirst, SMTT(60)
<1>4. Touched(s, g, d) = [s EXCEPT !.recent = q]
  BY DEF Touched, Forgotten, Window
<1> QED
  BY <1>3, <1>4

\* Another order of the same views keeps everything.
LEMMA ReorderedSound ==
  ASSUME NEW s, NEW aside, Sound(s, aside), NEW q \in Seq(Views), IsInjective(q), Range(q) = Range(s.recent)
  PROVE  Sound([s EXCEPT !.recent = q], aside)
<1> DEFINE t == [s EXCEPT !.recent = q]
<1>1. /\ t.docs = s.docs /\ t.strip = s.strip /\ t.active = s.active /\ t.recent = q
      /\ t.tree = s.tree /\ t.shown = s.shown /\ t.made = s.made
  BY DEF Sound, WellTyped, Window
<1>2. t \in Window(Groups(s))
  BY DEF Sound, WellTyped, Window
<1> HIDE DEF t
<1>3. Groups(t) = Groups(s)
  BY <1>1 DEF Groups
<1>4. WellTyped(t)
  BY <1>1, <1>2, <1>3 DEF Sound, WellTyped
<1>5. Stored(t, aside)
  BY <1>1, <1>3 DEF Sound, Stored, Viewed, InGroup
<1>6. Ordered(t)
  BY <1>1, <1>3 DEF Sound, Ordered, InGroup
<1>7. OnePreview(t)
  BY <1>1, <1>3 DEF Sound, OnePreview, IsPreview, InGroup
<1> QED
  BY <1>1, <1>3, <1>4, <1>5, <1>6, <1>7 DEF Sound, t

\* set_active_group and touch, of a view that is there.
LEMMA TouchedSound ==
  ASSUME NEW s, NEW aside, Sound(s, aside), NEW g \in Groups(s), NEW d \in Docs, InGroup(s, g, d)
  PROVE  /\ Sound(Touched(s, g, d), aside)
         /\ \E q \in Seq(Views) : Touched(s, g, d) = [s EXCEPT !.recent = q]
<1>1. s \in Window(Groups(s)) /\ IsInjective(s.recent) /\ g \in Ids
  BY DEF Sound, Ordered, WellTyped
<1>2. PICK q \in Seq(Views) :
        /\ Touched(s, g, d) = [s EXCEPT !.recent = q]
        /\ IsInjective(q)
        /\ Range(q) = Range(s.recent) \cup {<<g, d>>}
  BY <1>1, TouchedIs
<1>3. <<g, d>> \in Range(s.recent)
  BY <1>1 DEF Sound, Ordered
<1>4. Range(q) = Range(s.recent)
  BY <1>2, <1>3
<1> QED
  BY <1>2, <1>4, ReorderedSound

\* A group with tabs has one of them selected.
LEMMA SelectedIn ==
  ASSUME NEW s, WellTyped(s), NEW g \in Groups(s)
  PROVE  /\ Selected(s, g) \in Docs \cup {Nil}
         /\ Selected(s, g) = Nil <=> s.strip[g].tabs = <<>>
         /\ Selected(s, g) # Nil => Selected(s, g) \in Docs /\ InGroup(s, g, Selected(s, g))
<1>1. s.strip[g].tabs \in Seq(Docs)
      /\ (s.strip[g].tabs # <<>> => s.strip[g].sel \in 1..Len(s.strip[g].tabs))
  BY PartsTyped
<1>2. Nil \notin Docs
  BY TabGroupsAssumption
<1>3. CASE s.strip[g].tabs = <<>>
  BY <1>2, <1>3 DEF Selected
<1>4. CASE s.strip[g].tabs # <<>>
  <2>1. Selected(s, g) = s.strip[g].tabs[s.strip[g].sel]
    BY <1>4 DEF Selected
  <2>2. s.strip[g].sel \in DOMAIN s.strip[g].tabs
    BY <1>1, <1>4
  <2>3. Selected(s, g) \in Docs
    BY <1>1, <1>4, <2>1
  <2>4. InGroup(s, g, Selected(s, g))
    BY <2>1, <2>2 DEF InGroup, Range
  <2> QED
    BY <1>2, <1>4, <2>3, <2>4
<1> QED
  BY <1>3, <1>4

\* set_active_group.
LEMMA ActivatedSound ==
  ASSUME NEW s, NEW aside, Sound(s, aside), NEW g
  PROVE  LET t == ActivatedGroup(s, g)
         IN /\ Sound(t, aside)
            /\ t.docs = s.docs /\ t.strip = s.strip /\ t.tree = s.tree
            /\ t.shown = s.shown /\ t.made = s.made
            /\ t.active = IF g \in Groups(s) THEN g ELSE s.active
<1>1. CASE g \notin Groups(s) \/ g = s.active
  BY <1>1, PartsTyped DEF ActivatedGroup, Sound
<1>2. CASE g \in Groups(s) /\ g # s.active
  <2> DEFINE t == [s EXCEPT !.active = g]
  <2>1. /\ t.docs = s.docs /\ t.strip = s.strip /\ t.active = g /\ t.recent = s.recent
        /\ t.tree = s.tree /\ t.shown = s.shown /\ t.made = s.made
    BY DEF Sound, WellTyped, Window
  <2>2. t \in Window(Groups(s))
    BY <1>2 DEF Sound, WellTyped, Window
  <2>3. ActivatedGroup(s, g) = IF Selected(t, g) = Nil THEN t ELSE Touched(t, g, Selected(t, g))
    BY <1>2 DEF ActivatedGroup
  <2> HIDE DEF t
  <2>4. Groups(t) = Groups(s)
    BY <2>1 DEF Groups
  <2>5. WellTyped(t)
    BY <2>1, <2>2, <2>4 DEF Sound, WellTyped
  <2>6. Stored(t, aside)
    BY <2>1, <2>4 DEF Sound, Stored, Viewed, InGroup
  <2>7. Ordered(t)
    BY <2>1, <2>4 DEF Sound, Ordered, InGroup
  <2>8. OnePreview(t)
    BY <2>1, <2>4 DEF Sound, OnePreview, IsPreview, InGroup
  <2>9. Sound(t, aside)
    BY <2>1, <2>4, <2>5, <2>6, <2>7, <2>8 DEF Sound
  <2>10. CASE Selected(t, g) = Nil
    BY <1>2, <2>1, <2>3, <2>9, <2>10
  <2>11. CASE Selected(t, g) # Nil
    <3>1. Selected(t, g) \in Docs /\ InGroup(t, g, Selected(t, g))
      BY <1>2, <2>4, <2>5, <2>11, SelectedIn
    <3>2. /\ Sound(Touched(t, g, Selected(t, g)), aside)
          /\ \E q \in Seq(Views) : Touched(t, g, Selected(t, g)) = [t EXCEPT !.recent = q]
      BY <1>2, <2>4, <2>9, <3>1, TouchedSound
    <3>3. PICK q \in Seq(Views) : Touched(t, g, Selected(t, g)) = [t EXCEPT !.recent = q]
      BY <3>2
    <3>4. ActivatedGroup(s, g) = [t EXCEPT !.recent = q]
      BY <2>3, <2>11, <3>3
    <3>5. Sound(ActivatedGroup(s, g), aside)
      BY <2>3, <2>11, <3>2
    <3> DEFINE u == [t EXCEPT !.recent = q]
    <3>6. /\ u.docs = t.docs /\ u.strip = t.strip /\ u.active = t.active
          /\ u.tree = t.tree /\ u.shown = t.shown /\ u.made = t.made
      BY <2>5 DEF WellTyped, Window
    <3> QED
      BY <1>2, <2>1, <3>4, <3>5, <3>6
  <2> QED
    BY <2>10, <2>11
<1> QED
  BY <1>1, <1>2

\* Documents that differ in being dirty or a preview less are stored as before.
LEMMA DocsSound ==
  ASSUME NEW s, NEW aside, Sound(s, aside), NEW docs \in [Docs -> Doc],
         \A d \in Docs : /\ docs[d].open = s.docs[d].open
                         /\ docs[d].dirty => s.docs[d].dirty \/ ~docs[d].preview
                         /\ docs[d].preview => s.docs[d].preview
                         /\ ~s.docs[d].open => docs[d] = s.docs[d]
  PROVE  LET t == [s EXCEPT !.docs = docs]
         IN /\ Sound(t, aside)
            /\ t.docs = docs /\ t.strip = s.strip /\ t.active = s.active /\ t.recent = s.recent
            /\ t.tree = s.tree /\ t.shown = s.shown /\ t.made = s.made
<1> DEFINE t == [s EXCEPT !.docs = docs]
<1>1. /\ t.docs = docs /\ t.strip = s.strip /\ t.active = s.active /\ t.recent = s.recent
      /\ t.tree = s.tree /\ t.shown = s.shown /\ t.made = s.made
  BY DEF Sound, WellTyped, Window
<1>2. t \in Window(Groups(s))
  BY DEF Sound, WellTyped, Window
<1> HIDE DEF t
<1>3. Groups(t) = Groups(s)
  BY <1>1 DEF Groups
<1>4. WellTyped(t)
  BY <1>1, <1>2, <1>3 DEF Sound, WellTyped
<1>5. \A g, d : InGroup(t, g, d) <=> InGroup(s, g, d)
  BY <1>1 DEF InGroup
<1>6. \A d : Viewed(t, d) <=> Viewed(s, d)
  BY <1>3, <1>5 DEF Viewed
<1>7. Stored(t, aside)
  BY <1>1, <1>6 DEF Sound, Stored
<1>8. Ordered(t)
  BY <1>1, <1>3, <1>5 DEF Sound, Ordered
<1>9. \A g \in Groups(s), d \in Docs : IsPreview(t, g, d) => IsPreview(s, g, d)
  BY <1>1, <1>5 DEF IsPreview
<1>10. OnePreview(t)
  <2> SUFFICES ASSUME NEW g \in Groups(s), NEW d \in Docs, IsPreview(t, g, d)
               PROVE  /\ ~t.docs[d].dirty
                      /\ \A h \in Groups(s) : InGroup(t, h, d) => h = g
                      /\ \A e \in Docs : IsPreview(t, g, e) => e = d
    BY <1>3 DEF OnePreview
  <2>1. IsPreview(s, g, d)
    BY <1>9
  <2>2. /\ ~s.docs[d].dirty
        /\ \A h \in Groups(s) : InGroup(s, h, d) => h = g
        /\ \A e \in Docs : IsPreview(s, g, e) => e = d
    BY <2>1 DEF Sound, OnePreview
  <2>3. docs[d].preview
    BY <1>1 DEF IsPreview
  <2>4. ~t.docs[d].dirty
    BY <1>1, <2>2, <2>3
  <2> QED
    BY <2>2, <2>4, <1>5, <1>9
<1>11. Sound(t, aside)
  BY <1>1, <1>3, <1>4, <1>7, <1>8, <1>10 DEF Sound
<1> QED
  BY <1>1, <1>11 DEF t

\* An autosave makes the active document clean, or nothing.
LEMMA AutosavedSound ==
  ASSUME NEW s, NEW aside, Sound(s, aside), NEW saves \in BOOLEAN
  PROVE  LET t == Autosaved(s, saves)
         IN /\ Sound(t, aside)
            /\ t.strip = s.strip /\ t.active = s.active /\ t.recent = s.recent
            /\ t.tree = s.tree /\ t.shown = s.shown /\ t.made = s.made
            /\ \A d \in Docs : /\ t.docs[d].open = s.docs[d].open
                               /\ t.docs[d].path = s.docs[d].path
                               /\ t.docs[d].preview = s.docs[d].preview
                               /\ t.docs[d].dirty => s.docs[d].dirty
                               /\ s.docs[d].path = Nil => t.docs[d] = s.docs[d]
<1> DEFINE d == Selected(s, s.active)
<1>1. s.docs \in [Docs -> Doc] /\ s.active \in Groups(s) /\ WellTyped(s)
  BY PartsTyped DEF Sound
<1>2. CASE saves /\ d # Nil /\ s.docs[d].path # Nil
  <2>1. d \in Docs /\ InGroup(s, s.active, d)
    BY <1>1, <1>2, SelectedIn
  <2>2. s.docs[d].open
    BY <1>1, <2>1 DEF Sound, Stored, Viewed
  <2> DEFINE docs == [s.docs EXCEPT ![d].dirty = FALSE]
  <2>3. Autosaved(s, saves) = [s EXCEPT !.docs = docs]
    BY <1>2 DEF Autosaved, Sound, WellTyped, Window
  <2>4. docs \in [Docs -> Doc]
    BY <1>1 DEF Doc
  <2>5. \A e \in Docs : /\ docs[e].open = s.docs[e].open
                        /\ docs[e].path = s.docs[e].path
                        /\ docs[e].preview = s.docs[e].preview
                        /\ docs[e].dirty => s.docs[e].dirty
                        /\ e # d => docs[e] = s.docs[e]
    BY <1>1, <2>1 DEF Doc
  <2> HIDE DEF docs, d
  <2>6. \A e \in Docs : ~s.docs[e].open => docs[e] = s.docs[e]
    BY <2>2, <2>5
  <2>7. LET t == [s EXCEPT !.docs = docs]
        IN /\ Sound(t, aside)
           /\ t.docs = docs /\ t.strip = s.strip /\ t.active = s.active /\ t.recent = s.recent
           /\ t.tree = s.tree /\ t.shown = s.shown /\ t.made = s.made
    BY <2>4, <2>5, <2>6, DocsSound
  <2> QED
    BY <2>3, <2>5, <2>7, <1>2
<1>3. CASE ~(saves /\ d # Nil /\ s.docs[d].path # Nil)
  <2>1. Autosaved(s, saves) = s
    BY <1>3 DEF Autosaved
  <2> QED
    BY <2>1
<1> QED
  BY <1>2, <1>3

\* Editors are up to date where neither their group nor what it shows changed.
LEMMA FreshKept ==
  ASSUME NEW s, NEW t, NEW before, NEW after, Fresh(s, before),
         \A g \in Groups(t) \ after :
           /\ g \in Groups(s) \ before
           /\ t.shown[g] = s.shown[g]
           /\ t.strip[g] = s.strip[g]
           /\ Selected(s, g) # Nil => t.docs[Selected(s, g)].path = s.docs[Selected(s, g)].path
  PROVE  Fresh(t, after)
<1> SUFFICES ASSUME NEW g \in Groups(t) \ after
             PROVE  t.shown[g] = Holds(t, Selected(t, g))
  BY DEF Fresh
<1>1. Selected(t, g) = Selected(s, g)
  BY DEF Selected
<1>2. Holds(t, Selected(t, g)) = Holds(s, Selected(s, g))
  BY <1>1 DEF Holds, IsImage
<1>3. s.shown[g] = Holds(s, Selected(s, g))
  BY DEF Fresh
<1> QED
  BY <1>2, <1>3

\* show_group_view.
LEMMA ShownSound ==
  ASSUME NEW s, NEW aside, Sound(s, aside), NEW g, NEW stale, Fresh(s, stale)
  PROVE  LET t == Shown(s, g)
         IN /\ Sound(t, aside)
            /\ Fresh(t, stale \ {g})
            /\ t.docs = s.docs /\ t.strip = s.strip /\ t.active = s.active
            /\ t.recent = s.recent /\ t.tree = s.tree /\ t.made = s.made
<1>1. CASE g \notin Groups(s)
  <2>1. Fresh(s, stale \ {g})
    BY <1>1 DEF Fresh
  <2> QED
    BY <1>1, <2>1 DEF Shown
<1>2. CASE g \in Groups(s)
  <2> DEFINE held == Holds(s, Selected(s, g))
             t == [s EXCEPT !.shown[g] = held]
  <2>1. Shown(s, g) = t
    BY <1>2 DEF Shown
  <2>2. /\ t.docs = s.docs /\ t.strip = s.strip /\ t.active = s.active
        /\ t.recent = s.recent /\ t.tree = s.tree /\ t.made = s.made
        /\ t.shown = [s.shown EXCEPT ![g] = held]
    BY DEF Sound, WellTyped, Window
  <2>3. held \in Docs \cup {Nil}
    BY <1>2, SelectedIn DEF Sound, Holds
  <2> HIDE DEF held
  <2>4. t \in Window(Groups(s))
    BY <1>2, <2>3 DEF Sound, WellTyped, Window
  <2> HIDE DEF t
  <2>5. Groups(t) = Groups(s)
    BY <2>2 DEF Groups
  <2>6. WellTyped(t)
    BY <2>2, <2>4, <2>5 DEF Sound, WellTyped
  <2>7. Stored(t, aside)
    BY <2>2, <2>5 DEF Sound, Stored, Viewed, InGroup
  <2>8. Ordered(t)
    BY <2>2, <2>5 DEF Sound, Ordered, InGroup
  <2>9. OnePreview(t)
    BY <2>2, <2>5 DEF Sound, OnePreview, IsPreview, InGroup
  <2>10. Sound(t, aside)
    BY <2>2, <2>5, <2>6, <2>7, <2>8, <2>9 DEF Sound
  <2>11. s.shown \in [Groups(s) -> Docs \cup {Nil}]
    BY PartsTyped DEF Sound
  <2>12. ASSUME NEW h \in Groups(t) \ (stale \ {g})
         PROVE  t.shown[h] = Holds(t, Selected(t, h))
    <3>1. Selected(t, h) = Selected(s, h) /\ Holds(t, Selected(t, h)) = Holds(s, Selected(s, h))
      BY <2>2 DEF Selected, Holds, IsImage
    <3>2. CASE h = g
      BY <2>2, <2>11, <1>2, <3>1, <3>2 DEF held
    <3>3. CASE h # g
      <4>1. s.shown[h] = Holds(s, Selected(s, h))
        BY <2>5, <3>3 DEF Fresh
      <4> QED
        BY <2>2, <2>5, <2>11, <3>1, <3>3, <4>1
    <3> QED
      BY <3>2, <3>3
  <2>13. Fresh(t, stale \ {g})
    BY <2>12 DEF Fresh
  <2> QED
    BY <2>1, <2>2, <2>10, <2>13
<1> QED
  BY <1>1, <1>2

\* One strip, the documents and the order of use change together.
LEMMA StripChanged ==
  ASSUME NEW s, NEW aside, Sound(s, aside), NEW g \in Groups(s),
         NEW docs \in [Docs -> Doc], NEW placed \in Strip, NEW q \in Seq(Views),
         placed.sel \in DOMAIN placed.tabs \/ placed = NoTabs,
         IsInjective(placed.tabs), IsInjective(q),
         \A h \in Ids, e \in Docs :
           <<h, e>> \in Range(q) <=>
             IF h = g THEN e \in Range(placed.tabs) ELSE <<h, e>> \in Range(s.recent)
  PROVE  LET t == [s EXCEPT !.docs = docs, !.strip = [@ EXCEPT ![g] = placed], !.recent = q]
         IN /\ WellTyped(t)
            /\ t.docs = docs /\ t.active = s.active /\ t.recent = q
            /\ t.tree = s.tree /\ t.shown = s.shown /\ t.made = s.made
            /\ Groups(t) = Groups(s)
            /\ \A h \in Groups(s) : t.strip[h] = IF h = g THEN placed ELSE s.strip[h]
            /\ \A h \in Groups(s), e \in Docs :
                 InGroup(t, h, e) <=> IF h = g THEN e \in Range(placed.tabs) ELSE InGroup(s, h, e)
            /\ \A b : Stored(t, b) /\ OnePreview(t) => Sound(t, b)
<1> DEFINE t == [s EXCEPT !.docs = docs, !.strip = [@ EXCEPT ![g] = placed], !.recent = q]
<1>1. /\ t.docs = docs /\ t.active = s.active /\ t.recent = q
      /\ t.tree = s.tree /\ t.shown = s.shown /\ t.made = s.made
      /\ t.strip = [s.strip EXCEPT ![g] = placed]
  BY DEF Sound, WellTyped, Window
<1>2. t \in Window(Groups(s))
  BY DEF Sound, WellTyped, Window
<1> HIDE DEF t
<1>3. s.strip \in [Groups(s) -> Strip]
  BY PartsTyped DEF Sound
<1>4. Groups(t) = Groups(s)
  BY <1>1, <1>3 DEF Groups
<1>5. \A h \in Groups(s) : t.strip[h] = IF h = g THEN placed ELSE s.strip[h]
  BY <1>1, <1>3
<1>6. \A h \in Groups(s), e \in Docs :
        InGroup(t, h, e) <=> IF h = g THEN e \in Range(placed.tabs) ELSE InGroup(s, h, e)
  BY <1>5 DEF InGroup
<1>7. WellTyped(t)
  <2>1. \A h \in Groups(s) : t.strip[h].sel \in DOMAIN t.strip[h].tabs \/ t.strip[h] = NoTabs
    BY <1>5 DEF Sound, WellTyped
  <2> QED
    BY <1>2, <1>4, <2>1 DEF Sound, WellTyped
<1>8. Ordered(t)
  <2> SUFFICES ASSUME NEW h \in Ids, NEW e \in Docs
               PROVE  <<h, e>> \in Range(t.recent) <=> h \in Groups(t) /\ InGroup(t, h, e)
    BY <1>1 DEF Ordered
  <2>1. <<h, e>> \in Range(s.recent) <=> h \in Groups(s) /\ InGroup(s, h, e)
    BY DEF Sound, Ordered
  <2>2. CASE h = g
    BY <2>2, <1>1, <1>4, <1>6
  <2>3. CASE h # g
    <3>1. h \in Groups(s) => (InGroup(t, h, e) <=> InGroup(s, h, e))
      BY <2>3, <1>6
    <3> QED
      BY <2>1, <2>3, <3>1, <1>1, <1>4
  <2> QED
    BY <2>2, <2>3
<1>9. \A h \in Groups(s) : IsInjective(t.strip[h].tabs) /\ h <= t.made
  BY <1>1, <1>5 DEF Sound
<1>10. Range(LeavesOf(t.tree)) = Groups(t)
  BY <1>1, <1>4 DEF Sound
<1>11. \A b : Stored(t, b) /\ OnePreview(t) => Sound(t, b)
  BY <1>4, <1>7, <1>8, <1>9, <1>10 DEF Sound
<1> QED
  BY <1>1, <1>4, <1>5, <1>6, <1>7, <1>11 DEF t

\* The strip of a group once a document is in it and selected.
With(strip, d, at) ==
  LET index == Least(at, Len(strip.tabs) + 1)
  IN IF d \in Range(strip.tabs)
     THEN [strip EXCEPT !.sel = IndexOf(d, strip.tabs)]
     ELSE [tabs |-> InsertAt(strip.tabs, index, d), sel |-> index]

\* A view placed in a strip: it is there, once, and nothing else changes.
LEMMA Placing ==
  ASSUME NEW strip \in Strip, IsInjective(strip.tabs), NEW d \in Docs, NEW at \in Nat \ {0}
  PROVE  LET placed == With(strip, d, at)
         IN /\ placed \in Strip /\ IsInjective(placed.tabs)
            /\ placed.sel \in DOMAIN placed.tabs
            /\ placed.tabs # <<>> /\ placed.tabs[placed.sel] = d
            /\ Range(placed.tabs) = Range(strip.tabs) \cup {d}
<1> DEFINE index == Least(at, Len(strip.tabs) + 1)
<1>1. strip.tabs \in Seq(Docs) /\ Len(strip.tabs) \in Nat
  BY DEF Strip
<1>2. index \in 1..Len(strip.tabs) + 1
  BY <1>1 DEF Least
<1>3. CASE d \in Range(strip.tabs)
  <2> DEFINE placed == [strip EXCEPT !.sel = IndexOf(d, strip.tabs)]
  <2>1. IndexOf(d, strip.tabs) \in 1..Len(strip.tabs) /\ strip.tabs[IndexOf(d, strip.tabs)] = d
    BY <1>1, <1>3, IndexFound
  <2>2. placed.tabs = strip.tabs /\ placed.sel = IndexOf(d, strip.tabs) /\ placed \in Strip
    BY <1>1, <2>1 DEF Strip
  <2>3. DOMAIN strip.tabs = 1..Len(strip.tabs)
    BY <1>1
  <2>4. strip.tabs # <<>>
    BY <2>1
  <2>5. Range(strip.tabs) = Range(strip.tabs) \cup {d}
    BY <1>3
  <2> HIDE DEF placed
  <2>6. /\ placed \in Strip /\ IsInjective(placed.tabs)
        /\ placed.sel \in DOMAIN placed.tabs
        /\ placed.tabs # <<>> /\ placed.tabs[placed.sel] = d
        /\ Range(placed.tabs) = Range(strip.tabs) \cup {d}
    BY <2>1, <2>2, <2>3, <2>4, <2>5
  <2>7. With(strip, d, at) = placed
    BY <1>3 DEF With, placed
  <2> QED
    BY <2>6, <2>7
<1>4. CASE d \notin Range(strip.tabs)
  <2> DEFINE tabs == InsertAt(strip.tabs, index, d)
             placed == [tabs |-> tabs, sel |-> index]
  <2> HIDE DEF index
  <2>1. /\ tabs \in Seq(Docs)
        /\ Len(tabs) = Len(strip.tabs) + 1
        /\ IsInjective(tabs)
        /\ Range(tabs) = Range(strip.tabs) \cup {d}
        /\ tabs[index] = d
    BY <1>1, <1>2, <1>4, InsertAtMore, SMTT(60)
  <2> HIDE DEF tabs
  <2>2. index \in DOMAIN tabs /\ tabs # <<>> /\ index \in Nat
    BY <1>1, <1>2, <2>1
  <2>3. placed \in Strip
    BY <2>1, <2>2 DEF Strip
  <2>4. With(strip, d, at) = placed
    BY <1>4 DEF With, tabs, index
  <2> HIDE DEF placed
  <2>5. placed.tabs = tabs /\ placed.sel = index
    BY DEF placed
  <2> QED
    BY <2>1, <2>2, <2>3, <2>4, <2>5
<1> QED
  BY <1>3, <1>4

\* add_view_at: the document is in the strip, selected, and no longer a preview where
\* another view or preview of it would be.
LEMMA ViewAddedSound ==
  ASSUME NEW s, NEW d \in Docs, NEW aside \in {d, Nil}, Sound(s, aside), s.docs[d].open,
         s.docs[d].preview => ~s.docs[d].dirty,
         NEW g \in Groups(s), NEW at \in Nat \ {0}
  PROVE  LET t == ViewAdded(s, g, d, at)
         IN /\ Sound(t, Nil)
            /\ Groups(t) = Groups(s) /\ t.active = s.active
            /\ t.tree = s.tree /\ t.shown = s.shown /\ t.made = s.made
            /\ \A h \in Groups(s) : h # g => t.strip[h] = s.strip[h]
            /\ InGroup(t, g, d) /\ Selected(t, g) = d
            /\ \A e \in Docs : /\ t.docs[e].open = s.docs[e].open
                               /\ t.docs[e].path = s.docs[e].path
                               /\ t.docs[e].dirty = s.docs[e].dirty
<1> DEFINE strip == s.strip[g]
           placed == With(strip, d, at)
           otherPreview == \E e \in Range(strip.tabs) \ {d} : s.docs[e].preview
           m == [s EXCEPT !.strip[g] = placed]
<1>1. /\ s.docs \in [Docs -> Doc] /\ s.strip \in [Groups(s) -> Strip] /\ g \in Ids
      /\ s.recent \in Seq(Views) /\ IsInjective(s.recent)
      /\ strip \in Strip /\ IsInjective(strip.tabs)
  BY PartsTyped DEF Sound, Ordered
<1>2. /\ placed \in Strip /\ IsInjective(placed.tabs)
      /\ placed.sel \in DOMAIN placed.tabs
      /\ placed.tabs # <<>> /\ placed.tabs[placed.sel] = d
      /\ Range(placed.tabs) = Range(strip.tabs) \cup {d}
  <2>1. strip \in Strip /\ IsInjective(strip.tabs)
    BY <1>1
  <2> HIDE DEF strip
  <2>2. LET p == With(strip, d, at)
        IN /\ p \in Strip /\ IsInjective(p.tabs)
           /\ p.sel \in DOMAIN p.tabs
           /\ p.tabs # <<>> /\ p.tabs[p.sel] = d
           /\ Range(p.tabs) = Range(strip.tabs) \cup {d}
    BY <2>1, Placing
  <2> QED
    BY <2>2
<1>3. ViewAdded(s, g, d, at) =
        LET t == Touched(m, g, d)
        IN IF Shared(t, d) \/ otherPreview THEN [t EXCEPT !.docs[d].preview = FALSE] ELSE t
  BY DEF ViewAdded, InGroup, With
<1> HIDE DEF placed
<1>4. m \in Window(Groups(s)) /\ m.recent = s.recent /\ m.docs = s.docs
  BY <1>2 DEF Sound, WellTyped, Window
<1> HIDE DEF m
<1>5. PICK q \in Seq(Views) :
        /\ Touched(m, g, d) = [m EXCEPT !.recent = q]
        /\ IsInjective(q)
        /\ Range(q) = Range(s.recent) \cup {<<g, d>>}
  BY <1>1, <1>4, TouchedIs
<1> USE DEF m
<1> DEFINE plain == [m EXCEPT !.recent = q]
           ends == Shared(plain, d) \/ otherPreview
           docs == IF ends THEN [s.docs EXCEPT ![d].preview = FALSE] ELSE s.docs
           t == [s EXCEPT !.docs = docs, !.strip = [@ EXCEPT ![g] = placed], !.recent = q]
<1>6. plain.strip = [s.strip EXCEPT ![g] = placed] /\ plain.docs = s.docs
  BY DEF Sound, WellTyped, Window
<1> HIDE DEF otherPreview
<1>7. ViewAdded(s, g, d, at) = t
  <2>1. ViewAdded(s, g, d, at) = IF ends THEN [plain EXCEPT !.docs[d].preview = FALSE] ELSE plain
    BY <1>3, <1>5
  <2>2. [plain EXCEPT !.docs[d].preview = FALSE] =
          [s EXCEPT !.docs = [s.docs EXCEPT ![d].preview = FALSE], !.strip = [@ EXCEPT ![g] = placed], !.recent = q]
    BY DEF Sound, WellTyped, Window
  <2>3. plain = [s EXCEPT !.docs = s.docs, !.strip = [@ EXCEPT ![g] = placed], !.recent = q]
    BY DEF Sound, WellTyped, Window
  <2> HIDE DEF plain, ends
  <2>4. CASE ends
    BY <2>1, <2>2, <2>4
  <2>5. CASE ~ends
    BY <2>1, <2>3, <2>5
  <2> QED
    BY <2>4, <2>5
<1> HIDE DEF ends, m, plain
<1>8. docs \in [Docs -> Doc]
      /\ \A e \in Docs : /\ docs[e].open = s.docs[e].open
                         /\ docs[e].path = s.docs[e].path
                         /\ docs[e].dirty = s.docs[e].dirty
                         /\ docs[e].preview => s.docs[e].preview
                         /\ e # d => docs[e] = s.docs[e]
                         /\ e = d /\ docs[e].preview => ~ends
                         /\ ~s.docs[e].open => docs[e] = s.docs[e]
  <2>1. CASE ends
    <3>1. docs = [s.docs EXCEPT ![d].preview = FALSE]
      BY <2>1
    <3> QED
      BY <3>1, <1>1, <2>1 DEF Doc
  <2>2. CASE ~ends
    BY <2>2, <1>1
  <2> QED
    BY <2>1, <2>2
<1> HIDE DEF docs
<1>9. \A h \in Ids, e \in Docs :
        <<h, e>> \in Range(q) <=>
          IF h = g THEN e \in Range(placed.tabs) ELSE <<h, e>> \in Range(s.recent)
  <2> SUFFICES ASSUME NEW h \in Ids, NEW e \in Docs
               PROVE  <<h, e>> \in Range(q) <=>
                        IF h = g THEN e \in Range(placed.tabs) ELSE <<h, e>> \in Range(s.recent)
    OBVIOUS
  <2>1. <<h, e>> \in Range(s.recent) <=> h \in Groups(s) /\ InGroup(s, h, e)
    BY DEF Sound, Ordered
  <2>2. <<h, e>> \in Range(q) <=> <<h, e>> \in Range(s.recent) \/ (h = g /\ e = d)
    BY <1>5
  <2>3. CASE h = g
    BY <2>1, <2>2, <2>3, <1>2 DEF InGroup
  <2>4. CASE h # g
    BY <2>2, <2>4
  <2> QED
    BY <2>3, <2>4
<1>10. /\ WellTyped(t)
       /\ t.docs = docs /\ t.active = s.active /\ t.recent = q
       /\ t.tree = s.tree /\ t.shown = s.shown /\ t.made = s.made
       /\ Groups(t) = Groups(s)
       /\ \A h \in Groups(s) : t.strip[h] = IF h = g THEN placed ELSE s.strip[h]
       /\ \A h \in Groups(s), e \in Docs :
            InGroup(t, h, e) <=> IF h = g THEN e \in Range(placed.tabs) ELSE InGroup(s, h, e)
       /\ \A b : Stored(t, b) /\ OnePreview(t) => Sound(t, b)
  BY <1>1, <1>2, <1>5, <1>8, <1>9, StripChanged
<1> HIDE DEF t
<1>11. \A h \in Groups(s), e \in Docs : InGroup(t, h, e) <=> InGroup(s, h, e) \/ (h = g /\ e = d)
  BY <1>2, <1>10 DEF InGroup
<1>12. \A e \in Docs : Viewed(t, e) <=> Viewed(s, e) \/ e = d
  BY <1>10, <1>11 DEF Viewed
<1>13. Stored(t, Nil)
  <2>1. Nil \notin Docs
    BY TabGroupsAssumption
  <2> SUFFICES ASSUME NEW e \in Docs
               PROVE  /\ Viewed(t, e) => t.docs[e].open
                      /\ t.docs[e].open => Viewed(t, e)
                      /\ t.docs[e].open \/ t.docs[e] = NoDoc
    BY <2>1 DEF Stored
  <2>2. /\ Viewed(s, e) \/ e = aside => s.docs[e].open
        /\ s.docs[e].open => Viewed(s, e) \/ e = aside
        /\ s.docs[e].open \/ s.docs[e] = NoDoc
    BY DEF Sound, Stored
  <2> QED
    BY <2>1, <2>2, <1>8, <1>10, <1>12
<1>14. ~ends => /\ \A h \in Groups(s) : InGroup(t, h, d) => h = g
                /\ \A e \in Docs : InGroup(s, g, e) /\ e # d => ~s.docs[e].preview
  <2> SUFFICES ASSUME ~ends
               PROVE  /\ \A h \in Groups(s) : InGroup(t, h, d) => h = g
                      /\ \A e \in Docs : InGroup(s, g, e) /\ e # d => ~s.docs[e].preview
    OBVIOUS
  <2>1. \A h, k \in ViewsOf(plain, d) : h = k
    BY DEF ends, Shared
  <2>2. plain.strip = t.strip
    <3>1. t.strip = [s.strip EXCEPT ![g] = placed]
      BY DEF t, Sound, WellTyped, Window
    <3> QED
      BY <3>1, <1>6
  <2>3. ViewsOf(plain, d) = {h \in Groups(s) : InGroup(t, h, d)}
    BY <1>10, <2>2 DEF ViewsOf, Groups, InGroup
  <2>4. \A h \in Groups(s) : InGroup(t, h, d) => h = g
    BY <2>1, <2>3, <1>11
  <2>5. \A e \in Docs : InGroup(s, g, e) /\ e # d => ~s.docs[e].preview
    BY DEF ends, otherPreview, InGroup
  <2> QED
    BY <2>4, <2>5
<1>15. OnePreview(t)
  <2> SUFFICES ASSUME NEW h \in Groups(s), NEW e \in Docs, IsPreview(t, h, e)
               PROVE  /\ ~t.docs[e].dirty
                      /\ \A k \in Groups(s) : InGroup(t, k, e) => k = h
                      /\ \A x \in Docs : IsPreview(t, h, x) => x = e
    BY <1>10 DEF OnePreview
  <2>1. InGroup(t, h, e) /\ docs[e].preview
    BY <1>10 DEF IsPreview
  <2>2. CASE e = d
    <3>1. ~ends
      BY <2>1, <2>2, <1>8
    <3>2. h = g
      BY <2>1, <2>2, <3>1, <1>14
    <3>3. ASSUME NEW x \in Docs, IsPreview(t, g, x), x # d PROVE FALSE
      <4>1. InGroup(s, g, x) /\ s.docs[x].preview
        BY <3>3, <1>8, <1>10, <1>11 DEF IsPreview
      <4> QED
        BY <3>1, <3>3, <4>1, <1>14
    <3>4. ~t.docs[e].dirty
      BY <2>1, <2>2, <1>8, <1>10
    <3> QED
      BY <2>2, <3>1, <3>2, <3>3, <3>4, <1>14
  <2>3. CASE e # d
    <3>1. IsPreview(s, h, e)
      BY <2>1, <2>3, <1>8, <1>11 DEF IsPreview
    <3>2. /\ ~s.docs[e].dirty
          /\ \A k \in Groups(s) : InGroup(s, k, e) => k = h
          /\ \A x \in Docs : IsPreview(s, h, x) => x = e
      BY <3>1 DEF Sound, OnePreview
    <3>3. ASSUME NEW x \in Docs, IsPreview(t, h, x), x # e PROVE FALSE
      <4>1. InGroup(t, h, x) /\ docs[x].preview
        BY <3>3, <1>10 DEF IsPreview
      <4>2. CASE x = d
        <5>1. ~ends
          BY <4>1, <4>2, <1>8
        <5>2. h = g
          BY <4>1, <4>2, <5>1, <1>14
        <5> QED
          BY <2>3, <3>1, <5>1, <5>2, <1>14 DEF IsPreview
      <4>3. CASE x # d
        <5>1. IsPreview(s, h, x)
          BY <4>1, <4>3, <1>8, <1>11 DEF IsPreview
        <5> QED
          BY <3>2, <3>3, <5>1
      <4> QED
        BY <4>2, <4>3
    <3>4. \A k \in Groups(s) : InGroup(t, k, e) => k = h
      BY <2>3, <3>2, <1>11
    <3> QED
      BY <3>2, <3>3, <3>4, <1>8, <1>10
  <2> QED
    BY <2>2, <2>3
<1>16. Sound(t, Nil)
  BY <1>10, <1>13, <1>15
<1>17. Selected(t, g) = d /\ InGroup(t, g, d)
  BY <1>2, <1>10, <1>11 DEF Selected
<1> QED
  BY <1>7, <1>8, <1>10, <1>16, <1>17

\* The tab strip of a new document: at the end, selected.
LEMMA PushedSound ==
  ASSUME NEW s, Sound(s, Nil), NEW d \in Docs, ~s.docs[d].open, NEW doc \in Doc, doc.open,
         doc.preview => ~doc.dirty /\ \A e \in Docs : ~IsPreview(s, s.active, e)
  PROVE  LET t == Pushed(s, d, doc)
         IN /\ Sound(t, Nil)
            /\ Groups(t) = Groups(s) /\ t.active = s.active
            /\ t.tree = s.tree /\ t.shown = s.shown /\ t.made = s.made
            /\ \A h \in Groups(s) : h # s.active => t.strip[h] = s.strip[h]
            /\ InGroup(t, s.active, d) /\ Selected(t, s.active) = d
            /\ t.docs = [s.docs EXCEPT ![d] = doc]
<1> DEFINE g == s.active
           tabs == Append(s.strip[g].tabs, d)
           placed == [tabs |-> tabs, sel |-> Len(tabs)]
           docs == [s.docs EXCEPT ![d] = doc]
           m == [s EXCEPT !.docs[d] = doc, !.strip[g] = placed]
<1>1. /\ s.docs \in [Docs -> Doc] /\ s.strip \in [Groups(s) -> Strip] /\ g \in Ids
      /\ g \in Groups(s) /\ s.recent \in Seq(Views) /\ IsInjective(s.recent)
      /\ s.strip[g].tabs \in Seq(Docs) /\ IsInjective(s.strip[g].tabs)
      /\ s \in Window(Groups(s))
  BY PartsTyped DEF Sound, Ordered, WellTyped
<1>2. ~Viewed(s, d)
  BY DEF Sound, Stored
<1>3. d \notin Range(s.strip[g].tabs)
  BY <1>1, <1>2 DEF Viewed, InGroup
<1>4. /\ tabs \in Seq(Docs)
      /\ Len(tabs) = Len(s.strip[g].tabs) + 1
      /\ IsInjective(tabs)
      /\ Range(tabs) = Range(s.strip[g].tabs) \cup {d}
      /\ tabs[Len(tabs)] = d
  BY <1>1, <1>3, AppendMore, SMTT(60)
<1>5. Pushed(s, d, doc) = Touched(m, g, d)
  BY DEF Pushed
<1> HIDE DEF g, tabs
<1>6. placed \in Strip /\ placed.tabs = tabs /\ placed.sel = Len(tabs)
      /\ Len(tabs) \in DOMAIN tabs /\ tabs # <<>>
  BY <1>1, <1>4 DEF Strip
<1> HIDE DEF placed
<1>7. docs \in [Docs -> Doc]
      /\ \A e \in Docs : docs[e] = IF e = d THEN doc ELSE s.docs[e]
  BY <1>1
<1>8. m = [s EXCEPT !.docs = docs, !.strip = [@ EXCEPT ![g] = placed]]
  BY <1>1 DEF Window
<1> HIDE DEF m, docs
<1>9. m \in Window(Groups(s)) /\ m.recent = s.recent
  BY <1>1, <1>6, <1>7, <1>8 DEF Window
<1>10. PICK q \in Seq(Views) :
         /\ Touched(m, g, d) = [m EXCEPT !.recent = q]
         /\ IsInjective(q)
         /\ Range(q) = Range(s.recent) \cup {<<g, d>>}
  BY <1>1, <1>9, TouchedIs
<1> DEFINE t == [s EXCEPT !.docs = docs, !.strip = [@ EXCEPT ![g] = placed], !.recent = q]
<1>11. Pushed(s, d, doc) = t
  BY <1>1, <1>5, <1>8, <1>10 DEF Window
<1>12. \A h \in Ids, e \in Docs :
         <<h, e>> \in Range(q) <=>
           IF h = g THEN e \in Range(placed.tabs) ELSE <<h, e>> \in Range(s.recent)
  <2> SUFFICES ASSUME NEW h \in Ids, NEW e \in Docs
               PROVE  <<h, e>> \in Range(q) <=>
                        IF h = g THEN e \in Range(placed.tabs) ELSE <<h, e>> \in Range(s.recent)
    OBVIOUS
  <2>1. <<h, e>> \in Range(s.recent) <=> h \in Groups(s) /\ InGroup(s, h, e)
    BY DEF Sound, Ordered
  <2>2. <<h, e>> \in Range(q) <=> <<h, e>> \in Range(s.recent) \/ (h = g /\ e = d)
    BY <1>10
  <2>3. CASE h = g
    BY <2>1, <2>2, <2>3, <1>1, <1>4, <1>6 DEF InGroup
  <2>4. CASE h # g
    BY <2>2, <2>4
  <2> QED
    BY <2>3, <2>4
<1>13. /\ WellTyped(t)
       /\ t.docs = docs /\ t.active = s.active /\ t.recent = q
       /\ t.tree = s.tree /\ t.shown = s.shown /\ t.made = s.made
       /\ Groups(t) = Groups(s)
       /\ \A h \in Groups(s) : t.strip[h] = IF h = g THEN placed ELSE s.strip[h]
       /\ \A h \in Groups(s), e \in Docs :
            InGroup(t, h, e) <=> IF h = g THEN e \in Range(placed.tabs) ELSE InGroup(s, h, e)
       /\ \A b : Stored(t, b) /\ OnePreview(t) => Sound(t, b)
  <2>1. /\ g \in Groups(s) /\ docs \in [Docs -> Doc] /\ placed \in Strip /\ q \in Seq(Views)
        /\ placed.sel \in DOMAIN placed.tabs
        /\ IsInjective(placed.tabs) /\ IsInjective(q)
    BY <1>1, <1>4, <1>6, <1>7, <1>10
  <2> QED
    BY <2>1, <1>12, StripChanged
<1> HIDE DEF t
<1>14. \A h \in Groups(s), e \in Docs : InGroup(t, h, e) <=> InGroup(s, h, e) \/ (h = g /\ e = d)
  BY <1>4, <1>6, <1>13 DEF InGroup
<1>15. \A e \in Docs : Viewed(t, e) <=> Viewed(s, e) \/ e = d
  BY <1>1, <1>13, <1>14 DEF Viewed
<1>16. Stored(t, Nil)
  <2>1. Nil \notin Docs
    BY TabGroupsAssumption
  <2> QED
    BY <2>1, <1>7, <1>13, <1>15 DEF Sound, Stored
<1>17. \A h \in Groups(s) : ~InGroup(s, h, d)
  BY <1>2 DEF Viewed
<1>18. OnePreview(t)
  <2> SUFFICES ASSUME NEW h \in Groups(s), NEW e \in Docs, IsPreview(t, h, e)
               PROVE  /\ ~t.docs[e].dirty
                      /\ \A k \in Groups(s) : InGroup(t, k, e) => k = h
                      /\ \A x \in Docs : IsPreview(t, h, x) => x = e
    BY <1>13 DEF OnePreview
  <2>1. InGroup(t, h, e) /\ docs[e].preview
    BY <1>13 DEF IsPreview
  <2>2. CASE e = d
    <3>1. h = g /\ doc.preview
      BY <2>1, <2>2, <1>7, <1>14, <1>17
    <3>2. ASSUME NEW x \in Docs, IsPreview(t, g, x), x # d PROVE FALSE
      <4>1. IsPreview(s, g, x)
        BY <3>2, <1>1, <1>7, <1>13, <1>14 DEF IsPreview
      <4> QED
        BY <3>1, <4>1 DEF g
    <3> QED
      BY <2>2, <3>1, <3>2, <1>7, <1>13, <1>14, <1>17
  <2>3. CASE e # d
    <3>1. IsPreview(s, h, e)
      BY <2>1, <2>3, <1>7, <1>14 DEF IsPreview
    <3>2. /\ ~s.docs[e].dirty
          /\ \A k \in Groups(s) : InGroup(s, k, e) => k = h
          /\ \A x \in Docs : IsPreview(s, h, x) => x = e
      BY <3>1 DEF Sound, OnePreview
    <3>3. ASSUME NEW x \in Docs, IsPreview(t, h, x), x # e PROVE FALSE
      <4>1. InGroup(t, h, x) /\ docs[x].preview
        BY <3>3, <1>13 DEF IsPreview
      <4>2. CASE x = d
        BY <3>1, <4>1, <4>2, <1>7, <1>14, <1>17 DEF g
      <4>3. CASE x # d
        BY <3>2, <3>3, <4>1, <4>3, <1>7, <1>14 DEF IsPreview
      <4> QED
        BY <4>2, <4>3
    <3> QED
      BY <2>3, <3>2, <3>3, <1>7, <1>13, <1>14
  <2> QED
    BY <2>2, <2>3
<1>19. Sound(t, Nil)
  BY <1>13, <1>16, <1>18
<1>20. Selected(t, g) = d /\ InGroup(t, g, d)
  BY <1>1, <1>4, <1>6, <1>13, <1>14 DEF Selected
<1>21. \A h \in Groups(s) : h # g => t.strip[h] = s.strip[h]
  BY <1>13
<1> QED
  BY <1>11, <1>13, <1>19, <1>20, <1>21 DEF g, docs

\* A document takes the place of one that no other group shows.
LEMMA ReplacedSound ==
  ASSUME NEW s, Sound(s, Nil), NEW d \in Docs, ~s.docs[d].open, NEW doc \in Doc, doc.open,
         NEW old \in Docs, InGroup(s, s.active, old),
         \A h \in Groups(s) : InGroup(s, h, old) => h = s.active,
         doc.preview => ~doc.dirty /\ \A e \in Docs : IsPreview(s, s.active, e) => e = old
  PROVE  LET t == Replaced(s, old, d, doc)
         IN /\ Sound(t, Nil)
            /\ Groups(t) = Groups(s) /\ t.active = s.active
            /\ t.tree = s.tree /\ t.shown = s.shown /\ t.made = s.made
            /\ \A h \in Groups(s) : h # s.active => t.strip[h] = s.strip[h]
            /\ InGroup(t, s.active, d) /\ Selected(t, s.active) = d
            /\ t.docs = [s.docs EXCEPT ![old] = NoDoc, ![d] = doc]
<1> DEFINE g == s.active
           p == IndexOf(old, s.strip[g].tabs)
           tabs == [s.strip[g].tabs EXCEPT ![p] = d]
           placed == [tabs |-> tabs, sel |-> p]
           docs == [s.docs EXCEPT ![old] = NoDoc, ![d] = doc]
           m == [s EXCEPT !.docs[old] = NoDoc, !.docs[d] = doc,
                          !.strip[g] = [tabs |-> ReplaceAt(@.tabs, p, d), sel |-> p]]
<1>1. /\ s.docs \in [Docs -> Doc] /\ s.strip \in [Groups(s) -> Strip] /\ g \in Ids
      /\ g \in Groups(s) /\ s.recent \in Seq(Views) /\ IsInjective(s.recent)
      /\ s.strip[g].tabs \in Seq(Docs) /\ IsInjective(s.strip[g].tabs)
      /\ s \in Window(Groups(s)) /\ s.strip[g] \in Strip
  BY PartsTyped DEF Sound, Ordered, WellTyped
<1>2. ~Viewed(s, d) /\ s.docs[old].open
  BY <1>1 DEF Sound, Stored, Viewed
<1>3. d \notin Range(s.strip[g].tabs) /\ old \in Range(s.strip[g].tabs) /\ d # old
  BY <1>1, <1>2 DEF Viewed, InGroup
<1>4. p \in 1..Len(s.strip[g].tabs) /\ s.strip[g].tabs[p] = old
  BY <1>1, <1>3, IndexFound
<1>5. Replaced(s, old, d, doc) = Touched(Forgotten(m, g, old), g, d)
  BY DEF Replaced
<1> HIDE DEF p
<1>6. /\ tabs \in Seq(Docs)
      /\ Len(tabs) = Len(s.strip[g].tabs)
      /\ IsInjective(tabs)
      /\ Range(tabs) = (Range(s.strip[g].tabs) \ {s.strip[g].tabs[p]}) \cup {d}
      /\ tabs[p] = d
  BY <1>1, <1>3, <1>4, ReplacedAt, SMTT(60)
<1>8. m = [s EXCEPT !.docs = docs, !.strip = [@ EXCEPT ![g] = placed]]
  BY <1>1 DEF Window, ReplaceAt
<1> HIDE DEF g, tabs, m
<1>9. placed \in Strip /\ placed.tabs = tabs /\ placed.sel = p
      /\ p \in DOMAIN tabs /\ tabs # <<>>
  BY <1>1, <1>4, <1>6 DEF Strip
<1> HIDE DEF placed
<1>10. NoDoc \in Doc
  BY DEF NoDoc, Doc
<1>11. docs \in [Docs -> Doc]
       /\ \A e \in Docs : docs[e] = IF e = d THEN doc ELSE IF e = old THEN NoDoc ELSE s.docs[e]
  BY <1>1, <1>10
<1> HIDE DEF docs
<1>12. m \in Window(Groups(s)) /\ m.recent = s.recent
  BY <1>1, <1>8, <1>9, <1>11 DEF Window
<1> DEFINE r == Without(s.recent, <<g, old>>)
           n == [m EXCEPT !.recent = r]
<1>13. r \in Seq(Views) /\ IsInjective(r) /\ Range(r) = Range(s.recent) \ {<<g, old>>}
  <2>1. s.recent \in Seq(Views) /\ IsInjective(s.recent)
    BY <1>1
  <2> QED
    BY <2>1, WithoutView
<1>14. Forgotten(m, g, old) = n
  BY <1>12 DEF Forgotten, Window
<1> HIDE DEF r
<1>15. n \in Window(Groups(s)) /\ n.recent = r
  BY <1>12, <1>13 DEF Window
<1> HIDE DEF n
<1>16. PICK q \in Seq(Views) :
         /\ Touched(n, g, d) = [n EXCEPT !.recent = q]
         /\ IsInjective(q)
         /\ Range(q) = Range(r) \cup {<<g, d>>}
  <2>1. n \in Window(Groups(s)) /\ IsInjective(n.recent) /\ n.recent = r /\ g \in Ids
    BY <1>1, <1>13, <1>15
  <2>2. \E o \in Seq(Views) : /\ Touched(n, g, d) = [n EXCEPT !.recent = o]
                              /\ IsInjective(o)
                              /\ Range(o) = Range(n.recent) \cup {<<g, d>>}
    BY <2>1, TouchedIs
  <2> QED
    BY <2>1, <2>2
<1> DEFINE t == [s EXCEPT !.docs = docs, !.strip = [@ EXCEPT ![g] = placed], !.recent = q]
<1>17. Replaced(s, old, d, doc) = t
  <2>1. Replaced(s, old, d, doc) = [n EXCEPT !.recent = q]
    BY <1>5, <1>14, <1>16
  <2>2. n = [m EXCEPT !.recent = r]
    BY DEF n
  <2>3. n = [s EXCEPT !.docs = docs, !.strip = [@ EXCEPT ![g] = placed], !.recent = r]
    BY <1>1, <1>8, <2>2 DEF Window
  <2> QED
    BY <1>1, <2>1, <2>3 DEF Window
<1>18. \A h \in Ids, e \in Docs :
         <<h, e>> \in Range(q) <=>
           IF h = g THEN e \in Range(placed.tabs) ELSE <<h, e>> \in Range(s.recent)
  <2> SUFFICES ASSUME NEW h \in Ids, NEW e \in Docs
               PROVE  <<h, e>> \in Range(q) <=>
                        IF h = g THEN e \in Range(placed.tabs) ELSE <<h, e>> \in Range(s.recent)
    OBVIOUS
  <2>1. <<h, e>> \in Range(s.recent) <=> h \in Groups(s) /\ InGroup(s, h, e)
    BY DEF Sound, Ordered
  <2>2. <<h, e>> \in Range(q) <=>
          (<<h, e>> \in Range(s.recent) /\ ~(h = g /\ e = old)) \/ (h = g /\ e = d)
    BY <1>13, <1>16
  <2>3. CASE h = g
    BY <2>1, <2>2, <2>3, <1>1, <1>4, <1>6, <1>9 DEF InGroup
  <2>4. CASE h # g
    BY <2>2, <2>4
  <2> QED
    BY <2>3, <2>4
<1>19. /\ WellTyped(t)
       /\ t.docs = docs /\ t.active = s.active /\ t.recent = q
       /\ t.tree = s.tree /\ t.shown = s.shown /\ t.made = s.made
       /\ Groups(t) = Groups(s)
       /\ \A h \in Groups(s) : t.strip[h] = IF h = g THEN placed ELSE s.strip[h]
       /\ \A h \in Groups(s), e \in Docs :
            InGroup(t, h, e) <=> IF h = g THEN e \in Range(placed.tabs) ELSE InGroup(s, h, e)
       /\ \A b : Stored(t, b) /\ OnePreview(t) => Sound(t, b)
  BY <1>1, <1>6, <1>9, <1>11, <1>16, <1>18, StripChanged
<1> HIDE DEF t
<1>20. \A h \in Groups(s) : ~InGroup(s, h, d) /\ (InGroup(s, h, old) <=> h = g)
  BY <1>2 DEF Viewed, g
<1>21. \A h \in Groups(s), e \in Docs :
         InGroup(t, h, e) <=> (InGroup(s, h, e) /\ e # old) \/ (h = g /\ e = d)
  BY <1>4, <1>6, <1>9, <1>19, <1>20 DEF InGroup
<1>22. \A e \in Docs : Viewed(t, e) <=> (Viewed(s, e) /\ e # old) \/ e = d
  BY <1>1, <1>19, <1>21 DEF Viewed
<1>23. Stored(t, Nil)
  <2>1. Nil \notin Docs /\ ~NoDoc.open
    BY TabGroupsAssumption DEF NoDoc
  <2> QED
    BY <2>1, <1>3, <1>11, <1>19, <1>22 DEF Sound, Stored
<1>24. ~NoDoc.preview
  BY DEF NoDoc
<1>25. OnePreview(t)
  <2> SUFFICES ASSUME NEW h \in Groups(s), NEW e \in Docs, IsPreview(t, h, e)
               PROVE  /\ ~t.docs[e].dirty
                      /\ \A k \in Groups(s) : InGroup(t, k, e) => k = h
                      /\ \A x \in Docs : IsPreview(t, h, x) => x = e
    BY <1>19 DEF OnePreview
  <2>1. InGroup(t, h, e) /\ docs[e].preview
    BY <1>19 DEF IsPreview
  <2>2. CASE e = d
    <3>1. h = g /\ doc.preview
      BY <2>1, <2>2, <1>11, <1>20, <1>21
    <3>2. ASSUME NEW x \in Docs, IsPreview(t, g, x), x # d PROVE FALSE
      <4>1. IsPreview(s, g, x) /\ x # old
        BY <3>2, <1>1, <1>11, <1>19, <1>21 DEF IsPreview
      <4> QED
        BY <3>1, <4>1 DEF g
    <3> QED
      BY <2>2, <3>1, <3>2, <1>11, <1>19, <1>20, <1>21
  <2>3. CASE e # d
    <3>1. IsPreview(s, h, e) /\ e # old
      BY <2>1, <2>3, <1>11, <1>21 DEF IsPreview
    <3>2. /\ ~s.docs[e].dirty
          /\ \A k \in Groups(s) : InGroup(s, k, e) => k = h
          /\ \A x \in Docs : IsPreview(s, h, x) => x = e
      BY <3>1 DEF Sound, OnePreview
    <3>3. ASSUME NEW x \in Docs, IsPreview(t, h, x), x # e PROVE FALSE
      <4>1. InGroup(t, h, x) /\ docs[x].preview
        BY <3>3, <1>19 DEF IsPreview
      <4>2. CASE x = d
        BY <3>1, <4>1, <4>2, <1>11, <1>20, <1>21 DEF g
      <4>3. CASE x # d
        BY <3>2, <3>3, <4>1, <4>3, <1>11, <1>21, <1>24 DEF IsPreview
      <4> QED
        BY <4>2, <4>3
    <3> QED
      BY <2>3, <3>1, <3>2, <3>3, <1>11, <1>19, <1>21
  <2> QED
    BY <2>2, <2>3
<1>26. Sound(t, Nil)
  BY <1>19, <1>23, <1>25
<1>27. Selected(t, g) = d /\ InGroup(t, g, d)
  BY <1>1, <1>6, <1>9, <1>19, <1>21 DEF Selected
<1>28. \A h \in Groups(s) : h # g => t.strip[h] = s.strip[h]
  BY <1>19
<1> QED
  BY <1>17, <1>19, <1>26, <1>27, <1>28 DEF g, docs

\* Where the selection goes once a tab is out of its strip is a tab again, unless none
\* is left.
LEMMA SelectionAfter ==
  ASSUME NEW tabs \in Seq(Docs), NEW p \in 1..Len(tabs), NEW selected \in 1..Len(tabs)
  PROVE  LET left == RemoveAt(tabs, p)
             ok(sel) == sel \in Nat /\ (sel \in 1..Len(left) \/ (left = <<>> /\ sel = 1))
         IN /\ ok(SelectAfterRemoval(left, p))
            /\ p < selected => ok(selected - 1)
            /\ p > selected => ok(selected)
<1> DEFINE left == RemoveAt(tabs, p)
<1>1. left \in Seq(Docs) /\ Len(left) = Len(tabs) - 1
  BY RemoveAtPlaces
<1> HIDE DEF left
<1>2. Len(tabs) \in Nat
  OBVIOUS
<1>3. left = <<>> => Len(tabs) = 1
  BY <1>1, <1>2
<1>4. left # <<>> => Len(left) \in Nat \ {0}
  BY <1>1
<1>5. SelectAfterRemoval(left, p) = IF left = <<>> THEN 1 ELSE IF p < Len(left) THEN p ELSE Len(left)
  BY DEF SelectAfterRemoval, Least
<1>6. left # <<>> => SelectAfterRemoval(left, p) \in 1..Len(left)
  BY <1>1, <1>2, <1>4, <1>5
<1>7. left = <<>> => SelectAfterRemoval(left, p) = 1
  BY <1>5
<1>8. p < selected => selected - 1 \in 1..Len(left)
  BY <1>1, <1>2
<1>9. p > selected => selected \in 1..Len(left)
  BY <1>1, <1>2
<1>10. \A i \in 1..Len(left) : i \in Nat
  BY <1>1
<1> QED
  BY <1>6, <1>7, <1>8, <1>9, <1>10 DEF left

\* A view is taken out of its strip and of the order of use.
LEMMA ViewTaken ==
  ASSUME NEW s, Sound(s, Nil), NEW g \in Groups(s), NEW d \in Docs, InGroup(s, g, d),
         NEW sel \in Nat,
         LET left == RemoveAt(s.strip[g].tabs, IndexOf(d, s.strip[g].tabs))
         IN sel \in 1..Len(left) \/ (left = <<>> /\ sel = 1)
  PROVE  LET left == RemoveAt(s.strip[g].tabs, IndexOf(d, s.strip[g].tabs))
             t == Forgotten([s EXCEPT !.strip[g] = [tabs |-> left, sel |-> sel]], g, d)
         IN /\ Sound(t, d)
            /\ t.docs = s.docs /\ t.active = s.active
            /\ t.tree = s.tree /\ t.shown = s.shown /\ t.made = s.made
            /\ Groups(t) = Groups(s)
            /\ \A h \in Groups(s) : h # g => t.strip[h] = s.strip[h]
            /\ \A h \in Groups(s), e \in Docs :
                 InGroup(t, h, e) <=> InGroup(s, h, e) /\ ~(h = g /\ e = d)
<1> DEFINE p == IndexOf(d, s.strip[g].tabs)
           left == RemoveAt(s.strip[g].tabs, p)
           placed == [tabs |-> left, sel |-> sel]
           q == Without(s.recent, <<g, d>>)
           t == [s EXCEPT !.docs = s.docs, !.strip = [@ EXCEPT ![g] = placed], !.recent = q]
<1>1. /\ s.docs \in [Docs -> Doc] /\ s.strip \in [Groups(s) -> Strip] /\ g \in Ids
      /\ s.recent \in Seq(Views) /\ IsInjective(s.recent)
      /\ s.strip[g].tabs \in Seq(Docs) /\ IsInjective(s.strip[g].tabs)
      /\ s \in Window(Groups(s))
  BY PartsTyped DEF Sound, Ordered, WellTyped
<1>2. Forgotten([s EXCEPT !.strip[g] = placed], g, d) = t
  BY <1>1 DEF Forgotten, Window
<1>3. p \in 1..Len(s.strip[g].tabs) /\ s.strip[g].tabs[p] = d
  BY <1>1, IndexFound DEF InGroup
<1> HIDE DEF p
<1>4. /\ left \in Seq(Docs)
      /\ IsInjective(left)
      /\ Range(left) = Range(s.strip[g].tabs) \ {d}
  BY <1>1, <1>3, RemoveAtRest
<1>5. sel \in 1..Len(left) \/ (left = <<>> /\ sel = 1)
  BY DEF p
<1> HIDE DEF left
<1>6. placed \in Strip /\ placed.tabs = left /\ placed.sel = sel
  BY <1>4 DEF Strip
<1>7. sel \in DOMAIN left \/ placed = NoTabs
  <2>1. CASE sel \in 1..Len(left)
    BY <2>1, <1>4
  <2>2. CASE left = <<>> /\ sel = 1
    BY <2>2 DEF NoTabs
  <2> QED
    BY <2>1, <2>2, <1>5
<1> HIDE DEF placed
<1>8. q \in Seq(Views) /\ IsInjective(q) /\ Range(q) = Range(s.recent) \ {<<g, d>>}
  <2>1. s.recent \in Seq(Views) /\ IsInjective(s.recent)
    BY <1>1
  <2> QED
    BY <2>1, WithoutView
<1> HIDE DEF q
<1>9. \A h \in Ids, e \in Docs :
        <<h, e>> \in Range(q) <=>
          IF h = g THEN e \in Range(placed.tabs) ELSE <<h, e>> \in Range(s.recent)
  <2> SUFFICES ASSUME NEW h \in Ids, NEW e \in Docs
               PROVE  <<h, e>> \in Range(q) <=>
                        IF h = g THEN e \in Range(placed.tabs) ELSE <<h, e>> \in Range(s.recent)
    OBVIOUS
  <2>1. <<h, e>> \in Range(s.recent) <=> h \in Groups(s) /\ InGroup(s, h, e)
    BY DEF Sound, Ordered
  <2>2. <<h, e>> \in Range(q) <=> <<h, e>> \in Range(s.recent) /\ ~(h = g /\ e = d)
    BY <1>8
  <2>3. CASE h = g
    BY <2>1, <2>2, <2>3, <1>1, <1>4, <1>6 DEF InGroup
  <2>4. CASE h # g
    BY <2>2, <2>4
  <2> QED
    BY <2>3, <2>4
<1>10. /\ WellTyped(t)
       /\ t.docs = s.docs /\ t.active = s.active /\ t.recent = q
       /\ t.tree = s.tree /\ t.shown = s.shown /\ t.made = s.made
       /\ Groups(t) = Groups(s)
       /\ \A h \in Groups(s) : t.strip[h] = IF h = g THEN placed ELSE s.strip[h]
       /\ \A h \in Groups(s), e \in Docs :
            InGroup(t, h, e) <=> IF h = g THEN e \in Range(placed.tabs) ELSE InGroup(s, h, e)
       /\ \A b : Stored(t, b) /\ OnePreview(t) => Sound(t, b)
  <2>1. /\ s.docs \in [Docs -> Doc] /\ placed \in Strip /\ q \in Seq(Views)
        /\ placed.sel \in DOMAIN placed.tabs \/ placed = NoTabs
        /\ IsInjective(placed.tabs) /\ IsInjective(q)
    BY <1>1, <1>4, <1>6, <1>7, <1>8
  <2> QED
    BY <2>1, <1>9, StripChanged
<1> HIDE DEF t
<1>11. \A h \in Groups(s), e \in Docs :
         InGroup(t, h, e) <=> InGroup(s, h, e) /\ ~(h = g /\ e = d)
  BY <1>4, <1>6, <1>10 DEF InGroup
<1>12. \A e \in Docs : e # d => (Viewed(t, e) <=> Viewed(s, e))
  BY <1>10, <1>11 DEF Viewed
<1>13. Viewed(s, d) /\ Nil \notin Docs
  BY TabGroupsAssumption DEF Viewed
<1>14. Stored(t, d)
  BY <1>10, <1>12, <1>13 DEF Sound, Stored
<1>15. OnePreview(t)
  <2>1. \A h \in Groups(s), e \in Docs : IsPreview(t, h, e) => IsPreview(s, h, e)
    BY <1>10, <1>11 DEF IsPreview
  <2> QED
    BY <2>1, <1>10, <1>11 DEF Sound, OnePreview
<1>16. Sound(t, d)
  BY <1>10, <1>14, <1>15
<1>17. \A h \in Groups(s) : h # g => t.strip[h] = s.strip[h]
  BY <1>10
<1>18. Forgotten([s EXCEPT !.strip[g] = [tabs |-> RemoveAt(s.strip[g].tabs, IndexOf(d, s.strip[g].tabs)),
                                           sel |-> sel]], g, d) = t
  BY <1>2 DEF placed, left, p
<1> QED
  BY <1>10, <1>11, <1>16, <1>17, <1>18

\* The document leaves the store with its last view.
LEMMA TabRemovedSound ==
  ASSUME NEW s, Sound(s, Nil), NEW g \in Groups(s), NEW d \in Docs, InGroup(s, g, d)
  PROVE  LET t == TabRemoved(s, g, d)
         IN /\ Sound(t, Nil)
            /\ Groups(t) = Groups(s) /\ t.active = s.active
            /\ t.tree = s.tree /\ t.shown = s.shown /\ t.made = s.made
            /\ \A h \in Groups(s) : h # g => t.strip[h] = s.strip[h]
            /\ \A h \in Groups(s), e \in Docs :
                 InGroup(t, h, e) <=> InGroup(s, h, e) /\ ~(h = g /\ e = d)
            /\ \A e \in Docs : e # d => t.docs[e] = s.docs[e]
            /\ t.docs[d] = s.docs[d] \/ (t.docs[d] = NoDoc /\ ~Viewed(t, d))
<1> DEFINE p == IndexOf(d, s.strip[g].tabs)
           left == RemoveAt(s.strip[g].tabs, p)
           selected == s.strip[g].sel
           sel == IF p = selected THEN SelectAfterRemoval(left, p)
                  ELSE IF p < selected THEN selected - 1 ELSE selected
           t == Forgotten([s EXCEPT !.strip[g] = [tabs |-> left, sel |-> sel]], g, d)
<1>1. TabRemoved(s, g, d) = IF ViewsOf(t, d) = {} THEN [t EXCEPT !.docs[d] = NoDoc] ELSE t
  BY DEF TabRemoved
<1>2. s.strip[g].tabs \in Seq(Docs) /\ (s.strip[g].tabs # <<>> => selected \in 1..Len(s.strip[g].tabs))
  BY PartsTyped DEF Sound
<1>3. p \in 1..Len(s.strip[g].tabs)
  BY <1>2, IndexFound DEF InGroup
<1>4. selected \in 1..Len(s.strip[g].tabs)
  BY <1>2, <1>3
<1>5. sel \in Nat /\ (sel \in 1..Len(left) \/ (left = <<>> /\ sel = 1))
  <2> HIDE DEF p, selected
  <2>1. LET ok(i) == i \in Nat /\ (i \in 1..Len(left) \/ (left = <<>> /\ i = 1))
        IN /\ ok(SelectAfterRemoval(left, p))
           /\ p < selected => ok(selected - 1)
           /\ p > selected => ok(selected)
    BY <1>2, <1>3, <1>4, SelectionAfter
  <2>2. p = selected \/ p < selected \/ p > selected
    BY <1>3, <1>4
  <2> HIDE DEF left
  <2> QED
    BY <2>1, <2>2
<1> HIDE DEF sel
<1>6. /\ Sound(t, d)
      /\ t.docs = s.docs /\ t.active = s.active
      /\ t.tree = s.tree /\ t.shown = s.shown /\ t.made = s.made
      /\ Groups(t) = Groups(s)
      /\ \A h \in Groups(s) : h # g => t.strip[h] = s.strip[h]
      /\ \A h \in Groups(s), e \in Docs :
           InGroup(t, h, e) <=> InGroup(s, h, e) /\ ~(h = g /\ e = d)
  BY <1>5, ViewTaken
<1> HIDE DEF t
<1>7. ViewsOf(t, d) = {} <=> ~Viewed(t, d)
  BY DEF ViewsOf, Viewed
<1>8. CASE Viewed(t, d)
  <2>1. Stored(t, Nil)
    BY <1>6, <1>8, TabGroupsAssumption DEF Sound, Stored
  <2>2. Sound(t, Nil)
    BY <2>1, <1>6 DEF Sound
  <2> QED
    BY <2>2, <1>1, <1>6, <1>7, <1>8
<1>9. CASE ~Viewed(t, d)
  <2> DEFINE docs == [t.docs EXCEPT ![d] = NoDoc]
             u == [t EXCEPT !.docs = docs]
  <2>1. TabRemoved(s, g, d) = u
    BY <1>1, <1>6, <1>7, <1>9 DEF Sound, WellTyped, Window
  <2>2. t.docs \in [Docs -> Doc]
    BY <1>6, PartsTyped DEF Sound
  <2>3. NoDoc \in Doc /\ ~NoDoc.open /\ ~NoDoc.preview
    BY DEF NoDoc, Doc
  <2>4. docs \in [Docs -> Doc] /\ \A e \in Docs : docs[e] = IF e = d THEN NoDoc ELSE s.docs[e]
    BY <1>6, <2>2, <2>3
  <2> HIDE DEF docs
  <2>5. /\ u.docs = docs /\ u.strip = t.strip /\ u.active = t.active /\ u.recent = t.recent
        /\ u.tree = t.tree /\ u.shown = t.shown /\ u.made = t.made
    BY <1>6 DEF Sound, WellTyped, Window
  <2>6. u \in Window(Groups(t))
    BY <1>6, <2>4 DEF Sound, WellTyped, Window
  <2> HIDE DEF u
  <2>7. Groups(u) = Groups(t)
    BY <2>5 DEF Groups
  <2>8. WellTyped(u)
    BY <1>6, <2>5, <2>6, <2>7 DEF Sound, WellTyped
  <2>9. \A h, e : InGroup(u, h, e) <=> InGroup(t, h, e)
    BY <2>5 DEF InGroup
  <2>10. \A e : Viewed(u, e) <=> Viewed(t, e)
    BY <2>7, <2>9 DEF Viewed
  <2>11. Stored(u, Nil)
    BY <1>6, <1>9, <2>3, <2>4, <2>5, <2>10, TabGroupsAssumption DEF Sound, Stored
  <2>12. Ordered(u)
    BY <1>6, <2>5, <2>7, <2>9 DEF Sound, Ordered
  <2>13. \A h \in Groups(t), e \in Docs : IsPreview(u, h, e) => IsPreview(t, h, e) /\ e # d
    BY <1>6, <2>3, <2>4, <2>5, <2>9 DEF IsPreview
  <2>14. OnePreview(u)
    BY <1>6, <2>4, <2>5, <2>7, <2>9, <2>13 DEF Sound, OnePreview
  <2>15. Sound(u, Nil)
    BY <1>6, <2>5, <2>7, <2>8, <2>11, <2>12, <2>14 DEF Sound
  <2>16. ~Viewed(u, d)
    BY <1>9, <2>10
  <2> QED
    BY <1>6, <2>1, <2>4, <2>5, <2>7, <2>9, <2>15, <2>16
<1> QED
  BY <1>8, <1>9

\* move_view.
LEMMA ViewMovedSound ==
  ASSUME NEW s, Sound(s, Nil), NEW from \in Groups(s), NEW d \in Docs, InGroup(s, from, d),
         NEW to \in Groups(s), NEW at \in Nat \ {0}
  PROVE  LET t == ViewMoved(s, from, d, to, at)
         IN /\ Sound(t, Nil)
            /\ Groups(t) = Groups(s) /\ t.active = s.active
            /\ t.tree = s.tree /\ t.shown = s.shown /\ t.made = s.made
            /\ \A h \in Groups(s) : h \notin {from, to} => t.strip[h] = s.strip[h]
            /\ InGroup(t, to, d)
            /\ \A e \in Docs : /\ t.docs[e].open = s.docs[e].open
                               /\ t.docs[e].path = s.docs[e].path
                               /\ t.docs[e].dirty = s.docs[e].dirty
<1> DEFINE p == IndexOf(d, s.strip[from].tabs)
           left == RemoveAt(s.strip[from].tabs, p)
           selected == s.strip[from].sel
           sel == IF p < selected THEN selected - 1 ELSE SelectAfterRemoval(left, p)
           t == Forgotten([s EXCEPT !.strip[from] = [tabs |-> left, sel |-> sel]], from, d)
<1>1. ViewMoved(s, from, d, to, at) = ViewAdded(t, to, d, at)
  BY DEF ViewMoved
<1>2. /\ s.strip[from].tabs \in Seq(Docs)
      /\ (s.strip[from].tabs # <<>> => selected \in 1..Len(s.strip[from].tabs))
  BY PartsTyped DEF Sound
<1>3. p \in 1..Len(s.strip[from].tabs)
  BY <1>2, IndexFound DEF InGroup
<1>4. selected \in 1..Len(s.strip[from].tabs)
  BY <1>2, <1>3
<1>5. sel \in Nat /\ (sel \in 1..Len(left) \/ (left = <<>> /\ sel = 1))
  <2> HIDE DEF p, selected
  <2>1. LET ok(i) == i \in Nat /\ (i \in 1..Len(left) \/ (left = <<>> /\ i = 1))
        IN /\ ok(SelectAfterRemoval(left, p))
           /\ p < selected => ok(selected - 1)
           /\ p > selected => ok(selected)
    BY <1>2, <1>3, <1>4, SelectionAfter
  <2> HIDE DEF left
  <2> QED
    BY <2>1
<1> HIDE DEF sel
<1>6. /\ Sound(t, d)
      /\ t.docs = s.docs /\ t.active = s.active
      /\ t.tree = s.tree /\ t.shown = s.shown /\ t.made = s.made
      /\ Groups(t) = Groups(s)
      /\ \A h \in Groups(s) : h # from => t.strip[h] = s.strip[h]
  BY <1>5, ViewTaken
<1> HIDE DEF t
<1>7. s.docs[d].open
  BY DEF Sound, Stored, Viewed
<1>8. s.docs[d].preview => ~s.docs[d].dirty
  BY DEF Sound, OnePreview, IsPreview
<1>9. /\ Sound(t, d) /\ t.docs[d].open /\ (t.docs[d].preview => ~t.docs[d].dirty) /\ to \in Groups(t)
  BY <1>6, <1>7, <1>8
<1>10. LET u == ViewAdded(t, to, d, at)
       IN /\ Sound(u, Nil)
          /\ Groups(u) = Groups(t) /\ u.active = t.active
          /\ u.tree = t.tree /\ u.shown = t.shown /\ u.made = t.made
          /\ \A h \in Groups(t) : h # to => u.strip[h] = t.strip[h]
          /\ InGroup(u, to, d) /\ Selected(u, to) = d
          /\ \A e \in Docs : /\ u.docs[e].open = t.docs[e].open
                             /\ u.docs[e].path = t.docs[e].path
                             /\ u.docs[e].dirty = t.docs[e].dirty
  <2>1. d \in {d, Nil}
    OBVIOUS
  <2> QED
    BY <1>9, <2>1, ViewAddedSound, SMTT(60)
<1> QED
  BY <1>1, <1>6, <1>10

\* A strip in another order, or with another tab selected.
LEMMA StripTurned ==
  ASSUME NEW s, Sound(s, Nil), NEW g \in Groups(s), NEW placed \in Strip,
         placed.sel \in DOMAIN placed.tabs, IsInjective(placed.tabs),
         Range(placed.tabs) = Range(s.strip[g].tabs)
  PROVE  LET t == [s EXCEPT !.strip[g] = placed]
         IN /\ Sound(t, Nil)
            /\ t.docs = s.docs /\ t.active = s.active /\ t.recent = s.recent
            /\ t.tree = s.tree /\ t.shown = s.shown /\ t.made = s.made
            /\ Groups(t) = Groups(s)
            /\ \A h \in Groups(s) : t.strip[h] = IF h = g THEN placed ELSE s.strip[h]
            /\ \A h \in Groups(s), e \in Docs : InGroup(t, h, e) <=> InGroup(s, h, e)
<1> DEFINE t == [s EXCEPT !.docs = s.docs, !.strip = [@ EXCEPT ![g] = placed], !.recent = s.recent]
<1>1. /\ s.docs \in [Docs -> Doc] /\ s.recent \in Seq(Views) /\ IsInjective(s.recent) /\ g \in Ids
      /\ s \in Window(Groups(s))
  BY PartsTyped DEF Sound, Ordered, WellTyped
<1>2. [s EXCEPT !.strip[g] = placed] = t
  BY <1>1 DEF Window
<1>3. \A h \in Ids, e \in Docs :
        <<h, e>> \in Range(s.recent) <=>
          IF h = g THEN e \in Range(placed.tabs) ELSE <<h, e>> \in Range(s.recent)
  <2>1. \A e \in Docs : <<g, e>> \in Range(s.recent) <=> InGroup(s, g, e)
    BY <1>1 DEF Sound, Ordered
  <2> QED
    BY <2>1 DEF InGroup
<1>4. /\ WellTyped(t)
      /\ t.docs = s.docs /\ t.active = s.active /\ t.recent = s.recent
      /\ t.tree = s.tree /\ t.shown = s.shown /\ t.made = s.made
      /\ Groups(t) = Groups(s)
      /\ \A h \in Groups(s) : t.strip[h] = IF h = g THEN placed ELSE s.strip[h]
      /\ \A h \in Groups(s), e \in Docs :
           InGroup(t, h, e) <=> IF h = g THEN e \in Range(placed.tabs) ELSE InGroup(s, h, e)
      /\ \A b : Stored(t, b) /\ OnePreview(t) => Sound(t, b)
  <2>1. placed.sel \in DOMAIN placed.tabs \/ placed = NoTabs
    OBVIOUS
  <2> QED
    BY <2>1, <1>1, <1>3, StripChanged
<1> HIDE DEF t
<1>5. \A h \in Groups(s), e \in Docs : InGroup(t, h, e) <=> InGroup(s, h, e)
  BY <1>4 DEF InGroup
<1>6. \A e \in Docs : Viewed(t, e) <=> Viewed(s, e)
  BY <1>4, <1>5 DEF Viewed
<1>7. Stored(t, Nil)
  BY <1>4, <1>6 DEF Sound, Stored
<1>8. OnePreview(t)
  BY <1>4, <1>5 DEF Sound, OnePreview, IsPreview
<1>9. Sound(t, Nil)
  BY <1>4, <1>7, <1>8
<1> QED
  BY <1>2, <1>4, <1>5, <1>9

\* move_tab: the selected tab stays selected.
LEMMA StripReordered ==
  ASSUME NEW s, Sound(s, Nil), NEW g \in Groups(s), NEW from \in DOMAIN s.strip[g].tabs,
         NEW to \in DOMAIN s.strip[g].tabs
  PROVE  LET t == Reordered(s, g, from, to)
         IN /\ Sound(t, Nil)
            /\ t.docs = s.docs /\ t.active = s.active
            /\ t.tree = s.tree /\ t.shown = s.shown /\ t.made = s.made
            /\ Groups(t) = Groups(s)
            /\ \A h \in Groups(s) : Selected(t, h) = Selected(s, h)
            /\ \A h \in Groups(s), e \in Docs : InGroup(t, h, e) <=> InGroup(s, h, e)
<1> DEFINE strip == s.strip[g]
           rest == RemoveAt(strip.tabs, from)
           tabs == InsertAt(rest, to, strip.tabs[from])
           d == Selected(s, g)
           placed == [tabs |-> tabs, sel |-> IndexOf(d, tabs)]
           t == [s EXCEPT !.strip[g] = placed]
<1>1. Reordered(s, g, from, to) = t
  BY DEF Reordered
<1>2. strip.tabs \in Seq(Docs) /\ IsInjective(strip.tabs) /\ WellTyped(s)
  BY PartsTyped DEF Sound
<1>3. from \in 1..Len(strip.tabs) /\ to \in 1..Len(strip.tabs) /\ strip.tabs # <<>>
  BY <1>2
<1> HIDE DEF strip
<1>4. /\ rest \in Seq(Docs) /\ Len(rest) = Len(strip.tabs) - 1 /\ IsInjective(rest)
      /\ Range(rest) = Range(strip.tabs) \ {strip.tabs[from]}
  BY <1>2, <1>3, RemoveAtRest
<1> HIDE DEF rest
<1>5. to \in 1..Len(rest) + 1 /\ strip.tabs[from] \in Docs /\ strip.tabs[from] \notin Range(rest)
  BY <1>2, <1>3, <1>4
<1>6. /\ tabs \in Seq(Docs) /\ IsInjective(tabs)
      /\ Range(tabs) = Range(rest) \cup {strip.tabs[from]}
  BY <1>4, <1>5, InsertAtMore, SMTT(60)
<1>7. strip.tabs[from] \in Range(strip.tabs)
  BY <1>2, <1>3 DEF Range
<1>8. Range(tabs) = Range(strip.tabs)
  BY <1>4, <1>6, <1>7
<1> HIDE DEF tabs
<1>9. d \in Docs /\ d \in Range(strip.tabs)
  BY <1>2, <1>3, SelectedIn DEF strip, InGroup
<1> HIDE DEF d
<1>10. IndexOf(d, tabs) \in 1..Len(tabs) /\ tabs[IndexOf(d, tabs)] = d
  BY <1>6, <1>8, <1>9, IndexFound
<1>11. /\ placed \in Strip /\ placed.tabs = tabs /\ placed.sel \in DOMAIN tabs /\ tabs # <<>>
       /\ tabs[placed.sel] = d
  BY <1>6, <1>10 DEF Strip
<1> HIDE DEF placed
<1>12. /\ placed \in Strip /\ placed.sel \in DOMAIN placed.tabs /\ IsInjective(placed.tabs)
       /\ Range(placed.tabs) = Range(s.strip[g].tabs)
  BY <1>6, <1>8, <1>11 DEF strip
<1>13. /\ Sound(t, Nil)
       /\ t.docs = s.docs /\ t.active = s.active
       /\ t.tree = s.tree /\ t.shown = s.shown /\ t.made = s.made
       /\ Groups(t) = Groups(s)
       /\ \A h \in Groups(s) : t.strip[h] = IF h = g THEN placed ELSE s.strip[h]
       /\ \A h \in Groups(s), e \in Docs : InGroup(t, h, e) <=> InGroup(s, h, e)
  BY <1>12, StripTurned
<1> HIDE DEF t
<1>14. \A h \in Groups(s) : Selected(t, h) = Selected(s, h)
  <2> TAKE h \in Groups(s)
  <2>1. CASE h = g
    BY <2>1, <1>11, <1>13 DEF Selected, d
  <2>2. CASE h # g
    BY <2>2, <1>13 DEF Selected
  <2> QED
    BY <2>1, <2>2
<1> QED
  BY <1>1, <1>13, <1>14

\* split_group: an empty group more.
LEMMA SplitOffSound ==
  ASSUME NEW s, Sound(s, Nil), NEW target \in Groups(s), NEW direction \in Directions,
         s.made + 1 \in Ids, NEW stale, Fresh(s, stale)
  PROVE  LET t == SplitOff(s, target, direction)
             new == s.made + 1
         IN /\ Sound(t, Nil)
            /\ Fresh(t, stale)
            /\ t.docs = s.docs /\ t.active = s.active /\ t.made = new
            /\ new \notin Groups(s) /\ Groups(t) = Groups(s) \cup {new}
            /\ \A h \in Groups(s) : t.strip[h] = s.strip[h]
            /\ t.strip[new] = NoTabs
<1> DEFINE new == s.made + 1
           t == SplitOff(s, target, direction)
           strip == AndOf(s.strip, new, NoTabs)
           shown == AndOf(s.shown, new, Nil)
           tree == SplitAt(s.tree, target, direction, new)
<1>1. /\ s.docs \in [Docs -> Doc] /\ s.strip \in [Groups(s) -> Strip] /\ s.active \in Groups(s)
      /\ s.recent \in Seq(Views) /\ s.tree \in Layouts
      /\ s.shown \in [Groups(s) -> Docs \cup {Nil}] /\ s.made \in Nat
      /\ \A g \in Groups(s) : g \in Ids
      /\ s \in Window(Groups(s)) /\ WellTyped(s)
  BY PartsTyped DEF Sound, WellTyped
<1>2. new \notin Groups(s)
  <2>1. \A g \in Groups(s) : g <= s.made
    BY DEF Sound
  <2> QED
    BY <2>1, <1>1
<1>3. Range(LeavesOf(s.tree)) = Groups(s)
  BY DEF Sound
<1>4. tree \in Layouts /\ Range(LeavesOf(tree)) = Groups(s) \cup {new}
  <2>1. new \in Ids \ Range(LeavesOf(s.tree))
    BY <1>2, <1>3
  <2> QED
    BY <2>1, <1>1, <1>3, LayoutAssumption
<1> HIDE DEF tree
<1>5. NoTabs \in Strip /\ NoTabs.tabs = <<>>
  BY DEF NoTabs, Strip
<1>6. /\ strip \in [Groups(s) \cup {new} -> Strip]
      /\ strip[new] = NoTabs /\ \A h \in Groups(s) : strip[h] = s.strip[h]
  BY <1>1, <1>2, <1>5 DEF AndOf
<1>7. /\ shown \in [Groups(s) \cup {new} -> Docs \cup {Nil}]
      /\ shown[new] = Nil /\ \A h \in Groups(s) : shown[h] = s.shown[h]
  BY <1>1, <1>2 DEF AndOf
<1>8. t = [s EXCEPT !.made = new, !.tree = tree, !.strip = strip, !.shown = shown]
  BY <1>1 DEF SplitOff, Window, tree
<1> HIDE DEF strip, shown, t
<1>9. /\ t.docs = s.docs /\ t.strip = strip /\ t.active = s.active /\ t.recent = s.recent
      /\ t.tree = tree /\ t.shown = shown /\ t.made = new
  BY <1>1, <1>8 DEF Window
<1>10. Groups(t) = Groups(s) \cup {new}
  BY <1>6, <1>9 DEF Groups
<1>11. t \in Window(Groups(t))
  <2>1. new \in Nat
    BY <1>1
  <2> HIDE DEF new
  <2>2. t \in Window(Groups(s) \cup {new})
    BY <2>1, <1>1, <1>4, <1>6, <1>7, <1>8 DEF Window
  <2> QED
    BY <2>2, <1>10
<1>12. \A h \in Groups(s) : t.strip[h] = s.strip[h] /\ t.shown[h] = s.shown[h]
  BY <1>6, <1>7, <1>9
<1>13. t.strip[new] = NoTabs /\ t.shown[new] = Nil
  BY <1>6, <1>7, <1>9
<1> HIDE DEF new
<1>14. \A e : ~InGroup(t, new, e)
  BY <1>5, <1>13 DEF InGroup, Range
<1>15. \A h \in Groups(s), e \in Docs : InGroup(t, h, e) <=> InGroup(s, h, e)
  BY <1>12 DEF InGroup
<1>16. WellTyped(t)
  BY <1>1, <1>10, <1>11, <1>12, <1>13 DEF WellTyped, new
<1>17. \A h \in Groups(t) : IsInjective(t.strip[h].tabs) /\ h <= t.made
  <2>1. \A h \in Groups(s) : IsInjective(t.strip[h].tabs) /\ h <= t.made
    <3> TAKE h \in Groups(s)
    <3>1. IsInjective(s.strip[h].tabs) /\ h <= s.made /\ h \in Nat
      BY <1>1 DEF Sound, Ids
    <3> QED
      BY <3>1, <1>1, <1>9, <1>12 DEF new
  <2>2. IsInjective(t.strip[new].tabs) /\ new <= t.made
    BY <1>1, <1>5, <1>9, <1>13 DEF IsInjective, new
  <2> QED
    BY <2>1, <2>2, <1>10
<1>18. \A e \in Docs : Viewed(t, e) <=> Viewed(s, e)
  BY <1>10, <1>14, <1>15 DEF Viewed
<1>19. Stored(t, Nil)
  BY <1>9, <1>18 DEF Sound, Stored
<1>20. Ordered(t)
  BY <1>2, <1>9, <1>10, <1>14, <1>15 DEF Sound, Ordered
<1>21. \A h \in Groups(t), e \in Docs : IsPreview(t, h, e) => h \in Groups(s) /\ IsPreview(s, h, e)
  BY <1>9, <1>10, <1>14, <1>15 DEF IsPreview
<1>22. OnePreview(t)
  BY <1>9, <1>10, <1>14, <1>15, <1>21 DEF Sound, OnePreview
<1>23. Range(LeavesOf(t.tree)) = Groups(t)
  BY <1>4, <1>9, <1>10
<1>24. Sound(t, Nil)
  BY <1>16, <1>17, <1>19, <1>20, <1>22, <1>23 DEF Sound
<1>25. Fresh(t, stale)
  <2> SUFFICES ASSUME NEW h \in Groups(t) \ stale PROVE t.shown[h] = Holds(t, Selected(t, h))
    BY DEF Fresh
  <2>1. CASE h = new
    BY <2>1, <1>5, <1>13 DEF Selected, Holds
  <2>2. CASE h \in Groups(s)
    <3>1. s.shown[h] = Holds(s, Selected(s, h))
      BY <2>2 DEF Fresh
    <3> QED
      BY <2>2, <3>1, <1>9, <1>12 DEF Selected, Holds, IsImage
  <2> QED
    BY <2>1, <2>2, <1>10
<1> QED
  BY <1>2, <1>9, <1>10, <1>12, <1>13, <1>24, <1>25 DEF t, new

\* remove_empty_group: the others stay, the editors as up to date as they were.
LEMMA EmptyRemovedSound ==
  ASSUME NEW s, Sound(s, Nil), NEW g, NEW stale, Fresh(s, stale)
  PROVE  LET t == EmptyRemoved(s, g)
         IN /\ Sound(t, Nil)
            /\ Fresh(t, stale)
            /\ t.docs = s.docs /\ t.made = s.made
            /\ Groups(t) \subseteq Groups(s)
            /\ \A h \in Groups(t) : t.strip[h] = s.strip[h]
            /\ t = s \/ g \notin Groups(t)
<1>1. CASE ~Removable(s, g)
  BY <1>1 DEF EmptyRemoved
<1>2. CASE Removable(s, g)
  <2> DEFINE order == LeavesOf(s.tree)
             i == IndexOf(g, order)
             n == IF i < Len(order) THEN order[i + 1] ELSE order[i - 1]
             t == ActivatedGroup(s, n)
             rest == Groups(s) \ {g}
             u == [t EXCEPT !.tree = WithoutGroup(@, g), !.strip = Restrict(@, rest), !.shown = Restrict(@, rest)]
  <2>1. EmptyRemoved(s, g) = u
    BY <1>2 DEF EmptyRemoved
  <2>2. g \in Groups(s) /\ Groups(s) # {g} /\ s.strip[g] = NoTabs
    BY <1>2 DEF Removable
  <2>3. /\ s.tree \in Layouts /\ Range(order) = Groups(s)
    BY PartsTyped DEF Sound
  <2>4. order \in Seq(Ids) /\ IsInjective(order)
    BY <2>3, LayoutAssumption
  <2>5. i \in 1..Len(order) /\ order[i] = g
    BY <2>2, <2>3, <2>4, IndexFound
  <2>6. \A j \in 1..Len(order) : order[j] \in Groups(s) /\ (j # i => order[j] # g)
    <3>1. DOMAIN order = 1..Len(order)
      BY <2>4
    <3> HIDE DEF order, i
    <3> QED
      BY <3>1, <2>3, <2>4, <2>5 DEF Range, IsInjective
  <2>7. PICK j \in 1..Len(order) : j # i
    <3>1. PICK h \in Groups(s) : h # g
      BY <2>2
    <3>2. PICK j \in DOMAIN order : order[j] = h
      BY <2>3, <3>1 DEF Range
    <3>3. DOMAIN order = 1..Len(order)
      BY <2>4
    <3> QED
      BY <3>1, <3>2, <3>3, <2>5
  <2>8. n \in Groups(s) /\ n # g
    <3> HIDE DEF order, i
    <3>1. Len(order) \in Nat
      BY <2>4
    <3>2. CASE i < Len(order)
      <4>1. i + 1 \in 1..Len(order) /\ i + 1 # i
        BY <3>1, <3>2, <2>5
      <4> QED
        BY <4>1, <3>2, <2>6
    <3>3. CASE ~(i < Len(order))
      <4>1. i - 1 \in 1..Len(order) /\ i - 1 # i
        BY <3>1, <3>3, <2>5, <2>7
      <4> QED
        BY <4>1, <3>3, <2>6
    <3> QED
      BY <3>2, <3>3
  <2> HIDE DEF n, order, i
  <2>9. /\ Sound(t, Nil)
        /\ t.docs = s.docs /\ t.strip = s.strip /\ t.tree = s.tree
        /\ t.shown = s.shown /\ t.made = s.made
        /\ t.active = n
    BY <2>8, ActivatedSound
  <2> HIDE DEF t
  <2>10. Groups(t) = Groups(s)
    BY <2>9 DEF Groups
  <2>11. /\ t.docs \in [Docs -> Doc] /\ t.strip \in [Groups(s) -> Strip]
         /\ t.recent \in Seq(Views) /\ t.shown \in [Groups(s) -> Docs \cup {Nil}]
         /\ t.made \in Nat /\ WellTyped(t)
         /\ t \in Window(Groups(s))
         /\ \A h \in Groups(s) : h \in Ids
    BY <2>9, <2>10, PartsTyped DEF Sound, WellTyped
  <2> DEFINE tree == WithoutGroup(t.tree, g)
             strip == Restrict(t.strip, rest)
             shown == Restrict(t.shown, rest)
  <2>12. tree \in Layouts /\ Range(LeavesOf(tree)) = rest
    BY <2>2, <2>3, <2>9, LayoutAssumption DEF order
  <2>13. /\ strip \in [rest -> Strip] /\ \A h \in rest : strip[h] = s.strip[h]
         /\ shown \in [rest -> Docs \cup {Nil}] /\ \A h \in rest : shown[h] = s.shown[h]
    BY <2>9, <2>11 DEF Restrict
  <2>14. u = [t EXCEPT !.tree = tree, !.strip = strip, !.shown = shown]
    BY <2>11 DEF Window
  <2> HIDE DEF u, tree, strip, shown
  <2>15. /\ u.docs = s.docs /\ u.strip = strip /\ u.active = n /\ u.recent = t.recent
         /\ u.tree = tree /\ u.shown = shown /\ u.made = s.made
    BY <2>9, <2>11, <2>14 DEF Window
  <2>16. Groups(u) = rest
    BY <2>13, <2>15 DEF Groups
  <2>17. u \in Window(rest)
    BY <2>8, <2>9, <2>11, <2>12, <2>13, <2>14 DEF Window
  <2>18. \A h \in rest : u.strip[h] = s.strip[h] /\ u.shown[h] = s.shown[h]
    BY <2>13, <2>15
  <2>19. \A h \in rest, e \in Docs : InGroup(u, h, e) <=> InGroup(t, h, e)
    BY <2>9, <2>18 DEF InGroup
  <2>20. \A e : ~InGroup(t, g, e)
    BY <2>2, <2>9 DEF InGroup, NoTabs, Range
  <2>21. WellTyped(u)
    BY <2>9, <2>10, <2>11, <2>16, <2>17, <2>18 DEF WellTyped
  <2>22. \A h \in rest : IsInjective(u.strip[h].tabs) /\ h <= u.made
    BY <2>9, <2>10, <2>15, <2>18 DEF Sound
  <2>23. \A e \in Docs : Viewed(u, e) <=> Viewed(t, e)
    BY <2>10, <2>16, <2>19, <2>20 DEF Viewed
  <2>24. Stored(u, Nil)
    BY <2>9, <2>15, <2>23 DEF Sound, Stored
  <2>25. Ordered(u)
    <3> SUFFICES ASSUME NEW h \in Ids, NEW e \in Docs
                 PROVE  <<h, e>> \in Range(u.recent) <=> h \in Groups(u) /\ InGroup(u, h, e)
      BY <2>9, <2>15 DEF Sound, Ordered
    <3>1. <<h, e>> \in Range(t.recent) <=> h \in Groups(t) /\ InGroup(t, h, e)
      BY <2>9 DEF Sound, Ordered
    <3> QED
      BY <3>1, <2>10, <2>15, <2>16, <2>19, <2>20
  <2>26. \A h \in rest, e \in Docs : IsPreview(u, h, e) <=> IsPreview(t, h, e)
    BY <2>9, <2>15, <2>19 DEF IsPreview
  <2>27. OnePreview(u)
    BY <2>9, <2>10, <2>15, <2>16, <2>19, <2>26 DEF Sound, OnePreview
  <2>28. Range(LeavesOf(u.tree)) = Groups(u)
    BY <2>12, <2>15, <2>16
  <2>29. Sound(u, Nil)
    BY <2>16, <2>21, <2>22, <2>24, <2>25, <2>27, <2>28 DEF Sound
  <2>30. Fresh(u, stale)
    <3> SUFFICES ASSUME NEW h \in Groups(u) \ stale PROVE u.shown[h] = Holds(u, Selected(u, h))
      BY DEF Fresh
    <3>1. s.shown[h] = Holds(s, Selected(s, h))
      BY <2>16 DEF Fresh
    <3> QED
      BY <3>1, <2>15, <2>16, <2>18 DEF Selected, Holds, IsImage
  <2>31. Groups(u) \subseteq Groups(s) /\ g \notin Groups(u)
    BY <2>16
  <2> QED
    BY <2>1, <2>15, <2>16, <2>18, <2>29, <2>30, <2>31
<1> QED
  BY <1>1, <1>2

\* What leaves the documents, but for text saved on the way.
Tidied(s, t) ==
  \A d \in Docs : /\ t.docs[d].open = s.docs[d].open
                  /\ t.docs[d].path = s.docs[d].path
                  /\ t.docs[d].dirty => s.docs[d].dirty

\* activate: the view is selected and shown in its group.
LEMMA ActivatedInSound ==
  ASSUME NEW s, Sound(s, Nil), NEW g \in Groups(s), NEW d \in Docs, InGroup(s, g, d),
         NEW saves \in BOOLEAN, NEW stale, Fresh(s, stale)
  PROVE  LET t == ActivatedIn(s, g, d, saves)
         IN /\ Sound(t, Nil)
            /\ Fresh(t, stale \ {g})
            /\ Groups(t) = Groups(s) /\ t.active = s.active
            /\ t.tree = s.tree /\ t.made = s.made
            /\ \A h \in Groups(s), e \in Docs : InGroup(t, h, e) <=> InGroup(s, h, e)
            /\ Selected(t, g) = d
            /\ \A h \in Groups(s) : h # g => Selected(t, h) = Selected(s, h)
            /\ Tidied(s, t)
<1> DEFINE a == IF Selected(s, g) # d /\ s.active = g THEN Autosaved(s, saves) ELSE s
           placed == [a.strip[g] EXCEPT !.sel = IndexOf(d, a.strip[g].tabs)]
           b == [a EXCEPT !.strip[g] = placed]
           c == Touched(b, g, d)
           t == Shown(c, g)
<1>1. ActivatedIn(s, g, d, saves) = t
  BY DEF ActivatedIn
<1>2. /\ Sound(a, Nil)
      /\ a.strip = s.strip /\ a.active = s.active /\ a.recent = s.recent
      /\ a.tree = s.tree /\ a.shown = s.shown /\ a.made = s.made
      /\ Tidied(s, a)
  BY AutosavedSound DEF Tidied
<1> HIDE DEF a
<1>3. Groups(a) = Groups(s)
  BY <1>2 DEF Groups
<1>4. a.strip[g] \in Strip /\ a.strip[g].tabs \in Seq(Docs) /\ IsInjective(a.strip[g].tabs)
      /\ d \in Range(a.strip[g].tabs)
  BY <1>2, <1>3, PartsTyped DEF Sound, InGroup
<1>5. IndexOf(d, a.strip[g].tabs) \in 1..Len(a.strip[g].tabs)
      /\ a.strip[g].tabs[IndexOf(d, a.strip[g].tabs)] = d
  BY <1>4, IndexFound
<1>6. /\ placed \in Strip /\ placed.tabs = a.strip[g].tabs /\ placed.sel \in DOMAIN placed.tabs
      /\ placed.tabs[placed.sel] = d /\ placed.tabs # <<>>
  BY <1>4, <1>5 DEF Strip
<1> HIDE DEF placed
<1>7. IsInjective(placed.tabs) /\ Range(placed.tabs) = Range(a.strip[g].tabs) /\ g \in Groups(a)
      /\ placed \in Strip /\ placed.sel \in DOMAIN placed.tabs
  BY <1>3, <1>4, <1>6
<1>8. /\ Sound(b, Nil)
      /\ b.docs = a.docs /\ b.active = a.active /\ b.recent = a.recent
      /\ b.tree = a.tree /\ b.shown = a.shown /\ b.made = a.made
      /\ Groups(b) = Groups(a)
      /\ \A h \in Groups(a) : b.strip[h] = IF h = g THEN placed ELSE a.strip[h]
      /\ \A h \in Groups(a), e \in Docs : InGroup(b, h, e) <=> InGroup(a, h, e)
  BY <1>2, <1>7, StripTurned
<1> HIDE DEF b
<1>9. \A h \in Groups(s), e \in Docs : InGroup(b, h, e) <=> InGroup(s, h, e)
  BY <1>2, <1>3, <1>8 DEF InGroup
<1>10. Sound(c, Nil) /\ \E q \in Seq(Views) : c = [b EXCEPT !.recent = q]
  <2>1. g \in Groups(b) /\ InGroup(b, g, d)
    BY <1>3, <1>8, <1>9
  <2> QED
    BY <2>1, <1>8, TouchedSound
<1> HIDE DEF c
<1>11. /\ c.docs = b.docs /\ c.strip = b.strip /\ c.active = b.active
       /\ c.tree = b.tree /\ c.shown = b.shown /\ c.made = b.made
  BY <1>8, <1>10 DEF Sound, WellTyped, Window
<1>12. Groups(c) = Groups(s)
  BY <1>3, <1>8, <1>11 DEF Groups
<1>13. Fresh(c, stale \cup {g})
  <2>1. \A h \in Groups(c) \ (stale \cup {g}) :
          /\ h \in Groups(s) \ stale
          /\ c.shown[h] = s.shown[h]
          /\ c.strip[h] = s.strip[h]
          /\ Selected(s, h) # Nil => c.docs[Selected(s, h)].path = s.docs[Selected(s, h)].path
    <3> TAKE h \in Groups(c) \ (stale \cup {g})
    <3>1. h \in Groups(s) \ stale /\ h # g
      BY <1>12
    <3>2. c.shown[h] = s.shown[h] /\ c.strip[h] = s.strip[h]
      BY <3>1, <1>2, <1>3, <1>8, <1>11
    <3>3. Selected(s, h) # Nil => Selected(s, h) \in Docs
      BY <3>1, SelectedIn DEF Sound
    <3> QED
      BY <3>1, <3>2, <3>3, <1>2, <1>8, <1>11 DEF Tidied
  <2> QED
    BY <2>1, FreshKept
<1>14. /\ Sound(t, Nil)
       /\ Fresh(t, (stale \cup {g}) \ {g})
       /\ t.docs = c.docs /\ t.strip = c.strip /\ t.active = c.active
       /\ t.recent = c.recent /\ t.tree = c.tree /\ t.made = c.made
  BY <1>10, <1>13, ShownSound
<1> HIDE DEF t
<1>15. (stale \cup {g}) \ {g} = stale \ {g}
  OBVIOUS
<1>16. Groups(t) = Groups(s)
  BY <1>12, <1>14 DEF Groups
<1>17. \A h \in Groups(s), e \in Docs : InGroup(t, h, e) <=> InGroup(s, h, e)
  BY <1>9, <1>11, <1>14 DEF InGroup
<1>18. Selected(t, g) = d
  BY <1>3, <1>6, <1>8, <1>11, <1>14 DEF Selected
<1>19. \A h \in Groups(s) : h # g => Selected(t, h) = Selected(s, h)
  BY <1>2, <1>3, <1>8, <1>11, <1>14 DEF Selected
<1>20. Tidied(s, t)
  BY <1>2, <1>8, <1>11, <1>14 DEF Tidied
<1> QED
  BY <1>1, <1>2, <1>8, <1>11, <1>14, <1>15, <1>16, <1>17, <1>18, <1>19, <1>20

\* focus_view: the group becomes active and its view selected.
LEMMA ViewFocusedSound ==
  ASSUME NEW s, Sound(s, Nil), NEW g \in Groups(s), NEW d \in Docs, InGroup(s, g, d),
         NEW saves \in BOOLEAN, NEW stale, Fresh(s, stale)
  PROVE  LET t == ViewFocused(s, g, d, saves)
         IN /\ Sound(t, Nil)
            /\ Fresh(t, stale)
            /\ Groups(t) = Groups(s) /\ t.active = g
            /\ t.tree = s.tree /\ t.made = s.made
            /\ \A h \in Groups(s), e \in Docs : InGroup(t, h, e) <=> InGroup(s, h, e)
            /\ Selected(t, g) = d
            /\ Tidied(s, t)
<1> DEFINE a == ActivatedGroup(s, g)
           t == ViewFocused(s, g, d, saves)
<1>1. t = IF Selected(a, g) = d THEN a ELSE ActivatedIn(a, g, d, saves)
  BY DEF ViewFocused
<1>2. /\ Sound(a, Nil)
      /\ a.docs = s.docs /\ a.strip = s.strip /\ a.tree = s.tree
      /\ a.shown = s.shown /\ a.made = s.made /\ a.active = g
  BY ActivatedSound
<1> HIDE DEF a, t
<1>3. Groups(a) = Groups(s)
  BY <1>2 DEF Groups
<1>4. Fresh(a, stale)
  BY <1>2, <1>3 DEF Fresh, Selected, Holds, IsImage
<1>5. \A h \in Groups(s), e \in Docs : InGroup(a, h, e) <=> InGroup(s, h, e)
  BY <1>2 DEF InGroup
<1>6. CASE Selected(a, g) = d
  BY <1>1, <1>2, <1>3, <1>4, <1>5, <1>6 DEF Tidied, t
<1>7. CASE Selected(a, g) # d
  <2> DEFINE b == ActivatedIn(a, g, d, saves)
  <2>1. g \in Groups(a) /\ InGroup(a, g, d) /\ Sound(a, Nil) /\ Fresh(a, stale)
    BY <1>2, <1>3, <1>4, <1>5
  <2>2. /\ Sound(b, Nil)
        /\ Fresh(b, stale \ {g})
        /\ Groups(b) = Groups(a) /\ b.active = a.active
        /\ b.tree = a.tree /\ b.made = a.made
        /\ \A h \in Groups(a), e \in Docs : InGroup(b, h, e) <=> InGroup(a, h, e)
        /\ Selected(b, g) = d
        /\ \A h \in Groups(a) : h # g => Selected(b, h) = Selected(a, h)
        /\ Tidied(a, b)
    BY <2>1, ActivatedInSound
  <2> HIDE DEF b
  <2>3. Fresh(b, stale)
    BY <2>2 DEF Fresh
  <2>4. Tidied(s, b)
    BY <2>2, <1>2 DEF Tidied
  <2>5. t = b
    BY <1>1, <1>7 DEF b
  <2> QED
    BY <2>2, <2>3, <2>4, <2>5, <1>2, <1>3, <1>5 DEF t
<1> QED
  BY <1>6, <1>7 DEF t

-----------------------------------------------------------------------------
(* Commands that find their tab, and those of several steps.               *)

\* A set of places has a first one.
LEMMA LeastPlace ==
  ASSUME NEW S \in SUBSET Nat, S # {}
  PROVE  \E a \in S : \A m \in S : a <= m
<1>1. PICK a \in S : \A m \in S : <<m, a>> \notin OpToRel(<, Nat)
  BY NatLessThanWellFounded, WFMin, Zenon
<1>2. \A m \in S : ~(m < a)
  BY <1>1 DEF OpToRel
<1> QED
  BY <1>2

\* The group a document is activated in shows it.
LEMMA GroupFound ==
  ASSUME NEW s, Sound(s, Nil), NEW d \in Docs, s.docs[d].open
  PROVE  GroupOf(s, d) \in Groups(s) /\ InGroup(s, GroupOf(s, d), d)
<1>1. PICK h \in Groups(s) : InGroup(s, h, d)
  BY TabGroupsAssumption DEF Sound, Stored, Viewed
<1>2. s.active \in Groups(s)
  BY PartsTyped DEF Sound
<1>3. CASE InGroup(s, s.active, d)
  BY <1>2, <1>3 DEF GroupOf
<1>4. CASE ~InGroup(s, s.active, d)
  <2> DEFINE order == LeavesOf(s.tree)
             S == {i \in DOMAIN order : InGroup(s, order[i], d)}
  <2>1. s.tree \in Layouts /\ Range(order) = Groups(s)
    BY PartsTyped DEF Sound
  <2>2. order \in Seq(Ids)
    BY <2>1, LayoutAssumption
  <2>3. GroupOf(s, d) = order[CHOOSE i \in DOMAIN order :
                                /\ InGroup(s, order[i], d)
                                /\ \A j \in 1..(i - 1) : ~InGroup(s, order[j], d)]
    BY <1>4 DEF GroupOf
  <2> HIDE DEF order
  <2>4. DOMAIN order = 1..Len(order) /\ Len(order) \in Nat
    BY <2>2
  <2>5. PICK k \in DOMAIN order : order[k] = h
    BY <2>1 DEF Range
  <2>6. S \in SUBSET Nat /\ S # {}
    BY <1>1, <2>4, <2>5
  <2>7. PICK a \in S : \A m \in S : a <= m
    BY <2>6, LeastPlace
  <2>8. /\ a \in DOMAIN order /\ InGroup(s, order[a], d)
        /\ \A j \in 1..(a - 1) : ~InGroup(s, order[j], d)
    BY <2>4, <2>7
  <2>9. \E i \in DOMAIN order : GroupOf(s, d) = order[i] /\ InGroup(s, order[i], d)
    BY <2>3, <2>8
  <2> QED
    BY <2>1, <2>9 DEF Range
<1> QED
  BY <1>3, <1>4

\* activate_document_by_id.
LEMMA ActivatedByIdSound ==
  ASSUME NEW s, Sound(s, Nil), NEW d \in Docs, s.docs[d].open, NEW saves \in BOOLEAN,
         NEW stale, Fresh(s, stale)
  PROVE  LET t == ActivatedById(s, d, saves)
         IN /\ Sound(t, Nil)
            /\ Fresh(t, stale)
            /\ Groups(t) = Groups(s)
            /\ t.tree = s.tree /\ t.made = s.made
            /\ \A h \in Groups(s), e \in Docs : InGroup(t, h, e) <=> InGroup(s, h, e)
            /\ t.active = GroupOf(s, d)
            /\ Selected(t, t.active) = d /\ InGroup(t, t.active, d)
            /\ Tidied(s, t)
<1> DEFINE g == GroupOf(s, d)
           t == ViewFocused(s, g, d, saves)
<1>1. g \in Groups(s) /\ InGroup(s, g, d)
  BY GroupFound
<1>2. ActivatedById(s, d, saves) = t
  BY DEF ActivatedById
<1> HIDE DEF g
<1>3. /\ Sound(t, Nil)
      /\ Fresh(t, stale)
      /\ Groups(t) = Groups(s) /\ t.active = g
      /\ t.tree = s.tree /\ t.made = s.made
      /\ \A h \in Groups(s), e \in Docs : InGroup(t, h, e) <=> InGroup(s, h, e)
      /\ Selected(t, g) = d
      /\ Tidied(s, t)
  BY <1>1, ViewFocusedSound
<1> HIDE DEF t
<1> QED
  BY <1>1, <1>2, <1>3 DEF g

\* close_reviewed_document: the selected tab of the active group goes, and the
\* document with its last view; no other does.
LEMMA ClosedReviewedSound ==
  ASSUME NEW s, Sound(s, Nil), Selected(s, s.active) # Nil, NEW stale, Fresh(s, stale)
  PROVE  LET t == ClosedReviewed(s)
             d == Selected(s, s.active)
         IN /\ Sound(t, Nil)
            /\ Fresh(t, stale)
            /\ t.made = s.made
            /\ d \in Docs
            /\ \A e \in Docs : e # d => t.docs[e] = s.docs[e]
            /\ t.docs[d] = s.docs[d] \/ t.docs[d] = NoDoc
            /\ Shared(s, d) => t.docs[d] = s.docs[d]
            /\ s.active \in Groups(t) => t.active = s.active
            /\ Groups(t) \subseteq Groups(s)
            /\ \A h \in Groups(t) : h # s.active => t.strip[h] = s.strip[h]
<1> DEFINE g == s.active
           d == Selected(s, g)
           a == TabRemoved(s, g, d)
           next == Selected(a, g)
           b == IF next = Nil THEN a ELSE Touched(a, g, next)
           c == Shown(b, g)
           t == EmptyRemoved(c, g)
<1>1. ClosedReviewed(s) = t
  BY DEF ClosedReviewed
<1>2. g \in Groups(s) /\ WellTyped(s)
  BY PartsTyped DEF Sound
<1>3. d \in Docs /\ InGroup(s, g, d)
  BY <1>2, SelectedIn
<1> HIDE DEF g, d
<1>4. /\ Sound(a, Nil)
      /\ Groups(a) = Groups(s) /\ a.active = s.active
      /\ a.tree = s.tree /\ a.shown = s.shown /\ a.made = s.made
      /\ \A h \in Groups(s) : h # g => a.strip[h] = s.strip[h]
      /\ \A h \in Groups(s), e \in Docs :
           InGroup(a, h, e) <=> InGroup(s, h, e) /\ ~(h = g /\ e = d)
      /\ \A e \in Docs : e # d => a.docs[e] = s.docs[e]
      /\ a.docs[d] = s.docs[d] \/ (a.docs[d] = NoDoc /\ ~Viewed(a, d))
  BY <1>2, <1>3, TabRemovedSound
<1> HIDE DEF a
<1>5. /\ Sound(b, Nil)
      /\ b.docs = a.docs /\ b.strip = a.strip /\ b.active = a.active
      /\ b.tree = a.tree /\ b.shown = a.shown /\ b.made = a.made
  <2>1. CASE next = Nil
    BY <2>1, <1>4
  <2>2. CASE next # Nil
    <3>1. g \in Groups(a) /\ next \in Docs /\ InGroup(a, g, next)
      BY <2>2, <1>2, <1>4, SelectedIn DEF Sound
    <3> HIDE DEF next
    <3>2. Sound(Touched(a, g, next), Nil)
          /\ \E q \in Seq(Views) : Touched(a, g, next) = [a EXCEPT !.recent = q]
      BY <3>1, <1>4, TouchedSound
    <3>3. PICK q \in Seq(Views) : Touched(a, g, next) = [a EXCEPT !.recent = q]
      BY <3>2
    <3> DEFINE u == [a EXCEPT !.recent = q]
    <3>4. /\ u.docs = a.docs /\ u.strip = a.strip /\ u.active = a.active
          /\ u.tree = a.tree /\ u.shown = a.shown /\ u.made = a.made
      BY <1>4 DEF Sound, WellTyped, Window
    <3>5. b = u /\ Sound(u, Nil)
      BY <2>2, <3>2, <3>3
    <3> HIDE DEF u, b
    <3> QED
      BY <3>4, <3>5
  <2> QED
    BY <2>1, <2>2
<1> HIDE DEF b
<1>6. Groups(b) = Groups(s)
  BY <1>4, <1>5 DEF Groups
<1>7. Fresh(b, stale \cup {g})
  <2>1. \A h \in Groups(b) \ (stale \cup {g}) :
          /\ h \in Groups(s) \ stale
          /\ b.shown[h] = s.shown[h]
          /\ b.strip[h] = s.strip[h]
          /\ Selected(s, h) # Nil => b.docs[Selected(s, h)].path = s.docs[Selected(s, h)].path
    <3> TAKE h \in Groups(b) \ (stale \cup {g})
    <3>1. h \in Groups(s) \ stale /\ h # g
      BY <1>6
    <3>2. b.shown[h] = s.shown[h] /\ b.strip[h] = s.strip[h]
      BY <3>1, <1>4, <1>5
    <3>3. ASSUME Selected(s, h) # Nil
          PROVE  b.docs[Selected(s, h)].path = s.docs[Selected(s, h)].path
      <4> DEFINE e == Selected(s, h)
      <4>1. e \in Docs /\ InGroup(s, h, e)
        BY <1>2, <3>1, <3>3, SelectedIn
      <4> HIDE DEF e
      <4>2. InGroup(a, h, e)
        BY <4>1, <3>1, <1>4
      <4>3. Viewed(a, e)
        BY <4>2, <3>1, <1>4 DEF Viewed
      <4>4. a.docs[e] = s.docs[e]
        BY <4>1, <4>3, <1>4
      <4> QED
        BY <4>4, <1>5 DEF e
    <3> QED
      BY <3>1, <3>2, <3>3
  <2> QED
    BY <2>1, FreshKept
<1>8. /\ Sound(c, Nil)
      /\ Fresh(c, (stale \cup {g}) \ {g})
      /\ c.docs = b.docs /\ c.strip = b.strip /\ c.active = b.active
      /\ c.recent = b.recent /\ c.tree = b.tree /\ c.made = b.made
  BY <1>5, <1>7, ShownSound
<1> HIDE DEF c
<1>9. Fresh(c, stale)
  BY <1>8 DEF Fresh
<1>10. /\ Sound(t, Nil)
       /\ Fresh(t, stale)
       /\ t.docs = c.docs /\ t.made = c.made
       /\ Groups(t) \subseteq Groups(c)
       /\ \A h \in Groups(t) : t.strip[h] = c.strip[h]
       /\ t = c \/ g \notin Groups(t)
  BY <1>8, <1>9, EmptyRemovedSound
<1> HIDE DEF t
<1>11. g \in Groups(t) => t.active = g
  BY <1>4, <1>5, <1>8, <1>10 DEF g
<1>12. t.docs = a.docs /\ t.made = s.made
  BY <1>4, <1>5, <1>8, <1>10
<1>13. ASSUME Shared(s, d) PROVE a.docs[d] = s.docs[d]
  <2>1. PICK h \in Groups(s) : h # g /\ InGroup(s, h, d)
    BY <1>13 DEF Shared, ViewsOf
  <2>2. InGroup(a, h, d)
    BY <2>1, <1>3, <1>4
  <2>3. Viewed(a, d)
    BY <2>1, <2>2, <1>4 DEF Viewed
  <2> QED
    BY <2>3, <1>4
<1>14. Groups(c) = Groups(s)
  BY <1>6, <1>8 DEF Groups
<1>15. Groups(t) \subseteq Groups(s) /\ \A h \in Groups(t) : h # g => t.strip[h] = s.strip[h]
  <2>1. \A h \in Groups(s) : h # g => c.strip[h] = s.strip[h]
    BY <1>4, <1>5, <1>8
  <2> QED
    BY <2>1, <1>10, <1>14
<1> QED
  BY <1>1, <1>3, <1>4, <1>10, <1>11, <1>12, <1>13, <1>15 DEF g, d

\* split_group with a view of the active document.
LEMMA SplitWithViewSound ==
  ASSUME NEW s, Sound(s, Nil), NEW target \in Groups(s), NEW direction \in Directions,
         s.made + 1 \in Ids, Fresh(s, {})
  PROVE  LET t == SplitWithView(s, target, direction)
         IN /\ Sound(t, Nil)
            /\ Fresh(t, {})
            /\ t.made = s.made + 1
            /\ \A e \in Docs : t.docs[e].open = s.docs[e].open /\ t.docs[e].dirty = s.docs[e].dirty
<1> DEFINE d == Selected(s, s.active)
           new == s.made + 1
           a == SplitOff(s, target, direction)
           b == IF d = Nil THEN a ELSE ViewAdded(a, new, d, 1)
           c == ActivatedGroup(b, new)
           t == Shown(c, new)
<1>1. SplitWithView(s, target, direction) = t
  BY DEF SplitWithView
<1>2. s.active \in Groups(s) /\ WellTyped(s) /\ s.made \in Nat
  BY PartsTyped DEF Sound
<1>3. /\ Sound(a, Nil)
      /\ Fresh(a, {})
      /\ a.docs = s.docs /\ a.active = s.active /\ a.made = new
      /\ new \notin Groups(s) /\ Groups(a) = Groups(s) \cup {new}
      /\ \A h \in Groups(s) : a.strip[h] = s.strip[h]
      /\ a.strip[new] = NoTabs
  BY SplitOffSound
<1> HIDE DEF a, new
<1>4. /\ Sound(b, Nil)
      /\ Groups(b) = Groups(a) /\ b.active = a.active
      /\ b.tree = a.tree /\ b.shown = a.shown /\ b.made = a.made
      /\ \A h \in Groups(a) : h # new => b.strip[h] = a.strip[h]
      /\ \A e \in Docs : /\ b.docs[e].open = a.docs[e].open
                         /\ b.docs[e].path = a.docs[e].path
                         /\ b.docs[e].dirty = a.docs[e].dirty
  <2>1. CASE d = Nil
    BY <2>1, <1>3
  <2>2. CASE d # Nil
    <3>1. d \in Docs /\ InGroup(s, s.active, d)
      BY <2>2, <1>2, SelectedIn
    <3> HIDE DEF d
    <3>2. s.docs[d].open /\ (s.docs[d].preview => ~s.docs[d].dirty)
      BY <1>2, <3>1 DEF Sound, Stored, Viewed, OnePreview, IsPreview
    <3>3. /\ a.docs[d].open /\ (a.docs[d].preview => ~a.docs[d].dirty)
          /\ new \in Groups(a) /\ 1 \in Nat \ {0} /\ Nil \in {d, Nil}
      BY <1>3, <3>2
    <3> DEFINE u == ViewAdded(a, new, d, 1)
    <3>4. /\ Sound(u, Nil)
          /\ Groups(u) = Groups(a) /\ u.active = a.active
          /\ u.tree = a.tree /\ u.shown = a.shown /\ u.made = a.made
          /\ \A h \in Groups(a) : h # new => u.strip[h] = a.strip[h]
          /\ InGroup(u, new, d) /\ Selected(u, new) = d
          /\ \A e \in Docs : /\ u.docs[e].open = a.docs[e].open
                             /\ u.docs[e].path = a.docs[e].path
                             /\ u.docs[e].dirty = a.docs[e].dirty
      BY <1>3, <3>1, <3>3, ViewAddedSound, SMTT(60)
    <3> HIDE DEF u
    <3>5. b = u
      BY <2>2 DEF u
    <3> HIDE DEF b
    <3> QED
      BY <3>4, <3>5
  <2> QED
    BY <2>1, <2>2
<1> HIDE DEF b
<1>5. /\ Sound(c, Nil)
      /\ c.docs = b.docs /\ c.strip = b.strip /\ c.tree = b.tree
      /\ c.shown = b.shown /\ c.made = b.made
  BY <1>4, ActivatedSound
<1> HIDE DEF c
<1>6. Groups(c) = Groups(a)
  BY <1>4, <1>5 DEF Groups
<1>7. Fresh(c, {new})
  <2>1. \A h \in Groups(c) \ {new} :
          /\ h \in Groups(a) \ {}
          /\ c.shown[h] = a.shown[h]
          /\ c.strip[h] = a.strip[h]
          /\ Selected(a, h) # Nil => c.docs[Selected(a, h)].path = a.docs[Selected(a, h)].path
    <3> TAKE h \in Groups(c) \ {new}
    <3>1. h \in Groups(a) /\ h # new
      BY <1>6
    <3>2. Selected(a, h) # Nil => Selected(a, h) \in Docs
      BY <3>1, <1>3, SelectedIn DEF Sound
    <3> QED
      BY <3>1, <3>2, <1>4, <1>5
  <2> QED
    BY <2>1, <1>3, FreshKept
<1>8. /\ Sound(t, Nil)
      /\ Fresh(t, {new} \ {new})
      /\ t.docs = c.docs /\ t.strip = c.strip /\ t.active = c.active
      /\ t.recent = c.recent /\ t.tree = c.tree /\ t.made = c.made
  BY <1>5, <1>7, ShownSound
<1>9. {new} \ {new} = {}
  OBVIOUS
<1> HIDE DEF t
<1> QED
  BY <1>1, <1>3, <1>4, <1>5, <1>8, <1>9 DEF new

\* A group's editor is brought up to date after its strip, or the documents, changed.
LEMMA EditorShown ==
  ASSUME NEW s, NEW stale, Fresh(s, stale), WellTyped(s), NEW t, Sound(t, Nil), NEW g,
         Groups(t) = Groups(s), t.shown = s.shown,
         \A h \in Groups(s) \ {g} :
           /\ t.strip[h] = s.strip[h]
           /\ \A e \in Docs : InGroup(s, h, e) => t.docs[e].path = s.docs[e].path
  PROVE  LET u == Shown(t, g)
         IN /\ Sound(u, Nil)
            /\ Fresh(u, stale \ {g})
            /\ u.docs = t.docs /\ u.strip = t.strip /\ u.active = t.active
            /\ u.recent = t.recent /\ u.tree = t.tree /\ u.made = t.made
<1> DEFINE u == Shown(t, g)
<1>1. Fresh(t, stale \cup {g})
  <2>1. \A h \in Groups(t) \ (stale \cup {g}) :
          /\ h \in Groups(s) \ stale
          /\ t.shown[h] = s.shown[h]
          /\ t.strip[h] = s.strip[h]
          /\ Selected(s, h) # Nil => t.docs[Selected(s, h)].path = s.docs[Selected(s, h)].path
    <3> TAKE h \in Groups(t) \ (stale \cup {g})
    <3>1. h \in Groups(s) \ {g}
      OBVIOUS
    <3>2. Selected(s, h) # Nil => Selected(s, h) \in Docs /\ InGroup(s, h, Selected(s, h))
      BY <3>1, SelectedIn
    <3> QED
      BY <3>1, <3>2
  <2> QED
    BY <2>1, FreshKept
<1>2. /\ Sound(u, Nil)
      /\ Fresh(u, (stale \cup {g}) \ {g})
      /\ u.docs = t.docs /\ u.strip = t.strip /\ u.active = t.active
      /\ u.recent = t.recent /\ u.tree = t.tree /\ u.made = t.made
  BY <1>1, ShownSound
<1>3. (stale \cup {g}) \ {g} = stale \ {g}
  OBVIOUS
<1> HIDE DEF u
<1> QED
  BY <1>2, <1>3 DEF u

\* What a document put in the active group leaves: no unsaved text goes, and the other
\* groups stay as they are.
Joined(s, t) ==
  /\ Sound(t, Nil)
  /\ Groups(t) = Groups(s) /\ t.active = s.active /\ t.shown = s.shown /\ t.made = s.made
  /\ \A h \in Groups(s) \ {s.active} :
       /\ t.strip[h] = s.strip[h]
       /\ \A e \in Docs : InGroup(s, h, e) => t.docs[e].path = s.docs[e].path
  /\ \A e \in Docs : s.docs[e].dirty => t.docs[e].open /\ t.docs[e].dirty

\* The editor shows the file that joined the window.
LEMMA JoinedShown ==
  ASSUME NEW s, WellTyped(s), Fresh(s, {}), NEW t, Joined(s, t)
  PROVE  LET u == Shown(t, s.active)
         IN /\ Sound(u, Nil)
            /\ Fresh(u, {})
            /\ u.made = s.made
            /\ \A e \in Docs : s.docs[e].dirty => u.docs[e].open /\ u.docs[e].dirty
<1> DEFINE g == s.active
           u == Shown(t, g)
<1>1. /\ Sound(t, Nil) /\ Groups(t) = Groups(s) /\ t.shown = s.shown
      /\ \A h \in Groups(s) \ {g} :
           /\ t.strip[h] = s.strip[h]
           /\ \A e \in Docs : InGroup(s, h, e) => t.docs[e].path = s.docs[e].path
      /\ t.made = s.made
      /\ \A e \in Docs : s.docs[e].dirty => t.docs[e].open /\ t.docs[e].dirty
  BY DEF Joined
<1> HIDE DEF g
<1>2. /\ Sound(u, Nil)
      /\ Fresh(u, {} \ {g})
      /\ u.docs = t.docs /\ u.strip = t.strip /\ u.active = t.active
      /\ u.recent = t.recent /\ u.tree = t.tree /\ u.made = t.made
  BY <1>1, EditorShown
<1>3. {} \ {g} = {}
  OBVIOUS
<1> HIDE DEF u
<1> QED
  BY <1>1, <1>2, <1>3 DEF u, g

\* A tab pushed on the active group joins the window.
LEMMA PushedJoins ==
  ASSUME NEW s, Sound(s, Nil), NEW d \in Docs, ~s.docs[d].open, NEW doc \in Doc, doc.open,
         doc.preview => ~doc.dirty /\ \A e \in Docs : ~IsPreview(s, s.active, e)
  PROVE  Joined(s, Pushed(s, d, doc))
<1> DEFINE t == Pushed(s, d, doc)
<1>1. /\ Sound(t, Nil)
      /\ Groups(t) = Groups(s) /\ t.active = s.active
      /\ t.tree = s.tree /\ t.shown = s.shown /\ t.made = s.made
      /\ \A h \in Groups(s) : h # s.active => t.strip[h] = s.strip[h]
      /\ t.docs = [s.docs EXCEPT ![d] = doc]
  BY PushedSound
<1> HIDE DEF t
<1>2. s.docs \in [Docs -> Doc]
  BY PartsTyped DEF Sound
<1>3. \A e \in Docs : s.docs[e].dirty => s.docs[e].open
  BY DEF Sound, Stored, NoDoc
<1>4. \A h \in Groups(s) : ~InGroup(s, h, d)
  BY DEF Sound, Stored, Viewed
<1>5. \A e \in Docs : e # d => t.docs[e] = s.docs[e]
  BY <1>1, <1>2
<1>6. \A e \in Docs : s.docs[e].dirty => t.docs[e].open /\ t.docs[e].dirty
  BY <1>3, <1>5
<1>7. \A h \in Groups(s), e \in Docs : InGroup(s, h, e) => t.docs[e].path = s.docs[e].path
  BY <1>4, <1>5
<1>8. Joined(s, t)
  BY <1>1, <1>6, <1>7 DEF Joined
<1> QED
  BY <1>8 DEF t

\* So does one that takes the place of a tab with nothing unsaved.
LEMMA ReplacedJoins ==
  ASSUME NEW s, Sound(s, Nil), NEW d \in Docs, ~s.docs[d].open, NEW doc \in Doc, doc.open,
         NEW old \in Docs, InGroup(s, s.active, old), ~Shared(s, old), ~s.docs[old].dirty,
         doc.preview => ~doc.dirty /\ \A e \in Docs : IsPreview(s, s.active, e) => e = old
  PROVE  Joined(s, Replaced(s, old, d, doc))
<1> DEFINE t == Replaced(s, old, d, doc)
<1>1. s.docs \in [Docs -> Doc] /\ s.active \in Groups(s)
  BY PartsTyped DEF Sound
<1>2. \A h \in Groups(s) : InGroup(s, h, old) => h = s.active
  BY <1>1 DEF Shared, ViewsOf
<1>3. /\ Sound(t, Nil)
      /\ Groups(t) = Groups(s) /\ t.active = s.active
      /\ t.tree = s.tree /\ t.shown = s.shown /\ t.made = s.made
      /\ \A h \in Groups(s) : h # s.active => t.strip[h] = s.strip[h]
      /\ t.docs = [s.docs EXCEPT ![old] = NoDoc, ![d] = doc]
  BY <1>2, ReplacedSound
<1> HIDE DEF t
<1>4. \A e \in Docs : s.docs[e].dirty => s.docs[e].open
  BY DEF Sound, Stored, NoDoc
<1>5. \A h \in Groups(s) : ~InGroup(s, h, d)
  BY DEF Sound, Stored, Viewed
<1>6. \A e \in Docs : e \notin {d, old} => t.docs[e] = s.docs[e]
  BY <1>1, <1>3
<1>7. \A e \in Docs : s.docs[e].dirty => t.docs[e].open /\ t.docs[e].dirty
  BY <1>4, <1>6
<1>8. \A h \in Groups(s) \ {s.active}, e \in Docs : InGroup(s, h, e) => t.docs[e].path = s.docs[e].path
  BY <1>2, <1>5, <1>6
<1>9. Joined(s, t)
  BY <1>3, <1>7, <1>8 DEF Joined
<1> QED
  BY <1>9 DEF t

\* A preview gives its place to the next one: by then it has neither edits nor a view
\* in another group.
LEMMA PreviewReplacedJoins ==
  ASSUME NEW s, Sound(s, Nil), NEW d \in Docs, ~s.docs[d].open, NEW doc \in Doc, doc.open,
         ~doc.dirty, Preview(s, s.active) # {}
  PROVE  Joined(s, PreviewReplaced(s, d, doc))
<1> DEFINE g == s.active
           old == CHOOSE e \in Preview(s, g) : TRUE
<1>1. s.docs \in [Docs -> Doc] /\ g \in Groups(s) /\ s.strip[g].tabs \in Seq(Docs)
  BY PartsTyped DEF Sound
<1>2. old \in Preview(s, g)
  OBVIOUS
<1>3. PreviewReplaced(s, d, doc) =
        IF ~Shared(s, old) /\ ~s.docs[old].dirty THEN Replaced(s, old, d, doc)
        ELSE Pushed([s EXCEPT !.docs[old].preview = FALSE], d, doc)
  BY DEF PreviewReplaced
<1> HIDE DEF old
<1>4. old \in Docs /\ IsPreview(s, g, old)
  <2>1. \A e \in Range(s.strip[g].tabs) : e \in Docs
    BY <1>1 DEF Range
  <2> QED
    BY <1>2, <2>1 DEF Preview, IsPreview, InGroup
<1>5. /\ ~s.docs[old].dirty
      /\ \A h \in Groups(s) : InGroup(s, h, old) => h = g
      /\ \A e \in Docs : IsPreview(s, g, e) => e = old
  BY <1>1, <1>4 DEF Sound, OnePreview
<1>6. ~Shared(s, old)
  BY <1>5 DEF Shared, ViewsOf
<1>7. InGroup(s, s.active, old)
  BY <1>4 DEF IsPreview
<1>8. doc.preview => ~doc.dirty /\ \A e \in Docs : IsPreview(s, s.active, e) => e = old
  BY <1>5
<1>9. PreviewReplaced(s, d, doc) = Replaced(s, old, d, doc)
  BY <1>3, <1>5, <1>6
<1> HIDE DEF g
<1> QED
  BY <1>4, <1>5, <1>6, <1>7, <1>8, <1>9, ReplacedJoins

\* open_file: nothing unsaved goes.
LEMMA OpenedSound ==
  ASSUME NEW s, Sound(s, Nil), Fresh(s, {}), NEW d \in Docs, ~s.docs[d].open,
         NEW p \in Paths, NEW preview \in BOOLEAN
  PROVE  LET u == Opened(s, d, p, preview)
         IN /\ Sound(u, Nil)
            /\ Fresh(u, {})
            /\ u.made = s.made
            /\ \A e \in Docs : s.docs[e].dirty => u.docs[e].open /\ u.docs[e].dirty
<1> DEFINE doc == [open |-> TRUE, path |-> p, dirty |-> FALSE, preview |-> preview]
           old == Selected(s, s.active)
<1>1. doc \in Doc /\ doc.open /\ ~doc.dirty /\ doc.preview = preview
  BY DEF Doc
<1>2. s.active \in Groups(s) /\ WellTyped(s)
  BY PartsTyped DEF Sound
<1>3. Opened(s, d, p, preview) =
        IF preview /\ Preview(s, s.active) # {} THEN Shown(PreviewReplaced(s, d, doc), s.active)
        ELSE IF ~Reusable(s, p) THEN Shown(Pushed(s, d, doc), s.active)
        ELSE IF ~Shared(s, old) THEN Shown(Replaced(s, old, d, doc), s.active)
        ELSE s
  BY DEF Opened
<1> HIDE DEF doc, old
<1>4. ASSUME ~(preview /\ Preview(s, s.active) # {})
      PROVE  doc.preview => ~doc.dirty /\ \A e \in Docs : ~IsPreview(s, s.active, e)
  BY <1>1, <1>4 DEF Preview, IsPreview, InGroup
<1>5. \/ Opened(s, d, p, preview) = s
      \/ \E t : Joined(s, t) /\ Opened(s, d, p, preview) = Shown(t, s.active)
  <2>1. CASE preview /\ Preview(s, s.active) # {}
    <3>1. Joined(s, PreviewReplaced(s, d, doc))
      BY <2>1, <1>1, PreviewReplacedJoins
    <3> QED
      BY <3>1, <2>1, <1>3
  <2>2. CASE ~(preview /\ Preview(s, s.active) # {}) /\ ~Reusable(s, p)
    <3>1. Joined(s, Pushed(s, d, doc))
      BY <2>2, <1>1, <1>4, PushedJoins
    <3> QED
      BY <3>1, <2>2, <1>3
  <2>3. CASE ~(preview /\ Preview(s, s.active) # {}) /\ Reusable(s, p) /\ ~Shared(s, old)
    <3>1. old # Nil /\ ~s.docs[old].dirty
      BY <2>3 DEF Reusable, old
    <3>2. old \in Docs /\ InGroup(s, s.active, old)
      BY <3>1, <1>2, SelectedIn DEF old
    <3>3. doc.preview => ~doc.dirty /\ \A e \in Docs : IsPreview(s, s.active, e) => e = old
      BY <2>3, <1>4
    <3>4. Joined(s, Replaced(s, old, d, doc))
      BY <2>3, <3>1, <3>2, <3>3, <1>1, ReplacedJoins
    <3> QED
      BY <3>4, <2>3, <1>3
  <2>4. CASE ~(preview /\ Preview(s, s.active) # {}) /\ Reusable(s, p) /\ Shared(s, old)
    BY <2>4, <1>3
  <2> QED
    BY <2>1, <2>2, <2>3, <2>4
<1>6. CASE Opened(s, d, p, preview) = s
  <2>1. \A e \in Docs : s.docs[e].dirty => s.docs[e].open
    BY DEF Sound, Stored, NoDoc
  <2> QED
    BY <1>6, <2>1
<1>7. ASSUME NEW t, Joined(s, t), Opened(s, d, p, preview) = Shown(t, s.active)
      PROVE  LET u == Opened(s, d, p, preview)
             IN /\ Sound(u, Nil)
                /\ Fresh(u, {})
                /\ u.made = s.made
                /\ \A e \in Docs : s.docs[e].dirty => u.docs[e].open /\ u.docs[e].dirty
  BY <1>2, <1>7, JoinedShown
<1> QED
  BY <1>5, <1>6, <1>7

\* place_view: a tab dropped on a group, or on an edge of one.
LEMMA PlacedSound ==
  ASSUME NEW s, Sound(s, Nil), Fresh(s, {}), NEW from \in Groups(s), NEW d \in Docs,
         InGroup(s, from, d), NEW to \in Groups(s), NEW at \in Nat \ {0}, NEW copy \in BOOLEAN
  PROVE  LET u == Placed(s, from, d, to, at, copy)
         IN /\ Sound(u, Nil)
            /\ Fresh(u, {})
            /\ u.made = s.made
            /\ \A e \in Docs : u.docs[e].open = s.docs[e].open /\ u.docs[e].dirty = s.docs[e].dirty
<1> DEFINE t == IF copy THEN ViewAdded(s, to, d, at) ELSE ViewMoved(s, from, d, to, at)
           a == ActivatedGroup(t, to)
           b == Shown(a, from)
           c == Shown(b, to)
           u == EmptyRemoved(c, from)
<1>1. Placed(s, from, d, to, at, copy) = u
  BY DEF Placed
<1>2. /\ Sound(t, Nil)
      /\ Groups(t) = Groups(s) /\ t.shown = s.shown /\ t.made = s.made
      /\ \A h \in Groups(s) : h \notin {from, to} => t.strip[h] = s.strip[h]
      /\ \A e \in Docs : /\ t.docs[e].open = s.docs[e].open
                         /\ t.docs[e].path = s.docs[e].path
                         /\ t.docs[e].dirty = s.docs[e].dirty
  <2>1. CASE copy
    <3>1. s.docs[d].open /\ (s.docs[d].preview => ~s.docs[d].dirty) /\ Nil \in {d, Nil}
      BY DEF Sound, Stored, Viewed, OnePreview, IsPreview
    <3> DEFINE v == ViewAdded(s, to, d, at)
    <3>2. /\ Sound(v, Nil)
          /\ Groups(v) = Groups(s) /\ v.active = s.active
          /\ v.tree = s.tree /\ v.shown = s.shown /\ v.made = s.made
          /\ \A h \in Groups(s) : h # to => v.strip[h] = s.strip[h]
          /\ InGroup(v, to, d) /\ Selected(v, to) = d
          /\ \A e \in Docs : /\ v.docs[e].open = s.docs[e].open
                             /\ v.docs[e].path = s.docs[e].path
                             /\ v.docs[e].dirty = s.docs[e].dirty
      BY <3>1, ViewAddedSound, SMTT(60)
    <3>3. t = v
      BY <2>1
    <3> HIDE DEF v, t
    <3> QED
      BY <3>2, <3>3
  <2>2. CASE ~copy
    <3> DEFINE v == ViewMoved(s, from, d, to, at)
    <3>1. /\ Sound(v, Nil)
          /\ Groups(v) = Groups(s) /\ v.active = s.active
          /\ v.tree = s.tree /\ v.shown = s.shown /\ v.made = s.made
          /\ \A h \in Groups(s) : h \notin {from, to} => v.strip[h] = s.strip[h]
          /\ InGroup(v, to, d)
          /\ \A e \in Docs : /\ v.docs[e].open = s.docs[e].open
                             /\ v.docs[e].path = s.docs[e].path
                             /\ v.docs[e].dirty = s.docs[e].dirty
      BY ViewMovedSound, SMTT(60)
    <3>2. t = v
      BY <2>2
    <3> HIDE DEF v, t
    <3> QED
      BY <3>1, <3>2
  <2> QED
    BY <2>1, <2>2
<1> HIDE DEF t
<1>3. /\ Sound(a, Nil)
      /\ a.docs = t.docs /\ a.strip = t.strip /\ a.tree = t.tree
      /\ a.shown = t.shown /\ a.made = t.made
  BY <1>2, ActivatedSound
<1> HIDE DEF a
<1>4. Groups(a) = Groups(s)
  BY <1>2, <1>3 DEF Groups
<1>5. Fresh(a, {from, to})
  <2>1. \A h \in Groups(a) \ {from, to} :
          /\ h \in Groups(s) \ {}
          /\ a.shown[h] = s.shown[h]
          /\ a.strip[h] = s.strip[h]
          /\ Selected(s, h) # Nil => a.docs[Selected(s, h)].path = s.docs[Selected(s, h)].path
    <3> TAKE h \in Groups(a) \ {from, to}
    <3>1. h \in Groups(s)
      BY <1>4
    <3>2. Selected(s, h) # Nil => Selected(s, h) \in Docs
      BY <3>1, SelectedIn DEF Sound
    <3> QED
      BY <3>1, <3>2, <1>2, <1>3
  <2> QED
    BY <2>1, FreshKept
<1>6. /\ Sound(b, Nil)
      /\ Fresh(b, {from, to} \ {from})
      /\ b.docs = a.docs /\ b.made = a.made
  BY <1>3, <1>5, ShownSound
<1> HIDE DEF b
<1>7. /\ Sound(c, Nil)
      /\ Fresh(c, ({from, to} \ {from}) \ {to})
      /\ c.docs = b.docs /\ c.made = b.made
  BY <1>6, ShownSound
<1> HIDE DEF c
<1>8. ({from, to} \ {from}) \ {to} = {}
  OBVIOUS
<1>9. Fresh(c, {})
  BY <1>7, <1>8
<1>10. /\ Sound(u, Nil)
       /\ Fresh(u, {})
       /\ u.docs = c.docs /\ u.made = c.made
  BY <1>7, <1>9, EmptyRemovedSound
<1> HIDE DEF u
<1> QED
  BY <1>1, <1>2, <1>3, <1>6, <1>7, <1>10

\* Unsaved text is of a document in the store.
LEMMA DirtyOpen ==
  ASSUME NEW s, NEW aside, Sound(s, aside), NEW d \in Docs, s.docs[d].dirty
  PROVE  s.docs[d].open
BY DEF Sound, Stored, NoDoc

\* An autosave leaves the editors as they are.
LEMMA AutosavedFresh ==
  ASSUME NEW s, Sound(s, Nil), NEW stale, Fresh(s, stale), NEW saves \in BOOLEAN
  PROVE  Fresh(Autosaved(s, saves), stale)
<1> DEFINE t == Autosaved(s, saves)
<1>1. /\ t.strip = s.strip /\ t.shown = s.shown
      /\ \A d \in Docs : t.docs[d].path = s.docs[d].path
  BY AutosavedSound
<1> HIDE DEF t
<1>2. Groups(t) = Groups(s)
  BY <1>1 DEF Groups
<1>3. \A g \in Groups(t) \ stale :
        /\ g \in Groups(s) \ stale
        /\ t.shown[g] = s.shown[g]
        /\ t.strip[g] = s.strip[g]
        /\ Selected(s, g) # Nil => t.docs[Selected(s, g)].path = s.docs[Selected(s, g)].path
  <2> TAKE g \in Groups(t) \ stale
  <2>1. g \in Groups(s)
    BY <1>2
  <2>2. Selected(s, g) # Nil => Selected(s, g) \in Docs
    BY <2>1, SelectedIn DEF Sound
  <2> QED
    BY <2>1, <2>2, <1>1
<1>4. Fresh(t, stale)
  BY <1>3, FreshKept
<1> QED
  BY <1>4 DEF t

\* An editor does not depend on a path that is no image's before nor after.
LEMMA PathsFresh ==
  ASSUME NEW s, Sound(s, Nil), Fresh(s, {}), NEW t, t.strip = s.strip, t.shown = s.shown,
         \A d \in Docs : IsImage(t, d) <=> IsImage(s, d)
  PROVE  Fresh(t, {})
<1> SUFFICES ASSUME NEW g \in Groups(t) PROVE t.shown[g] = Holds(t, Selected(t, g))
  BY DEF Fresh
<1>1. g \in Groups(s)
  BY DEF Groups
<1>2. s.shown[g] = Holds(s, Selected(s, g))
  BY <1>1 DEF Fresh
<1>3. Selected(t, g) = Selected(s, g)
  BY DEF Selected
<1>4. Selected(s, g) # Nil => Selected(s, g) \in Docs
  BY <1>1, SelectedIn DEF Sound
<1> QED
  BY <1>2, <1>3, <1>4 DEF Holds

\* save and Save As: the file is no image, so the editor goes on holding the text.
LEMMA SavedSound ==
  ASSUME NEW s, Sound(s, Nil), Fresh(s, {}), NEW d \in Docs, s.docs[d].open, NEW p \in Paths,
         SavedAs(s, d, p)
  PROVE  LET t == Saved(s, d, p)
         IN /\ Sound(t, Nil)
            /\ Fresh(t, {})
            /\ t.strip = s.strip /\ t.active = s.active /\ t.made = s.made
            /\ \A e \in Docs : /\ t.docs[e].open = s.docs[e].open
                               /\ e # d => t.docs[e] = s.docs[e]
                               /\ t.docs[e].dirty => s.docs[e].dirty
            /\ ~t.docs[d].dirty
<1> DEFINE docs == [s.docs EXCEPT ![d] = [s.docs[d] EXCEPT !.path = p, !.dirty = FALSE]]
           t == [s EXCEPT !.docs = docs]
<1>1. s.docs \in [Docs -> Doc] /\ s \in Window(Groups(s))
  BY PartsTyped DEF Sound, WellTyped
<1>2. Saved(s, d, p) = t
  BY <1>1 DEF Saved, Window
<1>3. /\ docs \in [Docs -> Doc]
      /\ \A e \in Docs : e # d => docs[e] = s.docs[e]
      /\ docs[d].path = p /\ ~docs[d].dirty
      /\ docs[d].open = s.docs[d].open /\ docs[d].preview = s.docs[d].preview
  BY <1>1 DEF Doc
<1> HIDE DEF docs
<1>4. \A e \in Docs : /\ docs[e].open = s.docs[e].open
                      /\ docs[e].dirty => s.docs[e].dirty \/ ~docs[e].preview
                      /\ docs[e].preview => s.docs[e].preview
                      /\ ~s.docs[e].open => docs[e] = s.docs[e]
  BY <1>3
<1>5. /\ Sound(t, Nil)
      /\ t.docs = docs /\ t.strip = s.strip /\ t.active = s.active /\ t.recent = s.recent
      /\ t.tree = s.tree /\ t.shown = s.shown /\ t.made = s.made
  BY <1>3, <1>4, DocsSound
<1> HIDE DEF t
<1>6. \A e \in Docs : IsImage(t, e) <=> IsImage(s, e)
  <2>1. IsImage(t, d) <=> IsImage(s, d)
    <3>1. s.docs[d].path # Nil => s.docs[d].path = p
      BY DEF SavedAs
    <3>2. s.docs[d].path = Nil => p \notin Images
      BY DEF SavedAs
    <3>3. s.docs[d].path \notin Images
      BY DEF SavedAs, IsImage
    <3>4. p \notin Images
      BY <3>1, <3>2, <3>3
    <3>5. t.docs[d].path = p
      BY <1>3, <1>5
    <3> QED
      BY <3>3, <3>4, <3>5 DEF IsImage
  <2> QED
    BY <2>1, <1>3, <1>5 DEF IsImage
<1>7. Fresh(t, {})
  BY <1>5, <1>6, PathsFresh
<1> QED
  BY <1>2, <1>3, <1>5, <1>7

\* documents: the first of those asked for is one of them.
LEMMA FirstPending ==
  ASSUME NEW s, WellTyped(s), NEW pending \in SUBSET Docs, NEW h \in Groups(s),
         NEW e \in pending, InGroup(s, h, e)
  PROVE  First(s, pending) \in pending
<1> DEFINE In(g) == Range(s.strip[g].tabs) \cap pending # {}
           G == {g \in Groups(s) : In(g)}
           chosen == CHOOSE g \in Groups(s) : In(g) /\ \A k \in Groups(s) : In(k) => g <= k
           tabs == s.strip[chosen].tabs
           place == CHOOSE i \in DOMAIN tabs : tabs[i] \in pending /\ \A j \in 1..(i - 1) : tabs[j] \notin pending
<1>1. First(s, pending) = tabs[place]
  BY DEF First
<1>2. \A g \in Groups(s) : g \in Nat /\ s.strip[g].tabs \in Seq(Docs)
  BY PartsTyped DEF Ids
<1>3. h \in G /\ G \in SUBSET Nat
  BY <1>2 DEF InGroup
<1>4. PICK a \in G : \A m \in G : a <= m
  BY <1>3, LeastPlace
<1>5. chosen \in Groups(s) /\ In(chosen)
  BY <1>4
<1> HIDE DEF chosen
<1>6. tabs \in Seq(Docs) /\ Range(tabs) \cap pending # {}
  BY <1>2, <1>5
<1> HIDE DEF tabs
<1> DEFINE P == {i \in DOMAIN tabs : tabs[i] \in pending}
<1>7. PICK k \in DOMAIN tabs : tabs[k] \in pending
  BY <1>6 DEF Range
<1>8. DOMAIN tabs = 1..Len(tabs) /\ Len(tabs) \in Nat
  BY <1>6
<1>9. P \in SUBSET Nat /\ P # {}
  BY <1>7, <1>8
<1>10. PICK b \in P : \A m \in P : b <= m
  BY <1>9, LeastPlace
<1>11. /\ b \in DOMAIN tabs /\ tabs[b] \in pending
       /\ \A j \in 1..(b - 1) : tabs[j] \notin pending
  <2>1. \A j \in 1..(b - 1) : j \in DOMAIN tabs /\ ~(b <= j)
    BY <1>8
  <2> QED
    BY <2>1, <1>10
<1>12. place \in DOMAIN tabs /\ tabs[place] \in pending
  BY <1>11
<1> HIDE DEF place
<1> QED
  BY <1>1, <1>12

-----------------------------------------------------------------------------
(* The steps.                                                              *)

\* Which documents with unsaved text a step may close: what ClosedOnlyAsAgreed says
\* of every step.
Agreed ==
  \A d \in Docs : win.docs[d].dirty /\ ~win'.docs[d].open =>
    \/ ask.kind = "close" /\ ask.doc = d /\ ~ask.changed
    \/ SavedOnLeaving(d)
    \/ ask.kind = "delete" /\ ask.doc = d

\* A step that closes no document closes none unasked.
LEMMA AgreedIfOpen ==
  ASSUME Sound(win, Nil), \A d \in Docs : win.docs[d].open => win'.docs[d].open
  PROVE  Agreed
BY DirtyOpen DEF Agreed

\* Text saved as its tab was left was in a note of a notebook.
LEMMA SavedFirst ==
  ASSUME ask.kind = "none", NEW saves \in BOOLEAN, NEW d \in Docs, win.docs[d].dirty,
         ~Autosaved(win, saves).docs[d].dirty
  PROVE  SavedOnLeaving(d)
<1>1. CASE saves = TRUE
  BY <1>1 DEF SavedOnLeaving
<1>2. CASE saves = FALSE
  BY <1>2 DEF Autosaved
<1> QED
  BY <1>1, <1>2

\* Groups are counted from one; zero names none.
LEMMA IdsArePositive == 0 \notin Ids /\ Ids \subseteq Nat
BY DEF Ids

\* After a question nothing is under way.
LEMMA NothingAsked ==
  ASSUME WindowInv, room' = room, Sound(win', Nil), Fresh(win', {}), win'.made = win.made,
         ask' = NoAsk
  PROVE  WindowInv'
<1>1. NoAsk \in Ask /\ NoAsk.kind = "none" /\ NoAsk.group = 0
  BY DEF NoAsk, Ask
<1>2. 0 \notin Groups(win')
  BY IdsArePositive DEF Sound, WellTyped
<1>3. AskHolds'
  BY <1>1, <1>2 DEF AskHolds, Asking
<1> QED
  BY <1>3 DEF WindowInv

\* A command while nothing is under way.
LEMMA FreeStep ==
  ASSUME WindowInv, Free, ask' = ask, room' = room, Sound(win', Nil), Fresh(win', {}),
         win'.made <= room.groups
  PROVE  WindowInv'
<1>1. ask \in Ask /\ ask.kind = "none" /\ ask.group = 0
  BY DEF WindowInv, AskHolds, Free
<1>2. 0 \notin Groups(win')
  BY IdsArePositive DEF Sound, WellTyped
<1>3. AskHolds'
  BY <1>1, <1>2 DEF AskHolds, Asking
<1> QED
  BY <1>3 DEF WindowInv

\* What a step starts from.
LEMMA WindowParts ==
  ASSUME WindowInv
  PROVE  /\ Sound(win, Nil) /\ Fresh(win, {}) /\ AskHolds /\ WellTyped(win)
         /\ room \in Rooms /\ win.made \in Nat /\ room.groups \in Nat /\ win.made <= room.groups
         /\ room.paths \subseteq Paths
         /\ win.active \in Groups(win)
         /\ win.docs \in [Docs -> Doc]
         /\ Saves \subseteq BOOLEAN
         /\ MaxViews \in Nat \ {0} /\ 1..MaxViews \subseteq Nat \ {0}
         /\ HasRoom(win) => win.made + 1 \in Ids /\ win.made + 1 <= room.groups
<1>1. Sound(win, Nil) /\ Fresh(win, {}) /\ AskHolds /\ room \in Rooms /\ win.made <= room.groups
  BY DEF WindowInv
<1>2. WellTyped(win)
  BY <1>1 DEF Sound
<1>3. win.made \in Nat /\ win.active \in Groups(win) /\ win.docs \in [Docs -> Doc]
  BY <1>2, PartsTyped
<1>4. room.groups \in Nat \ {0} /\ room.paths \subseteq Paths
  BY <1>1, TabGroupsAssumption
<1>5. HasRoom(win) => win.made + 1 \in Ids /\ win.made + 1 <= room.groups
  BY <1>1, <1>3, <1>4 DEF HasRoom, Ids
<1>6. Saves \subseteq BOOLEAN
  BY DEF Saves
<1>7. MaxViews \in Nat \ {0} /\ 1..MaxViews \subseteq Nat \ {0}
  BY TabGroupsAssumption
<1> QED
  BY <1>1, <1>2, <1>3, <1>4, <1>5, <1>6, <1>7

\* Files opened. The tab being left may have been saved first.
LEMMA NewDocumentStep ==
  ASSUME WindowInv, UNCHANGED room, NEW d \in Docs, NEW saves \in Saves, NewDocument(d, saves)
  PROVE  WindowInv' /\ Agreed
<1> DEFINE s == Autosaved(win, saves)
           doc == [NoDoc EXCEPT !.open = TRUE]
<1>1. /\ Free /\ UNCHANGED ask /\ ~win.docs[d].open
      /\ win' = Shown(Pushed(s, d, doc), win.active)
  BY DEF NewDocument, IsFree
<1>2. /\ Sound(s, Nil) /\ Fresh(s, {})
      /\ s.active = win.active /\ s.made = win.made
      /\ \A e \in Docs : s.docs[e].open = win.docs[e].open
  BY WindowParts, AutosavedSound, AutosavedFresh
<1>3. doc \in Doc /\ doc.open /\ ~doc.preview
  BY DEF doc, NoDoc, Doc
<1>4. ASSUME NEW e \in Docs, win.docs[e].dirty, ~s.docs[e].dirty PROVE SavedOnLeaving(e)
  BY <1>1, <1>4, WindowParts, SavedFirst DEF Free
<1> HIDE DEF s, doc
<1>5. Joined(s, Pushed(s, d, doc)) /\ WellTyped(s)
  BY <1>1, <1>2, <1>3, PushedJoins DEF Sound
<1>6. /\ Sound(win', Nil) /\ Fresh(win', {}) /\ win'.made = s.made
      /\ \A e \in Docs : s.docs[e].dirty => win'.docs[e].open
  BY <1>1, <1>2, <1>5, JoinedShown
<1>7. WindowInv'
  BY <1>1, <1>2, <1>6, WindowParts, FreeStep
<1>8. Agreed
  BY <1>4, <1>6 DEF Agreed
<1> QED
  BY <1>7, <1>8

LEMMA OpenAgainStep ==
  ASSUME WindowInv, UNCHANGED room, NEW d \in Docs, NEW p \in room.paths, NEW saves \in Saves,
         OpenAgain(d, p, saves)
  PROVE  WindowInv' /\ Agreed
<1> DEFINE g == win.active
<1>1. /\ Free /\ UNCHANGED ask /\ win.docs[d].open
      /\ win' = IF InGroup(win, g, d) THEN ActivatedIn(win, g, d, saves)
                ELSE Shown(ViewAdded(Autosaved(win, saves), g, d, MaxViews), g)
  BY DEF OpenAgain
<1>2. Sound(win, Nil) /\ Fresh(win, {}) /\ g \in Groups(win) /\ saves \in BOOLEAN
      /\ MaxViews \in Nat \ {0} /\ win.made <= room.groups
  BY WindowParts
<1> HIDE DEF g
<1>3. /\ Sound(win', Nil) /\ Fresh(win', {}) /\ win'.made = win.made
      /\ \A e \in Docs : win'.docs[e].open = win.docs[e].open
  <2>1. CASE InGroup(win, g, d)
    <3> DEFINE t == ActivatedIn(win, g, d, saves)
    <3>1. /\ Sound(t, Nil) /\ Fresh(t, {} \ {g}) /\ t.made = win.made /\ Tidied(win, t)
      BY <2>1, <1>2, ActivatedInSound
    <3>2. {} \ {g} = {}
      OBVIOUS
    <3>3. win' = t
      BY <2>1, <1>1
    <3> HIDE DEF t
    <3> QED
      BY <3>1, <3>2, <3>3 DEF Tidied
  <2>2. CASE ~InGroup(win, g, d)
    <3> DEFINE s == Autosaved(win, saves)
               t == ViewAdded(s, g, d, MaxViews)
               u == Shown(t, g)
    <3>1. /\ Sound(s, Nil) /\ Fresh(s, {}) /\ s.made = win.made /\ s.strip = win.strip
          /\ \A e \in Docs : s.docs[e].open = win.docs[e].open
      BY <1>2, AutosavedSound, AutosavedFresh
    <3> HIDE DEF s
    <3>2. g \in Groups(s) /\ s.docs[d].open /\ WellTyped(s)
      BY <1>1, <1>2, <3>1 DEF Groups, Sound
    <3>3. s.docs[d].preview => ~s.docs[d].dirty
      <4>1. PICK h \in Groups(s) : InGroup(s, h, d)
        BY <3>1, <3>2, TabGroupsAssumption DEF Sound, Stored, Viewed
      <4> QED
        BY <4>1, <3>1 DEF Sound, OnePreview, IsPreview
    <3>4. /\ Sound(t, Nil)
          /\ Groups(t) = Groups(s) /\ t.active = s.active
          /\ t.tree = s.tree /\ t.shown = s.shown /\ t.made = s.made
          /\ \A h \in Groups(s) : h # g => t.strip[h] = s.strip[h]
          /\ InGroup(t, g, d) /\ Selected(t, g) = d
          /\ \A e \in Docs : /\ t.docs[e].open = s.docs[e].open
                             /\ t.docs[e].path = s.docs[e].path
                             /\ t.docs[e].dirty = s.docs[e].dirty
      <4>1. Nil \in {d, Nil}
        OBVIOUS
      <4> QED
        BY <4>1, <1>2, <3>1, <3>2, <3>3, ViewAddedSound, SMTT(60)
    <3> HIDE DEF t
    <3>5. \A h \in Groups(s) \ {g} :
            /\ t.strip[h] = s.strip[h]
            /\ \A e \in Docs : InGroup(s, h, e) => t.docs[e].path = s.docs[e].path
      BY <3>4
    <3>6. /\ Sound(u, Nil) /\ Fresh(u, {} \ {g}) /\ u.docs = t.docs /\ u.made = t.made
      BY <3>1, <3>2, <3>4, <3>5, EditorShown
    <3>7. {} \ {g} = {}
      OBVIOUS
    <3>8. win' = u
      BY <2>2, <1>1 DEF s, t
    <3> HIDE DEF u
    <3> QED
      BY <3>1, <3>4, <3>6, <3>7, <3>8
  <2> QED
    BY <2>1, <2>2
<1>4. WindowInv'
  BY <1>1, <1>2, <1>3, FreeStep
<1>5. Agreed
  BY <1>2, <1>3, AgreedIfOpen
<1> QED
  BY <1>4, <1>5

LEMMA OpenFileStep ==
  ASSUME WindowInv, UNCHANGED room, NEW d \in Docs, NEW p \in room.paths, NEW preview \in BOOLEAN,
         NEW saves \in Saves, OpenFile(d, p, preview, saves)
  PROVE  WindowInv' /\ Agreed
<1> DEFINE s == Autosaved(win, saves)
<1>1. Free /\ UNCHANGED ask /\ ~win.docs[d].open /\ win' = Opened(s, d, p, preview)
  BY DEF OpenFile, IsFree
<1>2. /\ Sound(s, Nil) /\ Fresh(s, {}) /\ s.made = win.made
      /\ \A e \in Docs : s.docs[e].open = win.docs[e].open
  BY WindowParts, AutosavedSound, AutosavedFresh
<1>3. ASSUME NEW e \in Docs, win.docs[e].dirty, ~s.docs[e].dirty PROVE SavedOnLeaving(e)
  BY <1>1, <1>3, WindowParts, SavedFirst DEF Free
<1> HIDE DEF s
<1>4. p \in Paths /\ win.made <= room.groups
  BY WindowParts
<1>5. /\ Sound(win', Nil) /\ Fresh(win', {}) /\ win'.made = s.made
      /\ \A e \in Docs : s.docs[e].dirty => win'.docs[e].open
  BY <1>1, <1>2, <1>4, OpenedSound
<1>6. WindowInv'
  BY <1>1, <1>2, <1>4, <1>5, FreeStep
<1>7. Agreed
  BY <1>3, <1>5 DEF Agreed
<1> QED
  BY <1>6, <1>7

\* A command that only changes the open documents' text and preview flag.
LEMMA DocumentChanged ==
  ASSUME WindowInv, UNCHANGED room, Free, UNCHANGED ask, NEW docs \in [Docs -> Doc],
         win' = [win EXCEPT !.docs = docs],
         \A d \in Docs : /\ docs[d].open = win.docs[d].open
                         /\ docs[d].path = win.docs[d].path
                         /\ docs[d].dirty => win.docs[d].dirty \/ ~docs[d].preview
                         /\ docs[d].preview => win.docs[d].preview
                         /\ ~win.docs[d].open => docs[d] = win.docs[d]
  PROVE  WindowInv' /\ Agreed
<1>1. Sound(win, Nil) /\ Fresh(win, {}) /\ win.made <= room.groups
  BY WindowParts
<1> DEFINE t == [win EXCEPT !.docs = docs]
<1>2. /\ Sound(t, Nil)
      /\ t.docs = docs /\ t.strip = win.strip /\ t.active = win.active /\ t.recent = win.recent
      /\ t.tree = win.tree /\ t.shown = win.shown /\ t.made = win.made
  BY <1>1, DocsSound
<1>3. win' = t
  OBVIOUS
<1> HIDE DEF t
<1>4. Fresh(t, {})
  <2>1. \A g \in Groups(t) \ {} :
          /\ g \in Groups(win) \ {}
          /\ t.shown[g] = win.shown[g]
          /\ t.strip[g] = win.strip[g]
          /\ Selected(win, g) # Nil => t.docs[Selected(win, g)].path = win.docs[Selected(win, g)].path
    <3> TAKE g \in Groups(t) \ {}
    <3>1. g \in Groups(win)
      BY <1>2 DEF Groups
    <3>2. Selected(win, g) # Nil => Selected(win, g) \in Docs
      BY <3>1, <1>1, SelectedIn DEF Sound
    <3> QED
      BY <3>1, <3>2, <1>2
  <2> QED
    BY <2>1, <1>1, FreshKept
<1>5. WindowInv'
  BY <1>1, <1>2, <1>3, <1>4, FreeStep
<1>6. Agreed
  BY <1>1, <1>2, <1>3, AgreedIfOpen
<1> QED
  BY <1>5, <1>6

\* Edits and saves of a document in place.
LEMMA PromoteStep ==
  ASSUME WindowInv, UNCHANGED room, NEW d \in Docs, Promote(d)
  PROVE  WindowInv' /\ Agreed
<1> DEFINE docs == [win.docs EXCEPT ![d].preview = FALSE]
<1>1. win.docs \in [Docs -> Doc] /\ win \in Window(Groups(win)) /\ Sound(win, Nil)
  BY WindowParts DEF WellTyped
<1>2. Free /\ UNCHANGED ask /\ win' = [win EXCEPT !.docs = docs] /\ win.docs[d].preview
  BY <1>1 DEF Promote, Window
<1>3. win.docs[d].open
  BY <1>1, <1>2 DEF Sound, Stored, NoDoc
<1>4. /\ docs \in [Docs -> Doc]
      /\ \A e \in Docs : e # d => docs[e] = win.docs[e]
      /\ docs[d].open = win.docs[d].open /\ docs[d].path = win.docs[d].path
      /\ docs[d].dirty = win.docs[d].dirty /\ ~docs[d].preview
  BY <1>1 DEF Doc
<1> HIDE DEF docs
<1>5. \A e \in Docs : /\ docs[e].open = win.docs[e].open
                      /\ docs[e].path = win.docs[e].path
                      /\ docs[e].dirty => win.docs[e].dirty \/ ~docs[e].preview
                      /\ docs[e].preview => win.docs[e].preview
                      /\ ~win.docs[e].open => docs[e] = win.docs[e]
  BY <1>3, <1>4
<1> QED
  BY <1>2, <1>4, <1>5, DocumentChanged

LEMMA TypeStep ==
  ASSUME WindowInv, UNCHANGED room, Type
  PROVE  WindowInv' /\ Agreed
<1> DEFINE d == Selected(win, win.active)
           docs == [win.docs EXCEPT ![d] = [win.docs[d] EXCEPT !.dirty = TRUE, !.preview = FALSE]]
<1>1. /\ win.docs \in [Docs -> Doc] /\ win \in Window(Groups(win)) /\ Sound(win, Nil)
      /\ win.active \in Groups(win) /\ WellTyped(win)
  BY WindowParts DEF WellTyped
<1>2. Free /\ UNCHANGED ask /\ win' = [win EXCEPT !.docs = docs] /\ d # Nil
  <2>1. /\ Free /\ UNCHANGED ask /\ d # Nil
        /\ win' = [win EXCEPT !.docs[d] = [@ EXCEPT !.dirty = TRUE, !.preview = FALSE]]
    BY DEF Type
  <2> HIDE DEF d
  <2> QED
    BY <1>1, <2>1 DEF Window
<1>3. d \in Docs /\ InGroup(win, win.active, d)
  BY <1>1, <1>2, SelectedIn
<1> HIDE DEF d
<1>4. win.docs[d].open
  BY <1>1, <1>3 DEF Sound, Stored, Viewed
<1>5. /\ docs \in [Docs -> Doc]
      /\ \A e \in Docs : e # d => docs[e] = win.docs[e]
      /\ docs[d].open = win.docs[d].open /\ docs[d].path = win.docs[d].path
      /\ ~docs[d].preview
  BY <1>1, <1>3 DEF Doc
<1> HIDE DEF docs
<1>6. \A e \in Docs : /\ docs[e].open = win.docs[e].open
                      /\ docs[e].path = win.docs[e].path
                      /\ docs[e].dirty => win.docs[e].dirty \/ ~docs[e].preview
                      /\ docs[e].preview => win.docs[e].preview
                      /\ ~win.docs[e].open => docs[e] = win.docs[e]
  BY <1>4, <1>5
<1> QED
  BY <1>2, <1>5, <1>6, DocumentChanged

LEMMA SaveTabStep ==
  ASSUME WindowInv, UNCHANGED room, NEW p \in room.paths, SaveTab(p)
  PROVE  WindowInv' /\ Agreed
<1> DEFINE d == Selected(win, win.active)
           t == Saved(win, d, p)
<1>1. /\ Sound(win, Nil) /\ Fresh(win, {}) /\ win.active \in Groups(win) /\ WellTyped(win)
      /\ p \in Paths /\ win.made <= room.groups
  BY WindowParts
<1>2. Free /\ UNCHANGED ask /\ win' = t /\ d # Nil /\ SavedAs(win, d, p)
  BY DEF SaveTab
<1>3. d \in Docs /\ InGroup(win, win.active, d)
  BY <1>1, <1>2, SelectedIn
<1> HIDE DEF d
<1>4. win.docs[d].open
  BY <1>1, <1>3 DEF Sound, Stored, Viewed
<1>5. /\ Sound(t, Nil) /\ Fresh(t, {}) /\ t.made = win.made
      /\ \A e \in Docs : t.docs[e].open = win.docs[e].open
  BY <1>1, <1>2, <1>3, <1>4, SavedSound
<1> HIDE DEF t
<1>6. WindowInv'
  BY <1>1, <1>2, <1>5, FreeStep
<1>7. Agreed
  BY <1>1, <1>2, <1>5, AgreedIfOpen
<1> QED
  BY <1>6, <1>7

\* Another group active leaves the editors as they are.
LEMMA ActivatedFresh ==
  ASSUME NEW s, Sound(s, Nil), Fresh(s, {}), NEW g
  PROVE  LET t == ActivatedGroup(s, g)
         IN Sound(t, Nil) /\ Fresh(t, {}) /\ t.docs = s.docs /\ t.made = s.made
<1> DEFINE t == ActivatedGroup(s, g)
<1>1. /\ Sound(t, Nil)
      /\ t.docs = s.docs /\ t.strip = s.strip /\ t.tree = s.tree
      /\ t.shown = s.shown /\ t.made = s.made
  BY ActivatedSound
<1> HIDE DEF t
<1>2. \A d \in Docs : IsImage(t, d) <=> IsImage(s, d)
  BY <1>1 DEF IsImage
<1>3. Fresh(t, {})
  BY <1>1, <1>2, PathsFresh
<1> QED
  BY <1>1, <1>3 DEF t

\* The focus.
LEMMA ClickGroupStep ==
  ASSUME WindowInv, UNCHANGED room, NEW g \in Groups(win), ClickGroup(g)
  PROVE  WindowInv' /\ Agreed
<1> DEFINE t == ActivatedGroup(win, g)
<1>1. Free /\ UNCHANGED ask /\ win' = t
  BY DEF ClickGroup
<1>2. Sound(win, Nil) /\ Fresh(win, {}) /\ win.made <= room.groups
  BY WindowParts
<1>3. Sound(t, Nil) /\ Fresh(t, {}) /\ t.docs = win.docs /\ t.made = win.made
  BY <1>2, ActivatedFresh
<1> HIDE DEF t
<1>4. WindowInv'
  BY <1>1, <1>2, <1>3, FreeStep
<1>5. Agreed
  BY <1>1, <1>2, <1>3, AgreedIfOpen
<1> QED
  BY <1>4, <1>5

LEMMA FocusViewStep ==
  ASSUME WindowInv, UNCHANGED room, NEW g \in Groups(win), NEW d \in Docs, NEW saves \in Saves,
         FocusView(g, d, saves)
  PROVE  WindowInv' /\ Agreed
<1> DEFINE t == ViewFocused(win, g, d, saves)
<1>1. Free /\ UNCHANGED ask /\ win' = t /\ InGroup(win, g, d)
  BY DEF FocusView
<1>2. Sound(win, Nil) /\ Fresh(win, {}) /\ win.made <= room.groups /\ saves \in BOOLEAN
  BY WindowParts
<1>3. Sound(t, Nil) /\ Fresh(t, {}) /\ t.made = win.made /\ Tidied(win, t)
  BY <1>1, <1>2, ViewFocusedSound
<1> HIDE DEF t
<1>4. WindowInv'
  BY <1>1, <1>2, <1>3, FreeStep
<1>5. Agreed
  BY <1>1, <1>2, <1>3, AgreedIfOpen DEF Tidied
<1> QED
  BY <1>4, <1>5

\* Groups split and tabs moved between them.
LEMMA SplitStep ==
  ASSUME WindowInv, UNCHANGED room, NEW target \in Groups(win), NEW direction \in Directions,
         Free, UNCHANGED ask, HasRoom(win), win' = SplitWithView(win, target, direction)
  PROVE  WindowInv' /\ Agreed
<1>1. /\ Sound(win, Nil) /\ Fresh(win, {}) /\ win.made + 1 \in Ids /\ win.made + 1 <= room.groups
  BY WindowParts
<1>2. /\ Sound(win', Nil) /\ Fresh(win', {}) /\ win'.made = win.made + 1
      /\ \A e \in Docs : win'.docs[e].open = win.docs[e].open
  BY <1>1, SplitWithViewSound
<1>3. WindowInv'
  BY <1>1, <1>2, FreeStep
<1>4. Agreed
  BY <1>1, <1>2, AgreedIfOpen
<1> QED
  BY <1>3, <1>4

LEMMA SplitActiveGroupStep ==
  ASSUME WindowInv, UNCHANGED room, NEW direction \in {"right", "down"}, SplitActiveGroup(direction)
  PROVE  WindowInv' /\ Agreed
<1>1. direction \in Directions /\ win.active \in Groups(win)
  BY WindowParts DEF Directions
<1>2. Free /\ UNCHANGED ask /\ HasRoom(win) /\ win' = SplitWithView(win, win.active, direction)
  BY DEF SplitActiveGroup
<1> QED
  BY <1>1, <1>2, SplitStep

\* The layout's groups, in order.
LEMMA OrderOfGroups ==
  ASSUME NEW s, Sound(s, Nil)
  PROVE  LET order == LeavesOf(s.tree)
         IN /\ order \in Seq(Ids) /\ IsInjective(order) /\ Range(order) = Groups(s)
            /\ DOMAIN order = 1..Len(order) /\ Len(order) \in Nat /\ Len(order) # 0
            /\ \A i \in 1..Len(order) : order[i] \in Groups(s)
            /\ \A g \in Groups(s) : IndexOf(g, order) \in 1..Len(order) /\ order[IndexOf(g, order)] = g
<1> DEFINE order == LeavesOf(s.tree)
<1>1. s.tree \in Layouts /\ Range(order) = Groups(s) /\ s.active \in Groups(s)
  BY PartsTyped DEF Sound
<1>2. order \in Seq(Ids) /\ IsInjective(order)
  BY <1>1, LayoutAssumption
<1> HIDE DEF order
<1>3. DOMAIN order = 1..Len(order) /\ Len(order) \in Nat
  BY <1>2
<1>4. \A i \in 1..Len(order) : order[i] \in Groups(s)
  BY <1>1, <1>3 DEF Range
<1>5. \A g \in Groups(s) : IndexOf(g, order) \in 1..Len(order) /\ order[IndexOf(g, order)] = g
  BY <1>1, <1>2, IndexFound
<1>6. Len(order) # 0
  BY <1>1, <1>3, <1>5
<1> QED
  BY <1>1, <1>2, <1>3, <1>4, <1>5, <1>6 DEF order

LEMMA FocusNewGroupStep ==
  ASSUME WindowInv, UNCHANGED room, FocusNewGroup
  PROVE  WindowInv' /\ Agreed
<1> DEFINE order == LeavesOf(win.tree)
<1>1. Free /\ UNCHANGED ask /\ HasRoom(win) /\ win' = SplitWithView(win, order[Len(order)], "right")
  BY DEF FocusNewGroup, Last
<1>2. Len(order) \in Nat /\ Len(order) # 0 /\ \A i \in 1..Len(order) : order[i] \in Groups(win)
  BY WindowParts, OrderOfGroups
<1> HIDE DEF order
<1>3. order[Len(order)] \in Groups(win) /\ "right" \in Directions
  BY <1>2 DEF Directions
<1> QED
  BY <1>1, <1>3, SplitStep

\* A tab placed in a group that is there, or in a new one.
LEMMA PlacedStep ==
  ASSUME WindowInv, UNCHANGED room, Free, UNCHANGED ask,
         NEW s, Sound(s, Nil), Fresh(s, {}), s.docs = win.docs, s.made <= room.groups,
         NEW from \in Groups(s), NEW d \in Docs, InGroup(s, from, d), NEW to \in Groups(s),
         NEW at \in Nat \ {0}, NEW copy \in BOOLEAN, win' = Placed(s, from, d, to, at, copy)
  PROVE  WindowInv' /\ Agreed
<1>1. /\ Sound(win', Nil) /\ Fresh(win', {}) /\ win'.made = s.made
      /\ \A e \in Docs : win'.docs[e].open = s.docs[e].open
  BY PlacedSound
<1>2. WindowInv'
  BY <1>1, FreeStep
<1>3. Agreed
  BY <1>1, WindowParts, AgreedIfOpen
<1> QED
  BY <1>2, <1>3

LEMMA PlacedInNewStep ==
  ASSUME WindowInv, UNCHANGED room, Free, UNCHANGED ask, HasRoom(win),
         NEW from \in Groups(win), NEW d \in Docs, InGroup(win, from, d),
         NEW target \in Groups(win), NEW direction \in Directions, NEW copy \in BOOLEAN,
         win' = Placed(SplitOff(win, target, direction), from, d, win.made + 1, MaxViews, copy)
  PROVE  WindowInv' /\ Agreed
<1> DEFINE s == SplitOff(win, target, direction)
           new == win.made + 1
<1>1. /\ Sound(win, Nil) /\ Fresh(win, {}) /\ new \in Ids /\ new <= room.groups
      /\ MaxViews \in Nat \ {0}
  BY WindowParts
<1>2. /\ Sound(s, Nil) /\ Fresh(s, {}) /\ s.docs = win.docs /\ s.made = new
      /\ Groups(s) = Groups(win) \cup {new}
      /\ \A h \in Groups(win) : s.strip[h] = win.strip[h]
  BY <1>1, SplitOffSound
<1>3. win' = Placed(s, from, d, new, MaxViews, copy)
  OBVIOUS
<1> HIDE DEF s, new
<1>4. from \in Groups(s) /\ new \in Groups(s) /\ InGroup(s, from, d) /\ s.made <= room.groups
  BY <1>1, <1>2 DEF InGroup
<1> QED
  BY <1>1, <1>2, <1>3, <1>4, PlacedStep

LEMMA MoveActiveViewStep ==
  ASSUME WindowInv, UNCHANGED room, NEW forward \in BOOLEAN, MoveActiveView(forward)
  PROVE  WindowInv' /\ Agreed
<1> DEFINE d == Selected(win, win.active)
           order == LeavesOf(win.tree)
           i == IndexOf(win.active, order)
           next == IF forward THEN i + 1 ELSE i - 1
<1>1. /\ Free /\ d # Nil /\ UNCHANGED ask
      /\ next > 0
      /\ next > Len(order) => HasRoom(win)
      /\ win' = IF next \in DOMAIN order
                THEN Placed(win, win.active, d, order[next], MaxViews, FALSE)
                ELSE Placed(SplitOff(win, win.active, "right"), win.active, d, win.made + 1, MaxViews, FALSE)
  BY DEF MoveActiveView
<1>2. /\ Sound(win, Nil) /\ Fresh(win, {}) /\ win.active \in Groups(win) /\ WellTyped(win)
      /\ MaxViews \in Nat \ {0} /\ win.made <= room.groups
  BY WindowParts
<1>3. d \in Docs /\ InGroup(win, win.active, d)
  BY <1>1, <1>2, SelectedIn
<1> HIDE DEF d
<1>4. /\ DOMAIN order = 1..Len(order) /\ Len(order) \in Nat
      /\ \A j \in 1..Len(order) : order[j] \in Groups(win)
      /\ i \in 1..Len(order)
  BY <1>2, OrderOfGroups
<1> HIDE DEF order, i
<1>5. CASE next \in DOMAIN order
  <2>1. order[next] \in Groups(win) /\ FALSE \in BOOLEAN
    BY <1>4, <1>5
  <2>2. win' = Placed(win, win.active, d, order[next], MaxViews, FALSE)
    BY <1>1, <1>5
  <2> HIDE DEF next
  <2> QED
    BY <2>1, <2>2, <1>1, <1>2, <1>3, PlacedStep
<1>6. CASE next \notin DOMAIN order
  <2>1. next > Len(order)
    BY <1>1, <1>4, <1>6
  <2>2. HasRoom(win) /\ "right" \in Directions /\ FALSE \in BOOLEAN
    BY <2>1, <1>1 DEF Directions
  <2>3. win' = Placed(SplitOff(win, win.active, "right"), win.active, d, win.made + 1, MaxViews, FALSE)
    BY <1>1, <1>6
  <2> HIDE DEF next
  <2> QED
    BY <2>2, <2>3, <1>1, <1>2, <1>3, PlacedInNewStep
<1> QED
  BY <1>5, <1>6

LEMMA DropOnGroupStep ==
  ASSUME WindowInv, UNCHANGED room, NEW from \in Groups(win), NEW to \in Groups(win),
         NEW d \in Docs, NEW at \in 1..MaxViews, NEW copy \in BOOLEAN,
         DropOnGroup(from, d, to, at, copy)
  PROVE  WindowInv' /\ Agreed
<1>1. /\ Free /\ UNCHANGED ask /\ InGroup(win, from, d)
      /\ win' = Placed(win, from, d, to, at, copy)
  BY DEF DropOnGroup
<1>2. /\ Sound(win, Nil) /\ Fresh(win, {}) /\ win.made <= room.groups /\ at \in Nat \ {0}
  BY WindowParts
<1> QED
  BY <1>1, <1>2, PlacedStep

LEMMA DropOnEdgeStep ==
  ASSUME WindowInv, UNCHANGED room, NEW from \in Groups(win), NEW target \in Groups(win),
         NEW d \in Docs, NEW direction \in Edges, NEW copy \in BOOLEAN,
         DropOnEdge(from, d, target, direction, copy)
  PROVE  WindowInv' /\ Agreed
<1>1. /\ Free /\ UNCHANGED ask /\ InGroup(win, from, d) /\ HasRoom(win)
      /\ win' = Placed(SplitOff(win, target, direction), from, d, win.made + 1, MaxViews, copy)
  BY DEF DropOnEdge
<1>2. direction \in Directions
  BY DEF Directions
<1> QED
  BY <1>1, <1>2, PlacedInNewStep

\* A strip put in another order shows the same tab.
LEMMA ReorderStep ==
  ASSUME WindowInv, UNCHANGED room, NEW g \in Groups(win), NEW d \in Docs, NEW to \in 1..MaxViews,
         Reorder(g, d, to)
  PROVE  WindowInv' /\ Agreed
<1> DEFINE from == IndexOf(d, win.strip[g].tabs)
           s == Reordered(win, g, from, to)
<1>1. /\ Free /\ UNCHANGED ask /\ InGroup(win, g, d) /\ to \in DOMAIN win.strip[g].tabs
      /\ \E saves \in Saves : win' = ViewFocused(s, g, d, saves)
  BY DEF Reorder
<1>2. PICK saves \in Saves : win' = ViewFocused(s, g, d, saves)
  BY <1>1
<1>3. /\ Sound(win, Nil) /\ Fresh(win, {}) /\ win.made <= room.groups /\ saves \in BOOLEAN
      /\ WellTyped(win)
  BY WindowParts
<1>4. from \in DOMAIN win.strip[g].tabs
  <2>1. win.strip[g].tabs \in Seq(Docs)
    BY <1>3, PartsTyped
  <2>2. from \in 1..Len(win.strip[g].tabs)
    BY <2>1, <1>1, IndexFound DEF InGroup
  <2> QED
    BY <2>1, <2>2
<1> HIDE DEF from
<1>5. /\ Sound(s, Nil)
      /\ s.docs = win.docs /\ s.active = win.active
      /\ s.tree = win.tree /\ s.shown = win.shown /\ s.made = win.made
      /\ Groups(s) = Groups(win)
      /\ \A h \in Groups(win) : Selected(s, h) = Selected(win, h)
      /\ \A h \in Groups(win), e \in Docs : InGroup(s, h, e) <=> InGroup(win, h, e)
  BY <1>1, <1>3, <1>4, StripReordered
<1> HIDE DEF s
<1>6. Fresh(s, {}) /\ InGroup(s, g, d) /\ g \in Groups(s)
  BY <1>1, <1>3, <1>5 DEF Fresh, Holds, IsImage
<1>7. /\ Sound(win', Nil) /\ Fresh(win', {}) /\ win'.made = s.made /\ Tidied(s, win')
  BY <1>2, <1>3, <1>5, <1>6, ViewFocusedSound
<1>8. WindowInv'
  BY <1>1, <1>3, <1>5, <1>7, FreeStep
<1>9. Agreed
  BY <1>3, <1>5, <1>7, AgreedIfOpen DEF Tidied
<1> QED
  BY <1>8, <1>9

\* A tab that is not the selected one goes: the selected one stays selected.
LEMMA BackgroundRemoved ==
  ASSUME NEW s, Sound(s, Nil), NEW g \in Groups(s), NEW d \in Docs, InGroup(s, g, d),
         d # Selected(s, g)
  PROVE  Selected(TabRemoved(s, g, d), g) = Selected(s, g)
<1> DEFINE tabs == s.strip[g].tabs
           p == IndexOf(d, tabs)
           left == RemoveAt(tabs, p)
           selected == s.strip[g].sel
           sel == IF p = selected THEN SelectAfterRemoval(left, p)
                  ELSE IF p < selected THEN selected - 1 ELSE selected
           placed == [tabs |-> left, sel |-> sel]
           t == Forgotten([s EXCEPT !.strip[g] = placed], g, d)
<1>1. TabRemoved(s, g, d) = IF ViewsOf(t, d) = {} THEN [t EXCEPT !.docs[d] = NoDoc] ELSE t
  BY DEF TabRemoved
<1>2. tabs \in Seq(Docs) /\ (tabs # <<>> => selected \in 1..Len(tabs))
      /\ s.strip \in [Groups(s) -> Strip] /\ s \in Window(Groups(s))
  BY PartsTyped DEF Sound, WellTyped
<1>3. p \in 1..Len(tabs) /\ tabs[p] = d
  BY <1>2, IndexFound DEF InGroup
<1> DEFINE q == Without(s.recent, <<g, d>>)
<1>4. t = [s EXCEPT !.strip = [@ EXCEPT ![g] = placed], !.recent = q]
  BY <1>2 DEF Forgotten, Window
<1> HIDE DEF placed, t, q
<1>5. TabRemoved(s, g, d).strip = [s.strip EXCEPT ![g] = placed]
  <2>1. t.strip = [s.strip EXCEPT ![g] = placed]
    BY <1>2, <1>4 DEF Window
  <2>2. [t EXCEPT !.docs[d] = NoDoc].strip = t.strip
    BY <1>2, <1>4 DEF Window
  <2> QED
    BY <2>1, <2>2, <1>1
<1>6. TabRemoved(s, g, d).strip[g] = placed
  BY <1>2, <1>5
<1>7. tabs # <<>> /\ selected \in 1..Len(tabs) /\ Len(tabs) \in Nat
  BY <1>2, <1>3
<1>8. Selected(s, g) = tabs[selected]
  BY <1>7 DEF Selected
<1>9. p # selected
  BY <1>3, <1>8
<1>10. /\ left \in Seq(Docs) /\ Len(left) = Len(tabs) - 1
       /\ \A i \in 1..Len(tabs) - 1 : left[i] = IF i < p THEN tabs[i] ELSE tabs[i + 1]
  BY <1>2, <1>3, RemoveAtPlaces
<1>11. placed.tabs = left /\ placed.sel = sel
  BY DEF placed
<1> HIDE DEF tabs, p, left, selected
<1>12. left # <<>>
  <2>1. Len(left) # 0
    BY <1>3, <1>7, <1>9, <1>10
  <2> QED
    BY <2>1
<1>13. left[sel] = tabs[selected]
  <2>1. CASE p < selected
    <3>1. selected - 1 \in 1..Len(tabs) - 1 /\ ~(selected - 1 < p) /\ (selected - 1) + 1 = selected
      BY <2>1, <1>3, <1>7
    <3>2. sel = selected - 1
      BY <2>1, <1>3, <1>7
    <3> QED
      BY <3>1, <3>2, <1>10
  <2>2. CASE selected < p
    <3>1. selected \in 1..Len(tabs) - 1
      BY <2>2, <1>3, <1>7
    <3>2. sel = selected
      BY <2>2, <1>3, <1>7
    <3> QED
      BY <2>2, <3>1, <3>2, <1>10
  <2> QED
    BY <2>1, <2>2, <1>3, <1>7, <1>9
<1> HIDE DEF sel
<1> QED
  BY <1>6, <1>8, <1>11, <1>12, <1>13 DEF Selected

\* Closing: a clean tab goes where it is, others as the question about them says.
LEMMA CloseBackgroundStep ==
  ASSUME WindowInv, UNCHANGED room, NEW d \in Docs, CloseBackground(d)
  PROVE  WindowInv' /\ Agreed
<1> DEFINE g == win.active
           t == TabRemoved(win, g, d)
<1>1. /\ Free /\ UNCHANGED ask /\ InGroup(win, g, d) /\ ~win.docs[d].dirty
      /\ d # Selected(win, g) /\ win' = t
  BY DEF CloseBackground
<1>2. /\ Sound(win, Nil) /\ Fresh(win, {}) /\ win.made <= room.groups /\ g \in Groups(win)
      /\ WellTyped(win)
  BY WindowParts
<1> HIDE DEF g
<1>3. /\ Sound(t, Nil)
      /\ Groups(t) = Groups(win) /\ t.active = win.active
      /\ t.tree = win.tree /\ t.shown = win.shown /\ t.made = win.made
      /\ \A h \in Groups(win) : h # g => t.strip[h] = win.strip[h]
      /\ \A h \in Groups(win), e \in Docs :
           InGroup(t, h, e) <=> InGroup(win, h, e) /\ ~(h = g /\ e = d)
      /\ \A e \in Docs : e # d => t.docs[e] = win.docs[e]
      /\ t.docs[d] = win.docs[d] \/ (t.docs[d] = NoDoc /\ ~Viewed(t, d))
  BY <1>1, <1>2, TabRemovedSound
<1>4. Selected(t, g) = Selected(win, g)
  BY <1>1, <1>2, BackgroundRemoved
<1> HIDE DEF t
<1>5. Fresh(t, {})
  <2> SUFFICES ASSUME NEW h \in Groups(win) PROVE t.shown[h] = Holds(t, Selected(t, h))
    BY <1>3 DEF Fresh
  <2>1. Selected(t, h) = Selected(win, h)
    BY <1>3, <1>4 DEF Selected
  <2>2. win.shown[h] = Holds(win, Selected(win, h))
    BY <1>2 DEF Fresh
  <2>3. ASSUME Selected(win, h) # Nil
        PROVE  t.docs[Selected(win, h)] = win.docs[Selected(win, h)]
    <3> DEFINE e == Selected(win, h)
    <3>1. e \in Docs /\ InGroup(win, h, e) /\ (h = g => e # d)
      BY <2>3, <1>1, <1>2, SelectedIn
    <3> HIDE DEF e
    <3>2. Viewed(t, e)
      BY <3>1, <1>3 DEF Viewed
    <3> QED
      BY <3>1, <3>2, <1>3 DEF e
  <2> QED
    BY <2>1, <2>2, <2>3, <1>3 DEF Holds, IsImage
<1>6. WindowInv'
  BY <1>1, <1>2, <1>3, <1>5, FreeStep
<1>7. Agreed
  <2>1. \A e \in Docs : win.docs[e].dirty => t.docs[e].open
    BY <1>1, <1>2, <1>3, DirtyOpen
  <2> QED
    BY <2>1, <1>1 DEF Agreed
<1> QED
  BY <1>6, <1>7

\* close_tab, of the selected tab of the active group: it closes, or is asked about.
LEMMA CloseActiveStep ==
  ASSUME WindowInv, UNCHANGED room, ask.kind = "none", Selected(win, win.active) # Nil,
         ask.group \in {0, win.active}, NEW saves \in Saves, CloseActive(saves)
  PROVE  WindowInv' /\ Agreed
<1> DEFINE shared == Shared(win, Selected(win, win.active))
           s == IF shared THEN win ELSE Autosaved(win, saves)
           d == Selected(s, s.active)
           t == ClosedReviewed(s)
<1>1. IF ~shared /\ s.docs[d].dirty
      THEN win' = s /\ ask' = [ask EXCEPT !.kind = "close", !.doc = d, !.changed = FALSE]
      ELSE win' = t /\ UNCHANGED ask
  BY DEF CloseActive
<1>2. /\ Sound(win, Nil) /\ Fresh(win, {}) /\ win.made <= room.groups /\ win.active \in Groups(win)
      /\ AskHolds /\ saves \in BOOLEAN
  BY WindowParts
<1>3. /\ Sound(s, Nil) /\ Fresh(s, {}) /\ s.made = win.made
      /\ s.strip = win.strip /\ s.active = win.active
      /\ \A e \in Docs : s.docs[e].open = win.docs[e].open
      /\ \A e \in Docs : win.docs[e].dirty /\ ~s.docs[e].dirty => SavedOnLeaving(e)
  <2>1. CASE shared
    BY <2>1, <1>2
  <2>2. CASE ~shared
    <3> DEFINE a == Autosaved(win, saves)
    <3>1. /\ Sound(a, Nil) /\ Fresh(a, {}) /\ a.made = win.made
          /\ a.strip = win.strip /\ a.active = win.active
          /\ \A e \in Docs : a.docs[e].open = win.docs[e].open
      BY <1>2, AutosavedSound, AutosavedFresh
    <3>2. \A e \in Docs : win.docs[e].dirty /\ ~a.docs[e].dirty => SavedOnLeaving(e)
      BY <1>2, SavedFirst
    <3>3. s = a
      BY <2>2
    <3> HIDE DEF a, s
    <3> QED
      BY <3>1, <3>2, <3>3
  <2> QED
    BY <2>1, <2>2
<1> HIDE DEF s
<1>4. Groups(s) = Groups(win) /\ d = Selected(win, win.active)
  BY <1>3 DEF Groups, Selected
<1>5. d \in Docs /\ InGroup(win, win.active, d) /\ InGroup(s, s.active, d) /\ d # Nil
      /\ Selected(s, s.active) # Nil
  BY <1>2, <1>3, <1>4, SelectedIn DEF Sound, InGroup
<1>6. shared <=> Shared(s, d)
  BY <1>3, <1>4 DEF Shared, ViewsOf, InGroup
<1>7. CASE ~shared /\ s.docs[d].dirty
  <2>1. win' = s /\ ask' = [ask EXCEPT !.kind = "close", !.doc = d, !.changed = FALSE]
    BY <1>1, <1>7
  <2>2. s.docs[d].open
    BY <1>3, <1>5, <1>7, DirtyOpen
  <2> HIDE DEF d, t
  <2>3. /\ ask' \in Ask /\ ask'.kind = "close" /\ ask'.doc = d /\ ask'.changed = FALSE
        /\ ask'.group = ask.group
    BY <2>1, <1>2, <1>5 DEF AskHolds, Ask
  <2>4. 0 \notin Groups(win')
    BY <2>1, <1>3, IdsArePositive DEF Sound, WellTyped
  <2>5. AskHolds'
    BY <2>1, <2>2, <2>3, <2>4, <1>3, <1>5 DEF AskHolds, Asking
  <2>6. WindowInv'
    BY <2>1, <2>5, <1>2, <1>3 DEF WindowInv
  <2>7. Agreed
    BY <2>1, <1>2, <1>3, AgreedIfOpen
  <2> QED
    BY <2>6, <2>7
<1>8. CASE ~(~shared /\ s.docs[d].dirty)
  <2>1. win' = t /\ UNCHANGED ask
    BY <1>1, <1>8
  <2>2. /\ Sound(t, Nil)
        /\ Fresh(t, {})
        /\ t.made = s.made
        /\ d \in Docs
        /\ \A e \in Docs : e # d => t.docs[e] = s.docs[e]
        /\ t.docs[d] = s.docs[d] \/ t.docs[d] = NoDoc
        /\ Shared(s, d) => t.docs[d] = s.docs[d]
        /\ s.active \in Groups(t) => t.active = s.active
        /\ Groups(t) \subseteq Groups(s)
        /\ \A h \in Groups(t) : h # s.active => t.strip[h] = s.strip[h]
    BY <1>3, <1>5, ClosedReviewedSound
  <2> HIDE DEF d, t
  <2>3. 0 \notin Groups(win')
    BY <2>1, <2>2, IdsArePositive DEF Sound, WellTyped
  <2>4. AskHolds'
    BY <2>1, <2>2, <2>3, <1>2, <1>3 DEF AskHolds, Asking
  <2>5. WindowInv'
    BY <2>1, <2>2, <2>4, <1>2, <1>3 DEF WindowInv
  <2>6. Agreed
    <3> SUFFICES ASSUME NEW e \in Docs, win.docs[e].dirty, ~win'.docs[e].open
                 PROVE  SavedOnLeaving(e)
      BY DEF Agreed
    <3>1. s.docs[e].open
      BY <1>2, <1>3, DirtyOpen
    <3>2. e = d /\ ~shared
      BY <3>1, <2>1, <2>2, <1>6
    <3> QED
      BY <3>2, <1>3, <1>8
  <2> QED
    BY <2>5, <2>6
<1> QED
  BY <1>7, <1>8

LEMMA CloseTabStep ==
  ASSUME WindowInv, UNCHANGED room, NEW saves \in Saves, CloseTab(saves)
  PROVE  WindowInv' /\ Agreed
BY CloseActiveStep DEF CloseTab, Free

\* The loop of close_group: while it runs its group is active.
LEMMA CloseGroupStep ==
  ASSUME WindowInv, UNCHANGED room, CloseGroup
  PROVE  WindowInv' /\ Agreed
<1>1. /\ Free /\ Selected(win, win.active) # Nil
      /\ ask' = [ask EXCEPT !.group = win.active] /\ win' = win
  BY DEF CloseGroup
<1>2. /\ Sound(win, Nil) /\ win.active \in Ids /\ AskHolds
  BY WindowParts DEF WellTyped
<1>3. ask' \in Ask /\ ask'.kind = "none" /\ ask'.group = win.active
  BY <1>1, <1>2 DEF AskHolds, Ask, Free
<1>4. AskHolds'
  BY <1>1, <1>3 DEF AskHolds, Asking
<1>5. WindowInv'
  BY <1>1, <1>4 DEF WindowInv
<1>6. Agreed
  BY <1>1, <1>2, AgreedIfOpen
<1> QED
  BY <1>5, <1>6

LEMMA CloseNextStep ==
  ASSUME WindowInv, UNCHANGED room, NEW saves \in Saves, CloseNext(saves)
  PROVE  WindowInv' /\ Agreed
<1>1. /\ ask.kind = "none"
      /\ IF ask.group \in Groups(win) /\ Selected(win, ask.group) # Nil
         THEN CloseActive(saves)
         ELSE win' = EmptyRemoved(win, ask.group) /\ ask' = NoAsk
  BY DEF CloseNext
<1>2. Sound(win, Nil) /\ Fresh(win, {}) /\ AskHolds
  BY WindowParts
<1>3. CASE ask.group \in Groups(win) /\ Selected(win, ask.group) # Nil
  <2>1. win.active = ask.group
    BY <1>1, <1>2, <1>3 DEF AskHolds
  <2> QED
    BY <2>1, <1>1, <1>3, CloseActiveStep
<1>4. CASE ~(ask.group \in Groups(win) /\ Selected(win, ask.group) # Nil)
  <2> DEFINE t == EmptyRemoved(win, ask.group)
  <2>1. Sound(t, Nil) /\ Fresh(t, {}) /\ t.docs = win.docs /\ t.made = win.made
    BY <1>2, EmptyRemovedSound
  <2>2. win' = t /\ ask' = NoAsk
    BY <1>1, <1>4
  <2> HIDE DEF t
  <2>3. WindowInv'
    BY <2>1, <2>2, NothingAsked
  <2>4. Agreed
    BY <2>1, <2>2, <1>2, AgreedIfOpen
  <2> QED
    BY <2>3, <2>4
<1> QED
  BY <1>3, <1>4

\* The loop of close_every_view.
LEMMA DeleteNoteStep ==
  ASSUME WindowInv, UNCHANGED room, NEW d \in Docs, DeleteNote(d)
  PROVE  WindowInv' /\ Agreed
<1>1. ask' = [ask EXCEPT !.kind = "delete", !.doc = d, !.group = win.active] /\ win' = win
  BY DEF DeleteNote
<1>2. Sound(win, Nil) /\ win.active \in Ids /\ AskHolds
  BY WindowParts DEF WellTyped
<1>3. ask' \in Ask /\ ask'.kind = "delete" /\ ask'.doc = d /\ d # Nil
  BY <1>1, <1>2, TabGroupsAssumption DEF AskHolds, Ask
<1>4. AskHolds'
  BY <1>3 DEF AskHolds, Asking
<1>5. WindowInv'
  BY <1>1, <1>4 DEF WindowInv
<1>6. Agreed
  BY <1>1, <1>2, AgreedIfOpen
<1> QED
  BY <1>5, <1>6

LEMMA DeleteNextStep ==
  ASSUME WindowInv, UNCHANGED room, NEW saves \in Saves, DeleteNext(saves)
  PROVE  WindowInv' /\ Agreed
<1> DEFINE d == ask.doc
<1>1. /\ ask.kind = "delete"
      /\ IF ViewsOf(win, d) # {}
         THEN win' = ClosedReviewed(ActivatedById(win, d, saves)) /\ UNCHANGED ask
         ELSE win' = ActivatedGroup(win, ask.group) /\ ask' = NoAsk
  BY DEF DeleteNext
<1>2. Sound(win, Nil) /\ Fresh(win, {}) /\ AskHolds /\ saves \in BOOLEAN /\ win.made <= room.groups
  BY WindowParts
<1>3. d \in Docs /\ d # Nil /\ ask \in Ask
  BY <1>1, <1>2 DEF AskHolds, Ask
<1>4. CASE ViewsOf(win, d) # {}
  <2> DEFINE s == ActivatedById(win, d, saves)
             t == ClosedReviewed(s)
  <2>1. win.docs[d].open
    BY <1>2, <1>3, <1>4 DEF ViewsOf, Sound, Stored, Viewed
  <2>2. win' = t /\ UNCHANGED ask
    BY <1>1, <1>4
  <2>3. /\ Sound(s, Nil) /\ Fresh(s, {}) /\ s.made = win.made
        /\ Selected(s, s.active) = d /\ Tidied(win, s)
    BY <2>1, <1>2, <1>3, ActivatedByIdSound
  <2> HIDE DEF s, d
  <2>4. /\ Sound(t, Nil) /\ Fresh(t, {}) /\ t.made = s.made
        /\ \A e \in Docs : e # d => t.docs[e] = s.docs[e]
    <3>1. Selected(s, s.active) # Nil
      BY <2>3, <1>3
    <3> QED
      BY <3>1, <2>3, ClosedReviewedSound
  <2> HIDE DEF t
  <2>5. AskHolds'
    BY <2>2, <1>1, <1>3 DEF AskHolds, Asking, d
  <2>6. WindowInv'
    BY <2>2, <2>3, <2>4, <2>5, <1>2 DEF WindowInv
  <2>7. Agreed
    <3>1. \A e \in Docs : e # d /\ win.docs[e].dirty => t.docs[e].open
      BY <2>3, <2>4, <1>2, DirtyOpen DEF Tidied
    <3> QED
      BY <3>1, <2>2, <1>1 DEF Agreed, d
  <2> QED
    BY <2>6, <2>7
<1>5. CASE ViewsOf(win, d) = {}
  <2> DEFINE t == ActivatedGroup(win, ask.group)
  <2>1. Sound(t, Nil) /\ Fresh(t, {}) /\ t.docs = win.docs /\ t.made = win.made
    BY <1>2, ActivatedFresh
  <2>2. win' = t /\ ask' = NoAsk
    BY <1>1, <1>5
  <2> HIDE DEF t
  <2>3. WindowInv'
    BY <2>1, <2>2, NothingAsked
  <2>4. Agreed
    BY <2>1, <2>2, <1>2, AgreedIfOpen
  <2> QED
    BY <2>3, <2>4
<1> QED
  BY <1>4, <1>5

\* Answers to a question: its document is still open, and it is clean if it changed.
LEMMA AnswerCancelStep ==
  ASSUME WindowInv, UNCHANGED room, AnswerCancel
  PROVE  WindowInv' /\ Agreed
<1>1. ask' = NoAsk /\ win' = win
  BY DEF AnswerCancel
<1>2. Sound(win, Nil) /\ Fresh(win, {})
  BY WindowParts
<1>3. WindowInv'
  BY <1>1, <1>2, NothingAsked
<1>4. Agreed
  BY <1>1, <1>2, AgreedIfOpen
<1> QED
  BY <1>3, <1>4

\* A group has a selected tab when it has tabs.
LEMMA SelectedSome ==
  ASSUME NEW s, WellTyped(s), NEW g \in Groups(s)
  PROVE  Selected(s, g) # Nil <=> \E e \in Docs : InGroup(s, g, e)
<1>1. s.strip[g].tabs = <<>> => \A e : ~InGroup(s, g, e)
  BY DEF InGroup, Range
<1> QED
  BY <1>1, SelectedIn

\* The tab asked about closes with the answer; a group being closed goes on closing.
LEMMA AnsweredStep ==
  ASSUME WindowInv, UNCHANGED room, ask.kind = "close",
         NEW s, Sound(s, Nil), Fresh(s, {}), s.made = win.made, s.active = win.active,
         Groups(s) = Groups(win),
         \A h \in Groups(win), e \in Docs : InGroup(s, h, e) <=> InGroup(win, h, e),
         \A e \in Docs : s.docs[e].open = win.docs[e].open,
         Selected(s, s.active) = ask.doc,
         win' = ClosedReviewed(s), ask' = [NoAsk EXCEPT !.group = ask.group]
  PROVE  WindowInv' /\ (~ask.changed \/ ~win.docs[ask.doc].dirty => Agreed)
<1> DEFINE d == ask.doc
           t == ClosedReviewed(s)
<1>1. Sound(win, Nil) /\ WellTyped(win) /\ WellTyped(s) /\ AskHolds /\ win.made <= room.groups
  BY WindowParts DEF Sound
<1>2. d \in Docs /\ d # Nil /\ ask \in Ask
  BY <1>1 DEF AskHolds, Ask
<1>3. win' = t
  OBVIOUS
<1>4. /\ Sound(t, Nil) /\ Fresh(t, {}) /\ t.made = s.made
      /\ \A e \in Docs : e # d => t.docs[e] = s.docs[e]
      /\ s.active \in Groups(t) => t.active = s.active
      /\ Groups(t) \subseteq Groups(s)
      /\ \A h \in Groups(t) : h # s.active => t.strip[h] = s.strip[h]
  <2>1. Selected(s, s.active) # Nil
    BY <1>2
  <2> QED
    BY <2>1, ClosedReviewedSound
<1> HIDE DEF t, d
<1>5. ask' \in Ask /\ ask'.kind = "none" /\ ask'.group = ask.group
  BY <1>2 DEF NoAsk, Ask
<1>6. ASSUME ask.group \in Groups(t), Selected(t, ask.group) # Nil
      PROVE  t.active = ask.group
  <2>1. CASE ask.group = s.active
    BY <2>1, <1>4, <1>6
  <2>2. CASE ask.group # s.active
    <3>1. ask.group \in Groups(s) /\ Selected(s, ask.group) # Nil
      BY <2>2, <1>4, <1>6 DEF Selected
    <3>2. Selected(win, ask.group) # Nil
      BY <3>1, <1>1, SelectedSome
    <3>3. win.active = ask.group
      BY <3>1, <3>2, <1>1 DEF AskHolds
    <3> QED
      BY <2>2, <3>3
  <2> QED
    BY <2>1, <2>2
<1>7. AskHolds'
  BY <1>3, <1>5, <1>6 DEF AskHolds, Asking
<1>8. WindowInv'
  BY <1>1, <1>3, <1>4, <1>7 DEF WindowInv
<1>9. ASSUME ~ask.changed \/ ~win.docs[ask.doc].dirty PROVE Agreed
  <2>1. \A e \in Docs : e # d /\ win.docs[e].dirty => t.docs[e].open
    BY <1>1, <1>4, DirtyOpen
  <2> QED
    BY <2>1, <1>3, <1>9 DEF Agreed, d
<1> QED
  BY <1>8, <1>9

LEMMA CloseDiscardStep ==
  ASSUME WindowInv, UNCHANGED room, CloseDiscard
  PROVE  WindowInv' /\ Agreed
<1>1. /\ ask.kind = "close"
      /\ IF Selected(win, win.active) = ask.doc /\ ~ask.changed
         THEN win' = ClosedReviewed(win) /\ ask' = [NoAsk EXCEPT !.group = ask.group]
         ELSE ask' = NoAsk /\ UNCHANGED win
  BY DEF CloseDiscard
<1>2. Sound(win, Nil) /\ Fresh(win, {})
  BY WindowParts
<1>3. CASE Selected(win, win.active) = ask.doc /\ ~ask.changed
  BY <1>1, <1>2, <1>3, AnsweredStep
<1>4. CASE ~(Selected(win, win.active) = ask.doc /\ ~ask.changed)
  <2>1. ask' = NoAsk /\ win' = win
    BY <1>1, <1>4
  <2>2. WindowInv'
    BY <2>1, <1>2, NothingAsked
  <2>3. Agreed
    BY <2>1, <1>2, AgreedIfOpen
  <2> QED
    BY <2>2, <2>3
<1> QED
  BY <1>3, <1>4

LEMMA CloseSaveStep ==
  ASSUME WindowInv, UNCHANGED room, NEW p \in room.paths, NEW saves \in Saves, CloseSave(p, saves)
  PROVE  WindowInv' /\ Agreed
<1> DEFINE d == ask.doc
           s == ActivatedById(win, d, saves)
<1>1. /\ ask.kind = "close"
      /\ \/ /\ SavedAs(s, d, p)
            /\ win' = ClosedReviewed(Saved(s, d, p))
            /\ ask' = [NoAsk EXCEPT !.group = ask.group]
         \/ win' = s /\ ask' = NoAsk
  BY DEF CloseSave
<1>2. /\ Sound(win, Nil) /\ Fresh(win, {}) /\ AskHolds /\ saves \in BOOLEAN /\ p \in Paths
  BY WindowParts
<1>3. /\ d \in Docs /\ win.docs[d].open /\ InGroup(win, win.active, d)
      /\ ask.changed => ~win.docs[d].dirty
  BY <1>1, <1>2 DEF AskHolds, Ask, Asking
<1>4. GroupOf(win, d) = win.active
  BY <1>3 DEF GroupOf
<1>5. /\ Sound(s, Nil) /\ Fresh(s, {})
      /\ Groups(s) = Groups(win) /\ s.made = win.made
      /\ \A h \in Groups(win), e \in Docs : InGroup(s, h, e) <=> InGroup(win, h, e)
      /\ s.active = win.active /\ Selected(s, s.active) = d
      /\ Tidied(win, s)
  BY <1>2, <1>3, <1>4, ActivatedByIdSound
<1> HIDE DEF s, d
<1>6. CASE /\ SavedAs(s, d, p)
           /\ win' = ClosedReviewed(Saved(s, d, p))
           /\ ask' = [NoAsk EXCEPT !.group = ask.group]
  <2> DEFINE u == Saved(s, d, p)
  <2>1. s.docs[d].open
    BY <1>3, <1>5 DEF Tidied
  <2>2. /\ Sound(u, Nil) /\ Fresh(u, {})
        /\ u.strip = s.strip /\ u.active = s.active /\ u.made = s.made
        /\ \A e \in Docs : u.docs[e].open = s.docs[e].open
    BY <2>1, <1>2, <1>3, <1>5, <1>6, SavedSound
  <2>3. win' = ClosedReviewed(u) /\ ask' = [NoAsk EXCEPT !.group = ask.group]
    BY <1>6
  <2> HIDE DEF u
  <2>4. /\ Groups(u) = Groups(win) /\ Selected(u, u.active) = ask.doc
        /\ \A h \in Groups(win), e \in Docs : InGroup(u, h, e) <=> InGroup(win, h, e)
        /\ \A e \in Docs : u.docs[e].open = win.docs[e].open
        /\ u.active = win.active /\ u.made = win.made
    BY <2>2, <1>5 DEF Groups, Selected, InGroup, Tidied, d
  <2>5. ~ask.changed \/ ~win.docs[ask.doc].dirty
    BY <1>3 DEF d
  <2>6. WindowInv' /\ (~ask.changed \/ ~win.docs[ask.doc].dirty => Agreed)
    BY <2>2, <2>3, <2>4, <1>1, AnsweredStep
  <2> QED
    BY <2>5, <2>6
<1>7. CASE win' = s /\ ask' = NoAsk
  <2>1. WindowInv'
    BY <1>5, <1>7, NothingAsked
  <2>2. Agreed
    BY <1>2, <1>5, <1>7, AgreedIfOpen DEF Tidied
  <2> QED
    BY <2>1, <2>2
<1> QED
  BY <1>1, <1>6, <1>7

\* The loop of autosave_all, and the review of what is left.
LEMMA ExitStep ==
  ASSUME WindowInv, UNCHANGED room, Exit
  PROVE  WindowInv' /\ Agreed
<1> DEFINE d == Selected(win, win.active)
           left == {e \in Unsaved(win) : win.docs[e].path # Nil}
<1>1. ask' = [ask EXCEPT !.kind = "autosave", !.doc = d, !.left = left] /\ win' = win
  BY DEF Exit
<1>2. Sound(win, Nil) /\ win.active \in Groups(win) /\ WellTyped(win) /\ AskHolds
  BY WindowParts
<1>3. d \in Docs \cup {Nil} /\ (d # Nil => d \in Docs /\ InGroup(win, win.active, d))
  BY <1>2, SelectedIn
<1> HIDE DEF d
<1>4. d # Nil => win.docs[d].open
  BY <1>2, <1>3 DEF Sound, Stored, Viewed
<1>5. \A e \in left : e \in Docs /\ win.docs[e].open
  <2> TAKE e \in left
  <2>1. PICK g \in Groups(win) : e \in Range(win.strip[g].tabs)
    BY DEF Unsaved
  <2>2. win.strip[g].tabs \in Seq(Docs)
    BY <1>2, PartsTyped
  <2>3. e \in Docs
    BY <2>1, <2>2 DEF Range
  <2> QED
    BY <2>1, <2>3, <1>2 DEF Sound, Stored, Viewed, InGroup
<1> HIDE DEF left
<1>6. ask' \in Ask /\ ask'.kind = "autosave" /\ ask'.doc = d /\ ask'.left = left
  BY <1>1, <1>2, <1>3, <1>5 DEF AskHolds, Ask
<1>7. AskHolds'
  BY <1>1, <1>4, <1>5, <1>6 DEF AskHolds, Asking
<1>8. WindowInv'
  BY <1>1, <1>7 DEF WindowInv
<1>9. Agreed
  BY <1>1, <1>2, AgreedIfOpen
<1> QED
  BY <1>8, <1>9

LEMMA AutosaveNextStep ==
  ASSUME WindowInv, UNCHANGED room, NEW leaving \in Saves, NEW saves \in BOOLEAN,
         AutosaveNext(leaving, saves)
  PROVE  WindowInv' /\ Agreed
<1> DEFINE d == First(win, ask.left)
           s == ActivatedById(win, d, leaving)
           t == Autosaved(s, saves)
<1>1. /\ ask.kind = "autosave" /\ ask.left # {}
      /\ win' = t /\ ask' = [ask EXCEPT !.left = @ \ {d}]
  BY DEF AutosaveNext
<1>2. Sound(win, Nil) /\ Fresh(win, {}) /\ AskHolds /\ leaving \in BOOLEAN /\ WellTyped(win)
      /\ win.made <= room.groups
  BY WindowParts
<1>3. ask \in Ask /\ ask.left \in SUBSET Docs /\ \A e \in ask.left : win.docs[e].open
  BY <1>1, <1>2 DEF AskHolds, Ask
<1>4. d \in ask.left
  <2>1. PICK e \in ask.left : win.docs[e].open
    BY <1>1, <1>3
  <2>2. e \in Docs
    BY <1>3
  <2>3. PICK h \in Groups(win) : InGroup(win, h, e)
    BY <2>1, <2>2, <1>2, TabGroupsAssumption DEF Sound, Stored, Viewed
  <2> QED
    BY <2>3, <1>2, <1>3, FirstPending
<1> HIDE DEF d
<1>5. Sound(s, Nil) /\ Fresh(s, {}) /\ s.made = win.made /\ Tidied(win, s)
  BY <1>2, <1>3, <1>4, ActivatedByIdSound
<1> HIDE DEF s
<1>6. /\ Sound(t, Nil) /\ Fresh(t, {}) /\ t.made = s.made
      /\ \A e \in Docs : t.docs[e].open = s.docs[e].open
  BY <1>5, AutosavedSound, AutosavedFresh
<1> HIDE DEF t
<1>7. \A e \in Docs : win'.docs[e].open = win.docs[e].open
  BY <1>1, <1>5, <1>6 DEF Tidied
<1>8. /\ ask' \in Ask /\ ask'.kind = "autosave" /\ ask'.doc = ask.doc
      /\ ask'.left = ask.left \ {d}
  BY <1>1, <1>3 DEF Ask
<1>9. ask.doc # Nil => ask.doc \in Docs /\ win.docs[ask.doc].open
  BY <1>1, <1>2, <1>3 DEF AskHolds, Ask
<1>10. AskHolds'
  BY <1>3, <1>7, <1>8, <1>9 DEF AskHolds, Asking
<1>11. WindowInv'
  BY <1>1, <1>2, <1>5, <1>6, <1>10 DEF WindowInv
<1>12. Agreed
  BY <1>2, <1>7, AgreedIfOpen
<1> QED
  BY <1>11, <1>12

\* next_dirty_review: with no unsaved document left to ask about, the window closes.
LEMMA Reviewed ==
  ASSUME WindowInv, UNCHANGED room, Sound(win', Nil), Fresh(win', {}), win'.made = win.made,
         NEW reviewed \in SUBSET Docs, ask' = NextReview(win', reviewed)
  PROVE  WindowInv'
<1> DEFINE pending == Unsaved(win') \ reviewed
           d == First(win', pending)
<1>1. WellTyped(win') /\ NoAsk \in Ask
  BY DEF Sound, NoAsk, Ask
<1>2. \A e \in Unsaved(win') : e \in Docs /\ \E g \in Groups(win') : InGroup(win', g, e)
  <2> TAKE e \in Unsaved(win')
  <2>1. PICK g \in Groups(win') : e \in Range(win'.strip[g].tabs)
    BY DEF Unsaved
  <2>2. win'.strip[g].tabs \in Seq(Docs)
    BY <1>1, PartsTyped
  <2>3. e \in Docs
    BY <2>1, <2>2 DEF Range
  <2> QED
    BY <2>1, <2>3 DEF InGroup
<1>3. \A e \in Docs : win'.docs[e].dirty => e \in Unsaved(win')
  <2> SUFFICES ASSUME NEW e \in Docs, win'.docs[e].dirty PROVE e \in Unsaved(win')
    OBVIOUS
  <2>1. win'.docs[e].open
    BY DirtyOpen
  <2>2. PICK g \in Groups(win') : InGroup(win', g, e)
    BY <2>1, TabGroupsAssumption DEF Sound, Stored, Viewed
  <2> QED
    BY <2>2 DEF Unsaved, InGroup
<1>4. ask' = IF pending = {} THEN [NoAsk EXCEPT !.kind = "gone", !.reviewed = reviewed]
             ELSE [NoAsk EXCEPT !.kind = "exit", !.doc = d, !.reviewed = reviewed]
  BY DEF NextReview
<1>5. CASE pending = {}
  <2>1. ask' = [NoAsk EXCEPT !.kind = "gone", !.reviewed = reviewed]
    BY <1>4, <1>5
  <2>2. ask' \in Ask /\ ask'.kind = "gone" /\ ask'.reviewed = reviewed
    BY <2>1, <1>1 DEF Ask, NoAsk
  <2>3. \A e \in Docs : win'.docs[e].dirty => e \in reviewed
    BY <1>3, <1>5
  <2>4. AskHolds'
    BY <2>2, <2>3 DEF AskHolds, Asking
  <2> QED
    BY <2>4 DEF WindowInv
<1>6. CASE pending # {}
  <2>1. PICK e \in pending : TRUE
    BY <1>6
  <2>2. PICK h \in Groups(win') : InGroup(win', h, e)
    BY <2>1, <1>2
  <2>3. pending \in SUBSET Docs
    BY <1>2
  <2>4. d \in pending
    <3> HIDE DEF pending
    <3> QED
      BY <2>1, <2>2, <2>3, <1>1, FirstPending
  <2> HIDE DEF d
  <2>5. d \in Docs /\ d # Nil /\ win'.docs[d].open
    BY <2>3, <2>4, <1>2, TabGroupsAssumption DEF Sound, Stored, Viewed
  <2>6. ask' = [NoAsk EXCEPT !.kind = "exit", !.doc = d, !.reviewed = reviewed]
    BY <1>4, <1>6
  <2> HIDE DEF pending
  <2>7. ask' \in Ask /\ ask'.kind = "exit" /\ ask'.doc = d /\ ask'.changed = FALSE
    BY <2>5, <2>6, <1>1 DEF Ask, NoAsk
  <2>8. AskHolds'
    BY <2>5, <2>7 DEF AskHolds, Asking
  <2> QED
    BY <2>8 DEF WindowInv
<1> QED
  BY <1>5, <1>6

LEMMA AutosaveDoneStep ==
  ASSUME WindowInv, UNCHANGED room, NEW leaving \in Saves, AutosaveDone(leaving)
  PROVE  WindowInv' /\ Agreed
<1> DEFINE d == ask.doc
           s == ActivatedById(win, d, leaving)
<1>1. /\ ask.kind = "autosave"
      /\ win' = IF d = Nil THEN win ELSE s
      /\ ask' = NextReview(win', {})
  BY DEF AutosaveDone
<1>2. Sound(win, Nil) /\ Fresh(win, {}) /\ AskHolds /\ leaving \in BOOLEAN
  BY WindowParts
<1>3. d # Nil => d \in Docs /\ win.docs[d].open
  BY <1>1, <1>2 DEF AskHolds, Ask
<1> HIDE DEF d
<1>4. /\ Sound(win', Nil) /\ Fresh(win', {}) /\ win'.made = win.made
      /\ \A e \in Docs : win'.docs[e].open = win.docs[e].open
  <2>1. CASE d = Nil
    BY <2>1, <1>1, <1>2
  <2>2. CASE d # Nil
    <3>1. Sound(s, Nil) /\ Fresh(s, {}) /\ s.made = win.made /\ Tidied(win, s)
      BY <2>2, <1>2, <1>3, ActivatedByIdSound
    <3>2. win' = s
      BY <2>2, <1>1
    <3> HIDE DEF s
    <3> QED
      BY <3>1, <3>2 DEF Tidied
  <2> QED
    BY <2>1, <2>2
<1>5. {} \in SUBSET Docs
  OBVIOUS
<1>6. WindowInv'
  BY <1>1, <1>4, <1>5, Reviewed
<1>7. Agreed
  BY <1>2, <1>4, AgreedIfOpen
<1> QED
  BY <1>6, <1>7

LEMMA ExitDiscardStep ==
  ASSUME WindowInv, UNCHANGED room, ExitDiscard
  PROVE  WindowInv' /\ Agreed
<1> DEFINE reviewed == IF win.docs[ask.doc].dirty /\ ~ask.changed
                       THEN ask.reviewed \cup {ask.doc} ELSE ask.reviewed
<1>1. ask.kind = "exit" /\ ask' = NextReview(win', reviewed) /\ win' = win
  BY DEF ExitDiscard
<1>2. Sound(win, Nil) /\ Fresh(win, {}) /\ AskHolds
  BY WindowParts
<1>3. ask.doc \in Docs /\ ask.reviewed \in SUBSET Docs
  BY <1>1, <1>2 DEF AskHolds, Ask
<1>4. reviewed \in SUBSET Docs
  BY <1>3
<1> HIDE DEF reviewed
<1>5. WindowInv'
  BY <1>1, <1>2, <1>4, Reviewed
<1>6. Agreed
  BY <1>1, <1>2, AgreedIfOpen
<1> QED
  BY <1>5, <1>6

LEMMA ExitSaveStep ==
  ASSUME WindowInv, UNCHANGED room, NEW p \in room.paths, NEW saves \in Saves, ExitSave(p, saves)
  PROVE  WindowInv' /\ Agreed
<1> DEFINE d == ask.doc
           s == ActivatedById(win, d, saves)
           reviewed == {e \in ask.reviewed : ~Regenerated(win', e)}
<1>1. /\ ask.kind = "exit"
      /\ \/ SavedAs(s, d, p) /\ win' = Saved(s, d, p) /\ ask' = NextReview(win', reviewed)
         \/ win' = s /\ ask' = NoAsk
  BY DEF ExitSave
<1>2. Sound(win, Nil) /\ Fresh(win, {}) /\ AskHolds /\ saves \in BOOLEAN /\ p \in Paths
  BY WindowParts
<1>3. d \in Docs /\ win.docs[d].open /\ ask.reviewed \in SUBSET Docs
  BY <1>1, <1>2 DEF AskHolds, Ask, Asking
<1>4. Sound(s, Nil) /\ Fresh(s, {}) /\ s.made = win.made /\ Tidied(win, s)
  BY <1>2, <1>3, ActivatedByIdSound
<1>5. reviewed \in SUBSET Docs
  BY <1>3
<1> HIDE DEF s, d, reviewed
<1>6. CASE SavedAs(s, d, p) /\ win' = Saved(s, d, p) /\ ask' = NextReview(win', reviewed)
  <2> DEFINE u == Saved(s, d, p)
  <2>1. s.docs[d].open
    BY <1>3, <1>4 DEF Tidied
  <2>2. /\ Sound(u, Nil) /\ Fresh(u, {}) /\ u.made = s.made
        /\ \A e \in Docs : u.docs[e].open = s.docs[e].open
    BY <2>1, <1>2, <1>3, <1>4, <1>6, SavedSound
  <2>3. win' = u
    BY <1>6
  <2> HIDE DEF u
  <2>4. WindowInv'
    BY <2>2, <2>3, <1>4, <1>5, <1>6, Reviewed
  <2>5. Agreed
    BY <2>2, <2>3, <1>2, <1>4, AgreedIfOpen DEF Tidied
  <2> QED
    BY <2>4, <2>5
<1>7. CASE win' = s /\ ask' = NoAsk
  <2>1. WindowInv'
    BY <1>4, <1>7, NothingAsked
  <2>2. Agreed
    BY <1>2, <1>4, <1>7, AgreedIfOpen DEF Tidied
  <2> QED
    BY <2>1, <2>2
<1> QED
  BY <1>1, <1>6, <1>7

\* What happens while a question is asked: it notices when its text was saved.
LEMMA NoticedStep ==
  ASSUME WindowInv, UNCHANGED room, Listening, NEW s, Sound(s, Nil), Fresh(s, {}), s.made = win.made,
         s.active = win.active, Groups(s) = Groups(win),
         \A h \in Groups(win), e \in Docs : InGroup(s, h, e) <=> InGroup(win, h, e),
         Tidied(win, s), win' = s, ask' = Noticed(s)
  PROVE  WindowInv' /\ Agreed
<1>1. Sound(win, Nil) /\ WellTyped(win) /\ WellTyped(s) /\ AskHolds /\ win.made <= room.groups
      /\ win.docs \in [Docs -> Doc]
  BY WindowParts DEF Sound
<1>2. ask \in Ask /\ s.docs \in [Docs -> Doc]
  BY <1>1, PartsTyped DEF AskHolds
<1> DEFINE changed == ask.changed \/ (Asking /\ Regenerated(s, ask.doc))
           reviewed == {d \in ask.reviewed : ~Regenerated(s, d)}
<1>3. ask' = [ask EXCEPT !.changed = changed, !.reviewed = reviewed]
  BY <1>2 DEF Noticed, Ask
<1>4. changed \in BOOLEAN /\ reviewed \in SUBSET Docs
  BY <1>2 DEF Ask
<1> HIDE DEF changed, reviewed
<1>5. /\ ask' \in Ask /\ ask'.kind = ask.kind /\ ask'.doc = ask.doc /\ ask'.group = ask.group
      /\ ask'.changed = changed
  BY <1>2, <1>3, <1>4 DEF Ask
<1>6. ASSUME Asking
      PROVE  /\ ask.doc \in Docs /\ s.docs[ask.doc].open
             /\ changed => ~s.docs[ask.doc].dirty
  <2>1. ask.doc \in Docs /\ win.docs[ask.doc].open /\ (ask.changed => ~win.docs[ask.doc].dirty)
    BY <1>1, <1>2, <1>6 DEF AskHolds, Ask, Asking
  <2>2. /\ s.docs[ask.doc].open
        /\ s.docs[ask.doc].dirty => win.docs[ask.doc].dirty
    BY <2>1 DEF Tidied
  <2>3. s.docs[ask.doc].dirty \in BOOLEAN /\ win.docs[ask.doc].dirty \in BOOLEAN
    BY <2>1, <1>1, <1>2 DEF Doc
  <2>4. Regenerated(s, ask.doc) => ~s.docs[ask.doc].dirty
    BY <2>2, <2>3 DEF Regenerated
  <2> QED
    BY <2>1, <2>2, <2>4 DEF changed
<1>7. ask.kind = "close" => InGroup(s, s.active, ask.doc)
  <2>1. ASSUME ask.kind = "close" PROVE InGroup(s, s.active, ask.doc)
    <3>1. ask.doc \in Docs /\ InGroup(win, win.active, ask.doc)
      BY <2>1, <1>1, <1>6 DEF AskHolds, Asking
    <3> QED
      BY <3>1, WindowParts
  <2> QED
    BY <2>1
<1>8. ASSUME ask.group \in Groups(s), Selected(s, ask.group) # Nil, ask.kind \in {"none", "close"}
      PROVE  s.active = ask.group
  <2>1. Selected(win, ask.group) # Nil
    BY <1>1, <1>8, SelectedSome
  <2> QED
    BY <2>1, <1>1, <1>8 DEF AskHolds
<1>9. ask.kind \in {"none", "close", "exit"}
  BY DEF Listening, Free, Asking
<1>10. AskHolds'
  <2>1. Asking' <=> Asking
    BY <1>5 DEF Asking
  <2>2. ask.kind \in {"close", "exit"} => ask.doc # Nil
    BY <1>6, TabGroupsAssumption DEF Asking
  <2> QED
    BY <2>1, <2>2, <1>5, <1>6, <1>7, <1>8, <1>9 DEF AskHolds
<1>11. WindowInv'
  BY <1>1, <1>10 DEF WindowInv
<1>12. Agreed
  BY <1>1, AgreedIfOpen DEF Tidied
<1> QED
  BY <1>11, <1>12

\* What runs while a question is open keeps what the question relies on.
LEMMA AccessibleSelectStep ==
  ASSUME WindowInv, UNCHANGED room, NEW g \in Groups(win), NEW d \in Docs, NEW saves \in Saves,
         AccessibleSelect(g, d, saves)
  PROVE  WindowInv' /\ Agreed
<1> DEFINE s == ActivatedIn(win, g, d, saves)
<1>1. Listening /\ InGroup(win, g, d) /\ win' = s /\ ask' = Noticed(s)
  BY DEF AccessibleSelect
<1>2. Sound(win, Nil) /\ Fresh(win, {}) /\ saves \in BOOLEAN
  BY WindowParts
<1>3. /\ Sound(s, Nil) /\ Fresh(s, {} \ {g})
      /\ Groups(s) = Groups(win) /\ s.active = win.active /\ s.made = win.made
      /\ \A h \in Groups(win), e \in Docs : InGroup(s, h, e) <=> InGroup(win, h, e)
      /\ Tidied(win, s)
  BY <1>1, <1>2, ActivatedInSound
<1>4. {} \ {g} = {}
  OBVIOUS
<1> HIDE DEF s
<1> QED
  BY <1>1, <1>3, <1>4, NoticedStep

LEMMA AutosaveTimerStep ==
  ASSUME WindowInv, UNCHANGED room, AutosaveTimer
  PROVE  WindowInv' /\ Agreed
<1> DEFINE s == Autosaved(win, TRUE)
<1>1. Listening /\ win' = s /\ ask' = Noticed(s)
  BY DEF AutosaveTimer
<1>2. Sound(win, Nil) /\ Fresh(win, {}) /\ TRUE \in BOOLEAN
  BY WindowParts
<1>3. /\ Sound(s, Nil) /\ Fresh(s, {})
      /\ s.strip = win.strip /\ s.active = win.active /\ s.made = win.made
      /\ Tidied(win, s)
  BY <1>2, AutosavedSound, AutosavedFresh DEF Tidied
<1> HIDE DEF s
<1>4. Groups(s) = Groups(win) /\ \A h \in Groups(win), e \in Docs : InGroup(s, h, e) <=> InGroup(win, h, e)
  BY <1>3 DEF Groups, InGroup
<1> QED
  BY <1>1, <1>3, <1>4, NoticedStep

-----------------------------------------------------------------------------
(* The invariant.                                                          *)

\* A new window: one group without tabs.
LEMMA WindowInitInv == WindowInit => WindowInv
<1> SUFFICES ASSUME WindowInit PROVE WindowInv
  OBVIOUS
<1> DEFINE tree == OneGroup(1)
<1>1. /\ win.docs = [d \in Docs |-> NoDoc] /\ win.strip = [g \in {1} |-> NoTabs]
      /\ win.active = 1 /\ win.recent = <<>> /\ win.tree = tree
      /\ win.shown = [g \in {1} |-> Nil] /\ win.made = 1
      /\ win = [docs |-> [d \in Docs |-> NoDoc], strip |-> [g \in {1} |-> NoTabs], active |-> 1,
                recent |-> <<>>, tree |-> tree, shown |-> [g \in {1} |-> Nil], made |-> 1]
      /\ ask = NoAsk /\ room \in Rooms
  BY DEF WindowInit
<1>2. room.groups \in Nat \ {0} /\ 1 \in Ids
  <2>1. room.groups \in Nat \ {0}
    BY <1>1, TabGroupsAssumption
  <2>2. 1 \in 1..room.groups
    BY <2>1
  <2> QED
    BY <1>1, <2>1, <2>2 DEF Ids
<1>3. tree \in Layouts /\ LeavesOf(tree) = <<1>>
  BY <1>2, LayoutAssumption
<1> HIDE DEF tree
<1>4. Range(LeavesOf(tree)) = {1}
  BY <1>3 DEF Range
<1>5. Groups(win) = {1}
  BY <1>1 DEF Groups
<1>6. \A g \in {1} : win.strip[g] = NoTabs /\ win.shown[g] = Nil
  BY <1>1
<1>7. NoTabs \in Strip /\ NoTabs.tabs = <<>>
  BY DEF NoTabs, Strip
<1>8. NoDoc \in Doc /\ ~NoDoc.open /\ ~NoDoc.dirty /\ ~NoDoc.preview
  BY DEF NoDoc, Doc
<1>9. Range(<<>>) = {}
  BY DEF Range
<1>10. \A d \in Docs : ~InGroup(win, 1, d)
  BY <1>6, <1>7, <1>9 DEF InGroup
<1>11. IsInjective(<<>>)
  BY DEF IsInjective
<1>12. WellTyped(win)
  <2>1. [g \in {1} |-> NoTabs] \in [{1} -> Strip] /\ [g \in {1} |-> Nil] \in [{1} -> Docs \cup {Nil}]
    BY <1>7
  <2>2. <<>> \in Seq(Views) /\ [d \in Docs |-> NoDoc] \in [Docs -> Doc]
    BY <1>8
  <2>3. win \in Window({1})
    BY <2>1, <2>2, <1>1, <1>3 DEF Window
  <2> QED
    BY <2>3, <1>2, <1>5, <1>6 DEF WellTyped
<1>13. Sound(win, Nil)
  <2>1. \A g \in Groups(win) : IsInjective(win.strip[g].tabs) /\ g <= win.made
    BY <1>1, <1>5, <1>6, <1>7, <1>11
  <2>2. \A d \in Docs : win.docs[d] = NoDoc /\ ~Viewed(win, d) /\ d # Nil
    BY <1>1, <1>5, <1>10, TabGroupsAssumption DEF Viewed
  <2>3. Stored(win, Nil)
    BY <2>2, <1>8 DEF Stored
  <2>4. Ordered(win)
    BY <1>1, <1>5, <1>9, <1>10, <1>11 DEF Ordered
  <2>5. OnePreview(win)
    BY <1>5, <1>10 DEF OnePreview, IsPreview
  <2> QED
    BY <2>1, <2>3, <2>4, <2>5, <1>1, <1>4, <1>5, <1>12 DEF Sound
<1>14. Fresh(win, {})
  <2>1. Selected(win, 1) = Nil
    BY <1>6, <1>7 DEF Selected
  <2> QED
    BY <2>1, <1>5, <1>6 DEF Fresh, Holds
<1>15. AskHolds
  <2>1. NoAsk \in Ask /\ NoAsk.kind = "none" /\ NoAsk.group = 0
    BY DEF NoAsk, Ask
  <2>2. ask.group \notin Groups(win)
    BY <2>1, <1>1, <1>5
  <2> QED
    BY <2>1, <2>2, <1>1 DEF AskHolds, Asking
<1>16. win.made <= room.groups
  BY <1>1, <1>2
<1> QED
  BY <1>1, <1>13, <1>14, <1>15, <1>16 DEF WindowInv

\* Each step of each command and loop.
LEMMA WindowNextInv ==
  ASSUME WindowInv, WindowNext
  PROVE  WindowInv' /\ Agreed
<1>1. WindowStep /\ UNCHANGED room
  BY DEF WindowNext
<1>2. CASE Commands
  BY <1>1, <1>2, ClickGroupStep, SplitActiveGroupStep, FocusNewGroupStep, MoveActiveViewStep,
     PromoteStep, TypeStep, SaveTabStep DEF Commands
<1>3. CASE \E d \in Docs, saves \in Saves : NewDocument(d, saves)
  BY <1>1, <1>3, NewDocumentStep
<1>4. CASE \E d \in Docs, p \in room.paths, saves \in Saves : OpenAgain(d, p, saves)
  BY <1>1, <1>4, OpenAgainStep
<1>5. CASE \E d \in Docs, p \in room.paths, preview \in BOOLEAN, saves \in Saves :
             OpenFile(d, p, preview, saves)
  BY <1>1, <1>5, OpenFileStep
<1>6. CASE \E g \in Groups(win), d \in Docs, saves \in Saves : FocusView(g, d, saves)
  BY <1>1, <1>6, FocusViewStep
<1>7. CASE \E from, to \in Groups(win), d \in Docs, at \in 1..MaxViews, copy \in BOOLEAN :
             DropOnGroup(from, d, to, at, copy)
  BY <1>1, <1>7, DropOnGroupStep
<1>8. CASE \E from, target \in Groups(win), d \in Docs, direction \in Edges, copy \in BOOLEAN :
             DropOnEdge(from, d, target, direction, copy)
  BY <1>1, <1>8, DropOnEdgeStep
<1>9. CASE \E g \in Groups(win), d \in Docs, to \in 1..MaxViews : Reorder(g, d, to)
  BY <1>1, <1>9, ReorderStep
<1>10. CASE (\E saves \in Saves : CloseTab(saves)) \/ (\E d \in Docs : CloseBackground(d)) \/ CloseGroup
  BY <1>1, <1>10, CloseTabStep, CloseBackgroundStep, CloseGroupStep
<1>11. CASE \E saves \in Saves : CloseNext(saves)
  BY <1>1, <1>11, CloseNextStep
<1>12. CASE \E d \in Docs : DeleteNote(d)
  BY <1>1, <1>12, DeleteNoteStep
<1>13. CASE \E saves \in Saves : DeleteNext(saves)
  BY <1>1, <1>13, DeleteNextStep
<1>14. CASE AnswerCancel \/ CloseDiscard
  BY <1>1, <1>14, AnswerCancelStep, CloseDiscardStep
<1>15. CASE \E p \in room.paths, saves \in Saves : CloseSave(p, saves)
  BY <1>1, <1>15, CloseSaveStep
<1>16. CASE Exit \/ ExitDiscard
  BY <1>1, <1>16, ExitStep, ExitDiscardStep
<1>17. CASE \E leaving \in Saves, saves \in BOOLEAN : AutosaveNext(leaving, saves)
  BY <1>1, <1>17, AutosaveNextStep
<1>18. CASE \E leaving \in Saves : AutosaveDone(leaving)
  BY <1>1, <1>18, AutosaveDoneStep
<1>19. CASE \E p \in room.paths, saves \in Saves : ExitSave(p, saves)
  BY <1>1, <1>19, ExitSaveStep
<1>20. CASE \E g \in Groups(win), d \in Docs, saves \in Saves : AccessibleSelect(g, d, saves)
  BY <1>1, <1>20, AccessibleSelectStep
<1>21. CASE AutosaveTimer
  BY <1>1, <1>21, AutosaveTimerStep
<1> QED
  BY <1>1, <1>2, <1>3, <1>4, <1>5, <1>6, <1>7, <1>8, <1>9, <1>10, <1>11, <1>12, <1>13, <1>14,
     <1>15, <1>16, <1>17, <1>18, <1>19, <1>20, <1>21 DEF WindowStep

\* The invariant depends on the window, the question and the bounds alone.
LEMMA WindowStutters ==
  ASSUME WindowInv, UNCHANGED windowVars
  PROVE  WindowInv'
BY DEF windowVars, WindowInv, Sound, WellTyped, Groups, Window, Stored, Viewed, InGroup, Ordered,
       OnePreview, IsPreview, Fresh, Holds, IsImage, Selected, AskHolds, Asking

\* Through files opened in and over previews, tabs moved, copied, dropped on
\* edges and closed, groups split and removed, and questions answered late, the
\* window stays as its parts say.
THEOREM WindowInvariant == WindowSpec => []WindowInv
<1>1. WindowInit => WindowInv
  BY WindowInitInv
<1>2. WindowInv /\ [WindowNext]_windowVars => WindowInv'
  BY WindowNextInv, WindowStutters
<1> QED
  BY <1>1, <1>2, PTL DEF WindowSpec

\* The window, the question and what is under way have their types, for any
\* number of groups, of tabs and of files.
THEOREM WindowTypeCorrect == WindowSpec => []WindowTypeOK
<1>1. WindowInv => WindowTypeOK
  BY DEF WindowInv, Sound, WellTyped, AskHolds, WindowTypeOK
<1> QED
  BY <1>1, WindowInvariant, PTL

\* No command leaves a tab without a document, a document without a tab, or
\* either of them twice.
THEOREM StoreHoldsTheViews == WindowSpec => []StoreIsTheViews
<1>1. ASSUME WindowInv PROVE StoreIsTheViews
  <2>1. Sound(win, Nil) /\ WellTyped(win) /\ Groups(win) \subseteq Ids
    BY <1>1 DEF WindowInv, Sound, WellTyped
  <2>2. /\ win.recent \in Seq(Views)
        /\ \A g \in Groups(win) : win.strip[g].tabs \in Seq(Docs)
    BY <2>1, PartsTyped
  <2>3. \A g \in Groups(win) : Range(win.strip[g].tabs) \subseteq Docs
    BY <2>2, ElementOfSeq DEF Range
  <2>4. {d \in Docs : win.docs[d].open} = UNION {Range(win.strip[g].tabs) : g \in Groups(win)}
    <3>1. \A d \in Docs : win.docs[d].open <=> \E g \in Groups(win) : d \in Range(win.strip[g].tabs)
      BY <2>1, TabGroupsAssumption DEF Sound, Stored, Viewed, InGroup
    <3> QED
      BY <3>1, <2>3
  <2>5. Range(win.recent) \subseteq Views
    BY <2>2, ElementOfSeq DEF Range
  <2>6. Range(win.recent) = AllViews(win)
    <3>1. \A g \in Ids, d \in Docs :
            <<g, d>> \in Range(win.recent) <=> g \in Groups(win) /\ InGroup(win, g, d)
      BY <2>1 DEF Sound, Ordered
    <3>2. \A v \in Views : v \in Range(win.recent) <=> v \in AllViews(win)
      BY <3>1, <2>1 DEF Views, AllViews
    <3>3. AllViews(win) \subseteq Views
      BY <2>1 DEF Views, AllViews
    <3> QED
      BY <3>2, <3>3, <2>5
  <2> QED
    BY <2>1, <2>4, <2>6 DEF StoreIsTheViews, Sound, Ordered
<1> QED
  BY <1>1, WindowInvariant, PTL

\* Every editor holds the document of its selected tab, so an edit is recorded
\* on the document it is typed into.
THEOREM EditorsAreShown == WindowSpec => []EditorsShowSelected
<1>1. WindowInv => EditorsShowSelected
  BY DEF WindowInv, Fresh, EditorsShowSelected
<1> QED
  BY <1>1, WindowInvariant, PTL

\* Opening a file over a preview loses nothing: there is one in a group, clean,
\* and in no other group. Its tab is therefore always replaced, and the code
\* that would keep it as a normal tab is never reached.
THEOREM PreviewsLoseNothing == WindowSpec => []PreviewsAreDisposable
<1>1. ASSUME WindowInv, NEW g \in Groups(win)
      PROVE  /\ \A d, e \in Preview(win, g) : d = e
             /\ \A d \in Preview(win, g) : ViewsOf(win, d) = {g} /\ ~win.docs[d].dirty
  <2>1. OnePreview(win) /\ WellTyped(win)
    BY <1>1 DEF WindowInv, Sound
  <2>2. Range(win.strip[g].tabs) \subseteq Docs
    BY <2>1, PartsTyped, ElementOfSeq DEF Range
  <2>3. \A d \in Preview(win, g) : d \in Docs /\ IsPreview(win, g, d)
    BY <2>2 DEF Preview, IsPreview, InGroup
  <2>4. \A d \in Preview(win, g) : ViewsOf(win, d) = {g} /\ ~win.docs[d].dirty
    BY <2>1, <2>3 DEF OnePreview, ViewsOf, IsPreview
  <2> QED
    BY <2>1, <2>3, <2>4 DEF OnePreview
<1>2. WindowInv => PreviewsAreDisposable
  BY <1>1 DEF PreviewsAreDisposable
<1> QED
  BY <1>2, WindowInvariant, PTL

\* Each group has one place in the layout, whatever rows and columns it has.
THEOREM LayoutShowsTheGroups == WindowSpec => []LayoutIsTheGroups
<1>1. ASSUME WindowInv PROVE LayoutIsTheGroups
  <2>1. WellTyped(win) /\ Range(LeavesOf(win.tree)) = Groups(win)
    BY <1>1 DEF WindowInv, Sound
  <2> QED
    BY <2>1, PartsTyped DEF LayoutIsTheGroups
<1> QED
  BY <1>1, WindowInvariant, PTL

\* When the window is gone, every text lost with it is one the user gave up.
THEOREM ExitAsksFirst == WindowSpec => []ExitIsReviewed
<1>1. WindowInv => ExitIsReviewed
  BY DEF WindowInv, AskHolds, ExitIsReviewed
<1> QED
  BY <1>1, WindowInvariant, PTL

\* No step at all closes unsaved text but the deletion of its note and the
\* answer about that tab, whatever was selected while the question was open.
THEOREM NothingClosesUnasked == WindowSpec => ClosedOnlyAsAgreed
<1>1. WindowInv /\ [WindowNext]_windowVars =>
        [\A d \in Docs : win.docs[d].dirty /\ ~win'.docs[d].open =>
           \/ ask.kind = "close" /\ ask.doc = d /\ ~ask.changed
           \/ SavedOnLeaving(d)
           \/ ask.kind = "delete" /\ ask.doc = d]_windowVars
  BY WindowNextInv DEF Agreed
<1> QED
  BY <1>1, WindowInvariant, PTL DEF WindowSpec, ClosedOnlyAsAgreed
=============================================================================
