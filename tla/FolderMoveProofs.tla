--------------------------- MODULE FolderMoveProofs ---------------------------
(***************************************************************************)
(* Theorems about FolderMove, for any files, tabs and number of moves: its *)
(* type invariant and every safety property its run checks.                *)
(***************************************************************************)
EXTENDS FolderMove, TLAPS

-----------------------------------------------------------------------------
(* What save_before_move leaves.                                           *)

Typed(w) ==
  /\ w.src \in Folder
  /\ w.dst \in Copy
  /\ w.tabs \in [Tabbed -> Tab]
  /\ w.latest \in [Files -> Nat]
  /\ w.late \subseteq Files

\* A save of some tabs of one folder: s is what it makes of w.
Wrote(w, s, place) ==
  /\ s.src.here = w.src.here
  /\ s.dst.by = w.dst.by
  /\ place = "src" => s.dst = w.dst
  /\ place = "dst" => s.src = w.src
  /\ \A f \in Files :
       \/ /\ s.src.files[f] = w.src.files[f]
          /\ s.dst.files[f] = w.dst.files[f]
          /\ s.latest[f] = w.latest[f]
          /\ f \in s.late <=> f \in w.late
       \/ /\ f \in Tabbed
          /\ w.tabs[f].place = place
          /\ s.latest[f] = w.tabs[f].text
          /\ (IF place = "src" THEN s.src ELSE s.dst).files[f] = w.tabs[f].text
  /\ \A f \in Tabbed : s.tabs[f].place = w.tabs[f].place /\ s.tabs[f].text = w.tabs[f].text

LEMMA CleanTab ==
  ASSUME NEW tab \in Tab
  PROVE  /\ Clean(tab) \in Tab
         /\ Clean(tab).place = tab.place
         /\ Clean(tab).text = tab.text
         /\ Clean(tab).known = tab.text
         /\ ~Clean(tab).dirty
BY DEF Clean, Tab

LEMMA SavedTypes ==
  ASSUME NEW w, Typed(w), NEW place \in {"src", "dst"}
  PROVE  Typed(Saved(w, place))
<1> DEFINE now == {f \in Under(w.tabs, place) : Savable(w.src, w.dst, w.tabs, f)}
           Written(files) == [f \in Files |-> IF f \in now THEN w.tabs[f].text ELSE files[f]]
<1>1. now \subseteq Tabbed
  BY DEF Under
<1>2. ASSUME NEW files \in [Files -> Nat]
      PROVE  Written(files) \in [Files -> Nat]
  BY <1>1 DEF Typed, Tab
<1>3. [w.src EXCEPT !.files = Written(w.src.files)] \in Folder
  BY <1>2 DEF Typed, Folder
<1>4. [w.dst EXCEPT !.files = Written(w.dst.files)] \in Copy
  BY <1>2 DEF Typed, Copy
<1>5. [f \in Tabbed |-> IF f \in now THEN Clean(w.tabs[f]) ELSE w.tabs[f]] \in [Tabbed -> Tab]
  BY CleanTab DEF Typed
<1>6. Written(w.latest) \in [Files -> Nat]
  BY <1>2 DEF Typed
<1>7. Saved(w, place) =
        [src |-> IF place = "src" THEN [w.src EXCEPT !.files = Written(w.src.files)] ELSE w.src,
         dst |-> IF place = "dst" THEN [w.dst EXCEPT !.files = Written(w.dst.files)] ELSE w.dst,
         tabs |-> [f \in Tabbed |-> IF f \in now THEN Clean(w.tabs[f]) ELSE w.tabs[f]],
         latest |-> Written(w.latest),
         late |-> w.late \ now]
  BY DEF Saved
<1> HIDE DEF now, Written
<1> QED
  BY <1>3, <1>4, <1>5, <1>6, <1>7 DEF Typed

LEMMA SavedEffect ==
  ASSUME NEW w, Typed(w), NEW place \in {"src", "dst"}
  PROVE  /\ Wrote(w, Saved(w, place), place)
         /\ \A f \in Tabbed : w.tabs[f].place # place => Saved(w, place).tabs[f] = w.tabs[f]
         /\ \A f \in Tabbed : w.tabs[f].place = place =>
              LET s == Saved(w, place) IN ~Savable(s.src, s.dst, s.tabs, f)
<1> DEFINE now == {f \in Under(w.tabs, place) : Savable(w.src, w.dst, w.tabs, f)}
           Written(files) == [f \in Files |-> IF f \in now THEN w.tabs[f].text ELSE files[f]]
           s == Saved(w, place)
<1>1. /\ s.src = IF place = "src" THEN [w.src EXCEPT !.files = Written(w.src.files)] ELSE w.src
      /\ s.dst = IF place = "dst" THEN [w.dst EXCEPT !.files = Written(w.dst.files)] ELSE w.dst
      /\ s.tabs = [f \in Tabbed |-> IF f \in now THEN Clean(w.tabs[f]) ELSE w.tabs[f]]
      /\ s.latest = Written(w.latest)
      /\ s.late = w.late \ now
  BY DEF Saved
<1>2. \A f \in now : f \in Tabbed /\ w.tabs[f].place = place
  BY DEF Under
<1>3. /\ s.src.here = w.src.here
      /\ s.dst.by = w.dst.by
      /\ s.src.files = IF place = "src" THEN Written(w.src.files) ELSE w.src.files
      /\ s.dst.files = IF place = "dst" THEN Written(w.dst.files) ELSE w.dst.files
  BY <1>1 DEF Typed, Folder, Copy
<1>4. \A f \in Tabbed : /\ s.tabs[f].place = w.tabs[f].place
                        /\ s.tabs[f].text = w.tabs[f].text
                        /\ f \in now => ~s.tabs[f].dirty
                        /\ f \notin now => s.tabs[f] = w.tabs[f]
  <2> SUFFICES ASSUME NEW f \in Tabbed
               PROVE  /\ s.tabs[f].place = w.tabs[f].place
                      /\ s.tabs[f].text = w.tabs[f].text
                      /\ f \in now => ~s.tabs[f].dirty
                      /\ f \notin now => s.tabs[f] = w.tabs[f]
    OBVIOUS
  <2>1. w.tabs[f] \in Tab
    BY DEF Typed
  <2>2. s.tabs[f] = IF f \in now THEN Clean(w.tabs[f]) ELSE w.tabs[f]
    BY <1>1
  <2> HIDE DEF now, s
  <2> QED
    BY <2>1, <2>2, CleanTab
<1>5. \A f \in Files :
        \/ /\ s.src.files[f] = w.src.files[f]
           /\ s.dst.files[f] = w.dst.files[f]
           /\ s.latest[f] = w.latest[f]
           /\ f \in s.late <=> f \in w.late
        \/ /\ f \in Tabbed
           /\ w.tabs[f].place = place
           /\ s.latest[f] = w.tabs[f].text
           /\ (IF place = "src" THEN s.src ELSE s.dst).files[f] = w.tabs[f].text
  <2> SUFFICES ASSUME NEW f \in Files
               PROVE  \/ /\ s.src.files[f] = w.src.files[f]
                         /\ s.dst.files[f] = w.dst.files[f]
                         /\ s.latest[f] = w.latest[f]
                         /\ f \in s.late <=> f \in w.late
                      \/ /\ f \in Tabbed
                         /\ w.tabs[f].place = place
                         /\ s.latest[f] = w.tabs[f].text
                         /\ (IF place = "src" THEN s.src ELSE s.dst).files[f] = w.tabs[f].text
    OBVIOUS
  <2>1. CASE f \in now
    BY <1>1, <1>2, <1>3, <2>1
  <2>2. CASE f \notin now
    BY <1>1, <1>3, <2>2
  <2> QED
    BY <2>1, <2>2
<1>6. Wrote(w, s, place)
  BY <1>1, <1>3, <1>4, <1>5 DEF Wrote
<1>7. ASSUME NEW f \in Tabbed, w.tabs[f].place # place
      PROVE  s.tabs[f] = w.tabs[f]
  BY <1>2, <1>4, <1>7
<1>8. ASSUME NEW f \in Tabbed, w.tabs[f].place = place
      PROVE  ~Savable(s.src, s.dst, s.tabs, f)
  <2>1. CASE f \in now
    BY <1>4, <2>1 DEF Savable
  <2>2. CASE f \notin now
    <3>1. ~Savable(w.src, w.dst, w.tabs, f)
      BY <1>8, <2>2 DEF Under
    <3>2. f \in Files
      BY FolderMoveAssumption
    <3>3. OnDisk(s.src, s.dst, f, place) = OnDisk(w.src, w.dst, f, place)
      BY <1>3, <2>2, <3>2 DEF OnDisk
    <3>4. s.tabs[f] = w.tabs[f]
      BY <1>4, <2>2
    <3> QED
      BY <1>8, <3>1, <3>3, <3>4 DEF Savable
  <2> QED
    BY <2>1, <2>2
<1> HIDE DEF s
<1>9. s = Saved(w, place)
  BY DEF s
<1> QED
  BY <1>6, <1>7, <1>8, <1>9

-----------------------------------------------------------------------------
(* The inductive invariant.                                                *)

\* A text once replaced never comes back: a new one has a number of its own.
TextsAreOld ==
  /\ \A f \in Files : src.files[f] <= texts /\ job.before[f] <= texts
  /\ \A f \in Tabbed : tabs[f].text <= texts /\ tabs[f].text # 0

\* A tab has followed only to a copy that landed, after which no move starts.
TabsFollowed == \A f \in Tabbed : tabs[f].place = "dst" => dst.by = "move" /\ job.phase = "idle"

\* The copy is the worker's, or on its way to the window.
Copying == job.phase \in {"copying", "check", "verify", "landing"} \/ done = "copied"
CopyIsMine ==
  /\ Copying => dst.by = "move"
  /\ (Moving /\ ~Copying) \/ job.phase = "asked" => dst.by # "move"

\* The original goes when the copy lands, and not before.
SourceIsHere == src.here \/ (job.phase = "idle" /\ dst.by = "move")

\* Until a copy landed, the original has the last text of every file.
SourceIsCurrent == (job.phase = "idle" /\ dst.by = "move") \/ latest = src.files

\* A file that was copied and is as it was in the snapshot was copied as it was.
CopyIsFaithful ==
  Copying => \A f \in Files :
    job.before[f] # 0 /\ src.files[f] = job.before[f] /\ dst.files[f] # 0 => dst.files[f] = job.before[f]

\* A checked copy has every file of the snapshot.
CopyIsComplete == done = "copied" => \A f \in Files : job.before[f] # 0 => dst.files[f] # 0

\* While the original is being recycled the copy has every text the window
\* compared, and what was not written since is such a text.
LandingIsCopied ==
  Landing => /\ \A f \in Files : job.before[f] # 0 => dst.files[f] = job.before[f]
             /\ \A f \in Files \ late : latest[f] = job.before[f]

Inv ==
  /\ TypeOK
  /\ TextsAreOld
  /\ TabsFollowed
  /\ CopyIsMine
  /\ SourceIsHere
  /\ SourceIsCurrent
  /\ CopyIsFaithful
  /\ CopyIsComplete
  /\ LandingIsCopied
  /\ NothingIsLost

-----------------------------------------------------------------------------
(* Types.                                                                  *)

LEMMA WorldTyped == ASSUME TypeOK PROVE Typed(World)
BY DEF TypeOK, Typed, World

LEMMA InitType == Init => TypeOK
<1> SUFFICES ASSUME Init PROVE TypeOK
  OBVIOUS
<1>1. PICK files \in [Files -> {0, 1}] : src = [here |-> TRUE, files |-> files] /\ latest = files
  BY DEF Init
<1>2. src \in Folder /\ latest \in [Files -> Nat]
  BY <1>1 DEF Folder
<1>3. tabs \in [Tabbed -> Tab]
  BY DEF Init, Tab
<1>4. dst \in Copy /\ job \in Job /\ host \in Host
  BY DEF Init, Nothing, NoFiles, Copy, Idle, Job, Phases, Host
<1> QED
  BY <1>2, <1>3, <1>4 DEF Init, TypeOK, Outcomes

LEMMA EditedTab ==
  ASSUME NEW tab \in Tab, NEW n \in Nat
  PROVE  /\ [tab EXCEPT !.text = n, !.dirty = TRUE] \in Tab
         /\ [tab EXCEPT !.text = n, !.dirty = TRUE].text = n
         /\ [tab EXCEPT !.text = n, !.dirty = TRUE].place = tab.place
BY DEF Tab

LEMMA EditType == ASSUME TypeOK, NEW f \in Tabbed, Edit(f) PROVE TypeOK'
<1>1. tabs' = [tabs EXCEPT ![f] = [tabs[f] EXCEPT !.text = texts + 1, !.dirty = TRUE]]
  BY DEF Edit, TypeOK
<1>2. tabs[f] \in Tab
  BY DEF TypeOK
<1>3. [tabs[f] EXCEPT !.text = texts + 1, !.dirty = TRUE] \in Tab
  <2>1. texts + 1 \in Nat
    BY DEF TypeOK
  <2> QED
    BY <1>2, <2>1, EditedTab
<1>4. tabs' \in [Tabbed -> Tab]
  BY <1>1, <1>3 DEF TypeOK
<1> QED
  BY <1>4 DEF Edit, TypeOK

LEMMA SaveType == ASSUME TypeOK, NEW f \in Tabbed, Save(f) PROVE TypeOK'
<1>1. tabs[f] \in Tab /\ f \in Files
  BY FolderMoveAssumption DEF TypeOK
<1>2. tabs' \in [Tabbed -> Tab]
  BY <1>1, CleanTab DEF Save, TypeOK
<1>3. src' \in Folder /\ dst' \in Copy /\ latest' \in [Files -> Nat]
  BY <1>1 DEF Save, TypeOK, Tab, Folder, Copy
<1>4. late' \subseteq Files
  BY <1>1 DEF Save, LateAfter, TypeOK
<1> QED
  BY <1>2, <1>3, <1>4 DEF Save, TypeOK

LEMMA ForeignType == ASSUME TypeOK, NEW f \in Files, Foreign(f) PROVE TypeOK'
<1>1. PICK text \in {0, texts + 1} :
        /\ src' = [src EXCEPT !.files[f] = text]
        /\ latest' = [latest EXCEPT ![f] = text]
  BY DEF Foreign
<1>2. text \in Nat /\ texts' \in Nat
  BY DEF Foreign, TypeOK
<1>3. src' \in Folder /\ latest' \in [Files -> Nat]
  BY <1>1, <1>2 DEF TypeOK, Folder
<1>4. late' \subseteq Files
  BY DEF Foreign, LateAfter, TypeOK
<1> QED
  BY <1>2, <1>3, <1>4 DEF Foreign, TypeOK

LEMMA BecomesType ==
  ASSUME NEW w, Typed(w), Becomes(w)
  PROVE  /\ src' \in Folder /\ dst' \in Copy /\ tabs' \in [Tabbed -> Tab]
         /\ latest' \in [Files -> Nat] /\ late' \subseteq Files
BY DEF Typed, Becomes

LEMMA NothingType == Nothing \in Copy /\ Gone \in Folder /\ Idle \in Job
BY DEF Nothing, Gone, NoFiles, Copy, Folder, Idle, Job, Phases

LEMMA WithoutType == Without \subseteq Copy
BY DEF Without, Nothing, NoFiles, Copy

LEMMA WithoutBy == \A copy \in Without : copy.by # "move"
BY DEF Without, Nothing

LEMMA RemovedType == ASSUME TypeOK, Removed PROVE dst' \in Copy
BY WithoutType DEF Removed, TypeOK

LEMMA AskType == ASSUME TypeOK, Ask PROVE TypeOK'
<1>1. Typed(Saved(World, "src"))
  BY WorldTyped, SavedTypes
<1>2. /\ src' \in Folder /\ dst' \in Copy /\ tabs' \in [Tabbed -> Tab]
      /\ latest' \in [Files -> Nat] /\ late' \subseteq Files
  BY <1>1, BecomesType DEF Ask
<1>3. job' \in Job
  BY NothingType DEF Ask, Job, Phases
<1>4. done' = "none"
  BY DEF Ask, TypeOK, Outcomes
<1> QED
  BY <1>2, <1>3, <1>4 DEF Ask, TypeOK, Outcomes

\* The actions of the window that start, cancel or refuse a move.
LEMMA WindowType ==
  ASSUME TypeOK, Answer \/ Refuse \/ Cancel \/ ForeignFolder
  PROVE  TypeOK'
<1>1. CASE Answer
  <2>1. job' \in Job /\ done = "none"
    BY <1>1, NothingType DEF Answer, TypeOK, Job, Phases, Outcomes
  <2> QED
    BY <1>1, <2>1 DEF Answer, TypeOK
<1>2. CASE Refuse
  <2>1. job' \in Job /\ done = "none"
    BY <1>2, NothingType DEF Refuse, TypeOK, Outcomes
  <2> QED
    BY <1>2, <2>1 DEF Refuse, TypeOK
<1>3. CASE Cancel
  <2>1. job' \in Job /\ job'.phase = job.phase
    BY <1>3 DEF Cancel, TypeOK, Job
  <2> QED
    BY <1>3, <2>1 DEF Cancel, TypeOK
<1>4. CASE ForeignFolder
  <2>1. dst' \in Copy
    BY <1>4 DEF ForeignFolder, Copy, NoFiles
  <2> QED
    BY <1>4, <2>1 DEF ForeignFolder, TypeOK
<1> QED
  BY <1>1, <1>2, <1>3, <1>4

LEMMA EndsType ==
  ASSUME TypeOK, NEW outcome \in Outcomes, Ends(outcome)
  PROVE  /\ job' \in Job
         /\ job'.phase = "ended"
         /\ job'.before = job.before
         /\ done' \in Outcomes
BY DEF Ends, TypeOK, Job, Phases

LEMMA WorkerType == ASSUME TypeOK, Worker PROVE TypeOK'
<1>1. CASE Snapshots
  <2>1. CASE Ends("failed")
    BY <1>1, <2>1, EndsType DEF Snapshots, TypeOK, Outcomes
  <2>2. CASE job' = [job EXCEPT !.phase = "listing", !.before = src.files] /\ UNCHANGED done
    <3>1. job' \in Job
      BY <2>2 DEF TypeOK, Job, Phases, Folder
    <3>2. done = "none"
      BY <1>1 DEF Snapshots, TypeOK, Outcomes
    <3> QED
      BY <1>1, <2>2, <3>1, <3>2 DEF Snapshots, TypeOK
  <2> QED
    BY <1>1, <2>1, <2>2 DEF Snapshots
<1>2. CASE Lists
  <2>1. CASE ~job.cancel /\ src.here /\ dst.by = "nobody"
    <3>1. dst' \in Copy
      BY <1>2, <2>1 DEF Lists, Copy, NoFiles
    <3>2. job' \in Job
      <4> DEFINE left == {f \in Files : src.files[f] # 0}
      <4>1. job' = [job EXCEPT !.phase = "copying", !.left = left]
        BY <1>2, <2>1 DEF Lists
      <4>2. left \subseteq Files
        OBVIOUS
      <4> HIDE DEF left
      <4> QED
        BY <4>1, <4>2 DEF TypeOK, Job, Phases
    <3>3. done = "none" /\ UNCHANGED done
      BY <1>2, <2>1 DEF Lists, TypeOK, Outcomes
    <3> QED
      BY <1>2, <3>1, <3>2, <3>3 DEF Lists, TypeOK
  <2>2. CASE ~(~job.cancel /\ src.here /\ dst.by = "nobody")
    <3>1. dst' \in Copy
      BY <1>2, <2>2, RemovedType DEF Lists
    <3>2. Ends("cancelled") \/ Ends("failed")
      BY <1>2, <2>2 DEF Lists
    <3>3. job' \in Job /\ done' \in Outcomes /\ job'.phase = "ended"
      BY <3>2, EndsType DEF Outcomes
    <3> QED
      BY <1>2, <3>1, <3>3 DEF Lists, TypeOK
  <2> QED
    BY <2>1, <2>2
<1>3. ASSUME NEW f \in Files, Copies(f)
      PROVE  TypeOK'
  <2>1. dst' \in Copy
    BY <1>3 DEF Copies, TypeOK, Copy, Folder
  <2>2. job' \in Job /\ done = "none"
    BY <1>3 DEF Copies, TypeOK, Job, Outcomes
  <2> QED
    BY <1>3, <2>1, <2>2 DEF Copies, TypeOK
<1>4. CASE CopyFails
  <2>1. dst' \in Copy
    BY <1>4, RemovedType DEF CopyFails
  <2>2. job' \in Job /\ done' \in Outcomes /\ job'.phase = "ended"
    BY <1>4, EndsType DEF CopyFails, Outcomes
  <2> QED
    BY <1>4, <2>1, <2>2 DEF CopyFails, TypeOK
<1>5. CASE CopyIsCancelled
  <2>1. dst' \in Copy
    BY <1>5, RemovedType DEF CopyIsCancelled
  <2>2. job' \in Job /\ done' \in Outcomes /\ job'.phase = "ended"
    BY <1>5, EndsType DEF CopyIsCancelled, Outcomes
  <2> QED
    BY <1>5, <2>1, <2>2 DEF CopyIsCancelled, TypeOK
<1>6. CASE CopyIsWhole
  <2>1. job' \in Job /\ done = "none"
    BY <1>6 DEF CopyIsWhole, TypeOK, Job, Phases, Outcomes
  <2> QED
    BY <1>6, <2>1 DEF CopyIsWhole, TypeOK
<1>7. CASE Verifies
  <2>1. dst' \in Copy
    BY <1>7, RemovedType DEF Verifies, TypeOK
  <2>2. \E outcome \in Outcomes : Ends(outcome)
    BY <1>7 DEF Verifies, Outcomes
  <2>3. job' \in Job /\ done' \in Outcomes /\ job'.phase = "ended"
    BY <2>2, EndsType
  <2> QED
    BY <1>7, <2>1, <2>3 DEF Verifies, TypeOK
<1>8. CASE CopyIsWanted
  <2>1. job' \in Job /\ done = "none"
    BY <1>8 DEF CopyIsWanted, TypeOK, Job, Phases, Outcomes
  <2> QED
    BY <1>8, <2>1 DEF CopyIsWanted, TypeOK
<1> QED
  BY <1>1, <1>2, <1>3, <1>4, <1>5, <1>6, <1>7, <1>8 DEF Worker

\* The worlds recycle_path may leave.
LEMMA FollowType ==
  ASSUME NEW ts \in [Tabbed -> Tab], NEW gone
  PROVE  /\ Follow(ts, gone) \in [Tabbed -> Tab]
         /\ \A f \in Tabbed : Follow(ts, gone)[f].text = ts[f].text
         /\ \A f \in Tabbed : Follow(ts, gone)[f].place =
              IF f \in gone THEN "dst" ELSE ts[f].place
<1> SUFFICES ASSUME NEW f \in Tabbed
             PROVE  /\ Follow(ts, gone)[f] \in Tab
                    /\ Follow(ts, gone)[f].text = ts[f].text
                    /\ Follow(ts, gone)[f].place = IF f \in gone THEN "dst" ELSE ts[f].place
  BY DEF Follow
<1>1. ts[f] \in Tab
  OBVIOUS
<1>2. Follow(ts, gone)[f] = IF f \in gone /\ ts[f].place = "src" THEN [ts[f] EXCEPT !.place = "dst"] ELSE ts[f]
  BY DEF Follow
<1> QED
  BY <1>1, <1>2 DEF Tab

LEMMA RecycledType ==
  ASSUME TypeOK
  PROVE  Typed(RecycledAll) /\ \A gone \in SUBSET Files : Typed(RecycledSome(gone))
<1>1. /\ RecycledAll.src = Gone
      /\ RecycledAll.dst = dst
      /\ RecycledAll.tabs = Follow(tabs, Files)
      /\ RecycledAll.latest = latest
      /\ RecycledAll.late = late
  BY DEF RecycledAll, World
<1>2. Typed(RecycledAll)
  BY <1>1, NothingType, FollowType DEF TypeOK, Typed
<1>3. ASSUME NEW gone \in SUBSET Files
      PROVE  Typed(RecycledSome(gone))
  <2> DEFINE some == [src EXCEPT !.files = [f \in Files |-> IF f \in gone THEN 0 ELSE src.files[f]]]
             copied == {f \in Files : [g \in Files |-> IF g \in gone THEN 0 ELSE src.files[g]][f] = 0 /\ dst.files[f] # 0}
  <2>1. /\ RecycledSome(gone).src = some
        /\ RecycledSome(gone).dst = dst
        /\ RecycledSome(gone).tabs = Follow(tabs, copied)
        /\ RecycledSome(gone).latest = latest
        /\ RecycledSome(gone).late = late \cap gone
    BY DEF RecycledSome, World
  <2>2. some \in Folder
    BY DEF TypeOK, Folder
  <2> HIDE DEF some, copied
  <2> QED
    BY <2>1, <2>2, FollowType DEF TypeOK, Typed
<1> QED
  BY <1>2, <1>3

\* The copies move_done may leave when nothing lands.
Leftovers == IF done = "copied" THEN Without ELSE {dst}

LEMMA MoveDoneType == ASSUME TypeOK, MoveDone PROVE TypeOK'
<1>1. CASE MayLand
  <2>1. job' \in Job
    BY <1>1 DEF MoveDone, TypeOK, Job, Phases
  <2> QED
    BY <1>1, <2>1 DEF MoveDone, TypeOK, Outcomes
<1>2. CASE ~MayLand
  <2>1. PICK copy \in Leftovers : Becomes(Saved([World EXCEPT !.dst = copy], "src"))
    BY <1>2 DEF MoveDone, Leftovers
  <2>2. copy \in Copy
    BY WithoutType DEF Leftovers, TypeOK
  <2>3. Typed([World EXCEPT !.dst = copy])
    BY <2>2, WorldTyped DEF Typed, World
  <2>4. /\ src' \in Folder /\ dst' \in Copy /\ tabs' \in [Tabbed -> Tab]
        /\ latest' \in [Files -> Nat] /\ late' \subseteq Files
    BY <2>1, <2>3, SavedTypes, BecomesType
  <2> QED
    BY <1>2, <2>4, NothingType DEF MoveDone, TypeOK, Outcomes
<1> QED
  BY <1>1, <1>2

LEMMA RecycledStepType == ASSUME TypeOK, Recycled PROVE TypeOK'
<1>1. /\ src' \in Folder /\ dst' \in Copy /\ tabs' \in [Tabbed -> Tab]
      /\ latest' \in [Files -> Nat] /\ late' \subseteq Files
  <2>1. CASE Becomes(Saved(RecycledAll, "dst"))
    BY <2>1, RecycledType, SavedTypes, BecomesType
  <2>2. CASE \E gone \in SUBSET Files : Becomes(Saved(Saved(RecycledSome(gone), "src"), "dst"))
    BY <2>2, RecycledType, SavedTypes, BecomesType
  <2> QED
    BY <2>1, <2>2 DEF Recycled, Lands
<1>2. done = "none"
  BY DEF Recycled, Landing, TypeOK
<1> QED
  BY <1>1, <1>2, NothingType DEF Recycled, TypeOK, Outcomes

LEMMA CloseType ==
  ASSUME TypeOK,
         CloseNotebook \/ AskToClose \/ KeepRunning \/ CancelAndClose \/ BackFromClose \/ Destroy \/ Joined
  PROVE  TypeOK'
<1>1. host' \in Host
  BY DEF TypeOK, Host, CloseNotebook, AskToClose, KeepRunning, CancelAndClose, BackFromClose, Destroy, Joined
<1>2. CASE Joined
  <2>1. dst' \in Copy
    BY <1>2, WithoutType DEF Joined, CopyDropped, TypeOK
  <2> QED
    BY <1>1, <1>2, <2>1, NothingType DEF Joined, TypeOK, Outcomes
<1>3. CASE ~Joined
  <2>1. job' = job \/ job' = [job EXCEPT !.cancel = TRUE]
    BY <1>3 DEF CloseNotebook, AskToClose, KeepRunning, CancelAndClose, BackFromClose, Destroy
  <2>2. job' \in Job /\ job'.phase = job.phase
    BY <2>1 DEF TypeOK, Job
  <2> QED
    BY <1>1, <1>3, <2>2
       DEF TypeOK, CloseNotebook, AskToClose, KeepRunning, CancelAndClose, BackFromClose, Destroy
<1> QED
  BY <1>2, <1>3

LEMMA NextType == TypeOK /\ [Next]_vars => TypeOK'
<1> SUFFICES ASSUME TypeOK, [Next]_vars PROVE TypeOK'
  OBVIOUS
<1>1. CASE UNCHANGED vars
  BY <1>1 DEF vars, TypeOK
<1> QED
  BY <1>1, EditType, SaveType, ForeignType, AskType, WindowType, WorkerType, MoveDoneType, RecycledStepType,
     CloseType DEF Next

\* Type correctness of the window, the worker, both folders and the tabs, and an
\* outcome is posted only by a worker that ended.
THEOREM TypeCorrect == Spec => []TypeOK
<1>1. Init => TypeOK
  BY InitType
<1> QED
  BY <1>1, NextType, PTL DEF Spec

-----------------------------------------------------------------------------
(* Every step keeps the invariant.                                         *)

LEMMA InitInv == Init => Inv
<1> SUFFICES ASSUME Init PROVE Inv
  OBVIOUS
<1>1. PICK files \in [Files -> {0, 1}] : src = [here |-> TRUE, files |-> files] /\ latest = files
  BY DEF Init
<1>2. TextsAreOld
  BY <1>1 DEF Init, TextsAreOld, Idle, NoFiles
<1>3. TabsFollowed /\ CopyIsMine /\ SourceIsHere /\ CopyIsFaithful /\ CopyIsComplete /\ LandingIsCopied
  BY <1>1 DEF Init, TabsFollowed, CopyIsMine, SourceIsHere, CopyIsFaithful, CopyIsComplete, LandingIsCopied,
              Copying, Moving, Landing, Idle, Nothing
<1>4. SourceIsCurrent /\ NothingIsLost
  BY <1>1 DEF SourceIsCurrent, NothingIsLost
<1> QED
  BY <1>2, <1>3, <1>4, InitType DEF Inv

\* Most steps of the window change no file and no tab, and leave the job where
\* it is, or end it before the copy began.
LEMMA SameDisk ==
  ASSUME Inv, TypeOK', UNCHANGED <<src, dst, tabs, latest, late, texts, done>>,
         \/ job'.phase = job.phase /\ job'.before = job.before
         \/ job.phase = "asked" /\ job'.phase = "started" /\ job'.before = job.before
         \/ job.phase = "asked" /\ job'.phase = "idle" /\ job'.before = NoFiles
  PROVE  Inv'
<1>1. TextsAreOld'
  BY DEF Inv, TextsAreOld, TypeOK, NoFiles
<1>2. TabsFollowed'
  BY DEF Inv, TabsFollowed
<1>3. CopyIsMine'
  BY DEF Inv, CopyIsMine, Copying, Moving
<1>4. SourceIsHere' /\ SourceIsCurrent'
  BY DEF Inv, SourceIsHere, SourceIsCurrent
<1>5. job.phase = "asked" => done = "none"
  BY DEF Inv, TypeOK, Outcomes
<1>6. CopyIsFaithful' /\ CopyIsComplete' /\ LandingIsCopied'
  BY <1>5 DEF Inv, CopyIsFaithful, CopyIsComplete, LandingIsCopied, Copying, Landing
<1>7. NothingIsLost'
  BY DEF Inv, NothingIsLost
<1> QED
  BY <1>1, <1>2, <1>3, <1>4, <1>6, <1>7 DEF Inv

LEMMA WindowInv ==
  ASSUME Inv, TypeOK',
         \/ Answer \/ Refuse \/ Cancel
         \/ CloseNotebook \/ AskToClose \/ KeepRunning \/ CancelAndClose \/ BackFromClose \/ Destroy
  PROVE  Inv'
<1>1. CASE Answer
  <2>1. \/ job'.phase = "started" /\ job'.before = job.before
        \/ job'.phase = "idle" /\ job'.before = NoFiles
    BY <1>1 DEF Answer, Idle, Inv, TypeOK, Job
  <2> QED
    BY <1>1, <2>1, SameDisk DEF Answer
<1>2. CASE Refuse
  BY <1>2, SameDisk DEF Refuse, Idle
<1>3. CASE ~Answer /\ ~Refuse
  <2>1. job' = job \/ job' = [job EXCEPT !.cancel = TRUE]
    BY <1>3 DEF Cancel, CloseNotebook, AskToClose, KeepRunning, CancelAndClose, BackFromClose, Destroy
  <2>2. job'.phase = job.phase /\ job'.before = job.before
    BY <2>1 DEF Inv, TypeOK, Job
  <2>3. UNCHANGED <<src, dst, tabs, latest, late, texts, done>>
    BY <1>3 DEF Cancel, CloseNotebook, AskToClose, KeepRunning, CancelAndClose, BackFromClose, Destroy
  <2> QED
    BY <2>2, <2>3, SameDisk
<1> QED
  BY <1>1, <1>2, <1>3

LEMMA EditInv == ASSUME Inv, TypeOK', NEW f \in Tabbed, Edit(f) PROVE Inv'
<1>1. tabs' = [tabs EXCEPT ![f] = [tabs[f] EXCEPT !.text = texts + 1, !.dirty = TRUE]]
  BY DEF Edit, Inv, TypeOK
<1>2. tabs[f] \in Tab /\ texts + 1 \in Nat /\ texts \in Nat /\ tabs \in [Tabbed -> Tab]
  BY DEF Inv, TypeOK
<1>3. tabs'[f].text = texts + 1 /\ tabs'[f].place = tabs[f].place
  BY <1>1, <1>2, EditedTab
<1>4. \A g \in Tabbed : g # f => tabs'[g] = tabs[g]
  BY <1>1, <1>2
<1>5. \A g \in Tabbed : tabs'[g].place = tabs[g].place /\ (tabs'[g].text = texts + 1 \/ tabs'[g] = tabs[g])
  BY <1>3, <1>4
<1>6. TextsAreOld'
  <2>1. \A g \in Files : src.files[g] \in Nat /\ job.before[g] \in Nat
    BY DEF Inv, TypeOK, Folder, Job
  <2>2. \A g \in Tabbed : tabs[g].text \in Nat
    BY <1>2 DEF Tab
  <2> QED
    BY <1>2, <1>5, <2>1, <2>2 DEF Edit, Inv, TextsAreOld
<1>7. TabsFollowed'
  BY <1>5 DEF Edit, Inv, TabsFollowed
<1>8. CopyIsMine' /\ SourceIsHere' /\ SourceIsCurrent' /\ CopyIsFaithful' /\ CopyIsComplete' /\ NothingIsLost'
  BY DEF Edit, Inv, CopyIsMine, SourceIsHere, SourceIsCurrent, CopyIsFaithful, CopyIsComplete, NothingIsLost,
         Copying, Moving
<1>9. LandingIsCopied'
  BY DEF Edit, UserMay, Landing, LandingIsCopied
<1> QED
  BY <1>6, <1>7, <1>8, <1>9 DEF Inv

LEMMA SaveInv == ASSUME Inv, TypeOK', NEW f \in Tabbed, Save(f) PROVE Inv'
<1>1. f \in Files /\ tabs[f] \in Tab /\ tabs \in [Tabbed -> Tab]
  BY FolderMoveAssumption DEF Inv, TypeOK
<1>2. \A g \in Tabbed : tabs'[g].place = tabs[g].place /\ tabs'[g].text = tabs[g].text
  <2>1. tabs' = [tabs EXCEPT ![f] = Clean(tabs[f])]
    BY DEF Save
  <2> QED
    BY <1>1, <2>1, CleanTab
<1>3. /\ src'.here = src.here /\ dst'.by = dst.by
      /\ \A g \in Files : \/ src'.files[g] = src.files[g]
                          \/ g = f /\ src'.files[g] = tabs[f].text
  BY <1>1 DEF Save, Inv, TypeOK, Folder, Copy
<1>4. job.phase \in {"idle", "asked", "landing"} /\ done = "none"
  BY DEF Save, Holds, Moving, Inv, TypeOK, Outcomes
<1>5. TextsAreOld'
  BY <1>1, <1>2, <1>3 DEF Save, Inv, TextsAreOld
<1>6. TabsFollowed' /\ CopyIsMine' /\ SourceIsHere'
  BY <1>2, <1>3 DEF Save, Inv, TabsFollowed, CopyIsMine, SourceIsHere, Copying, Moving
<1>7. CopyIsFaithful' /\ CopyIsComplete' /\ LandingIsCopied'
  <2>1. CASE Landing
    <3>1. dst' = dst /\ job' = job /\ done' = "none"
      BY <1>1, <1>4, <2>1 DEF Save, Landing, Inv, TabsFollowed, Tab
    <3>2. late' = late \cup {f} /\ latest' = [latest EXCEPT ![f] = tabs[f].text]
      BY <2>1 DEF Save, LateAfter
    <3>3. \A g \in Files : job.before[g] # 0 => dst.files[g] = job.before[g]
      BY <2>1 DEF Inv, LandingIsCopied
    <3>4. \A g \in Files \ late' : latest'[g] = job.before[g]
      BY <2>1, <3>2 DEF Inv, LandingIsCopied, TypeOK
    <3> QED
      BY <3>1, <3>3, <3>4 DEF CopyIsFaithful, CopyIsComplete, LandingIsCopied
  <2>2. CASE ~Landing
    BY <1>4, <2>2 DEF Save, CopyIsFaithful, CopyIsComplete, LandingIsCopied, Copying, Landing
  <2> QED
    BY <2>1, <2>2
<1>8. SourceIsCurrent'
  <2>1. CASE tabs[f].place = "src"
    <3>1. src'.files = [src.files EXCEPT ![f] = tabs[f].text] /\ latest' = [latest EXCEPT ![f] = tabs[f].text]
      BY <1>1, <2>1 DEF Save, Inv, TypeOK, Folder
    <3> QED
      BY <1>3, <3>1 DEF Save, Inv, SourceIsCurrent
  <2>2. CASE tabs[f].place = "dst"
    BY <1>3, <2>2 DEF Save, Inv, TabsFollowed, SourceIsCurrent
  <2> QED
    BY <1>1, <2>1, <2>2 DEF Tab
<1>9. NothingIsLost'
  <2>1. late \ {f} \subseteq late'
    BY DEF Save, LateAfter
  <2>2. ASSUME NEW g \in Files \ late', latest'[g] # 0
        PROVE  latest'[g] \in {src'.files[g], dst'.files[g]}
    <3>1. CASE g = f
      BY <1>1, <3>1 DEF Save, Inv, TypeOK, Folder, Copy
    <3>2. CASE g # f
      <4>1. latest'[g] = latest[g] /\ src'.files[g] = src.files[g] /\ dst'.files[g] = dst.files[g]
        BY <1>1, <3>2 DEF Save, Inv, TypeOK, Folder, Copy
      <4> QED
        BY <2>1, <2>2, <3>2, <4>1 DEF Inv, NothingIsLost
    <3> QED
      BY <3>1, <3>2
  <2> QED
    BY <2>2 DEF NothingIsLost
<1> QED
  BY <1>5, <1>6, <1>7, <1>8, <1>9 DEF Inv

LEMMA ForeignInv == ASSUME Inv, TypeOK', NEW f \in Files, Foreign(f) PROVE Inv'
<1>1. PICK text \in {0, texts + 1} :
        /\ src' = [src EXCEPT !.files[f] = text]
        /\ latest' = [latest EXCEPT ![f] = text]
  BY DEF Foreign
<1>2. src'.here = src.here /\ src'.files = [src.files EXCEPT ![f] = text]
  BY <1>1 DEF Inv, TypeOK, Folder
<1>3. src.files \in [Files -> Nat] /\ latest \in [Files -> Nat] /\ job.before \in [Files -> Nat] /\ texts \in Nat
  BY DEF Inv, TypeOK, Folder, Job
<1>4. TextsAreOld'
  <2>1. \A g \in Tabbed : tabs[g].text \in Nat
    BY DEF Inv, TypeOK, Tab
  <2> QED
    BY <1>2, <1>3, <2>1 DEF Foreign, Inv, TextsAreOld
<1>5. TabsFollowed' /\ CopyIsMine' /\ SourceIsHere' /\ CopyIsComplete'
  BY <1>2 DEF Foreign, Inv, TabsFollowed, CopyIsMine, SourceIsHere, CopyIsComplete, Copying, Moving
<1>6. CopyIsFaithful'
  <2>1. job.before[f] <= texts /\ job.before[f] \in Nat
    BY <1>3 DEF Inv, TextsAreOld
  <2>2. job.before[f] = 0 \/ text # job.before[f]
    BY <1>3, <2>1
  <2> QED
    BY <1>2, <1>3, <2>2 DEF Foreign, Inv, CopyIsFaithful, Copying
<1>7. SourceIsCurrent'
  BY <1>1, <1>2 DEF Foreign, Inv, SourceIsCurrent
<1>8. NothingIsLost'
  <2>1. late \ {f} \subseteq late'
    BY DEF Foreign, LateAfter
  <2> QED
    BY <1>1, <1>2, <1>3, <2>1 DEF Foreign, Inv, NothingIsLost
<1>9. LandingIsCopied'
  <2>1. SUFFICES ASSUME Landing PROVE LandingIsCopied'
    BY DEF Foreign, Landing, LandingIsCopied
  <2>2. late' = late \cup {f}
    BY <2>1 DEF Foreign, LateAfter
  <2> QED
    BY <1>1, <1>3, <2>1, <2>2 DEF Foreign, Inv, LandingIsCopied
<1> QED
  BY <1>4, <1>5, <1>6, <1>7, <1>8, <1>9 DEF Inv

LEMMA ForeignFolderInv == ASSUME Inv, TypeOK', ForeignFolder PROVE Inv'
<1>1. dst.by = "nobody" /\ dst'.by = "other"
  BY DEF ForeignFolder
<1>2. latest = src.files
  BY <1>1 DEF Inv, SourceIsCurrent
<1>3. TextsAreOld' /\ TabsFollowed' /\ CopyIsMine' /\ SourceIsHere' /\ SourceIsCurrent'
  BY <1>1, <1>2 DEF ForeignFolder, Inv, TextsAreOld, TabsFollowed, CopyIsMine, SourceIsHere, SourceIsCurrent,
                    Copying, Moving
<1>4. ~Copying
  BY <1>1 DEF Inv, CopyIsMine
<1>5. CopyIsFaithful' /\ CopyIsComplete' /\ LandingIsCopied' /\ NothingIsLost'
  BY <1>2, <1>4 DEF ForeignFolder, CopyIsFaithful, CopyIsComplete, LandingIsCopied, NothingIsLost, Copying, Landing
<1> QED
  BY <1>3, <1>5 DEF Inv

LEMMA AskInv == ASSUME Inv, TypeOK', Ask PROVE Inv'
<1> DEFINE s == Saved(World, "src")
<1>1. Typed(World)
  BY WorldTyped DEF Inv
<1>2. Wrote(World, s, "src")
  BY <1>1, SavedEffect
<1>3. src' = s.src /\ dst' = s.dst /\ tabs' = s.tabs /\ latest' = s.latest
  BY DEF Ask, Becomes
<1>4. World.src = src /\ World.dst = dst /\ World.tabs = tabs /\ World.latest = latest
  BY DEF World
<1> HIDE DEF s
<1>5. /\ src'.here = src.here /\ dst' = dst
      /\ \A f \in Files :
           \/ src'.files[f] = src.files[f] /\ latest'[f] = latest[f]
           \/ f \in Tabbed /\ src'.files[f] = tabs[f].text /\ latest'[f] = tabs[f].text
      /\ \A f \in Tabbed : tabs'[f].place = tabs[f].place /\ tabs'[f].text = tabs[f].text
  BY <1>2, <1>3, <1>4 DEF Wrote
<1>6. job'.phase = "asked" /\ job'.before = NoFiles /\ done = "none" /\ done' = "none" /\ dst.by = "nobody"
  BY DEF Ask, Idle, Inv, TypeOK, Outcomes
<1>7. TextsAreOld'
  BY <1>5, <1>6 DEF Ask, Inv, TextsAreOld, NoFiles, TypeOK
<1>8. TabsFollowed' /\ CopyIsMine' /\ SourceIsHere' /\ CopyIsFaithful' /\ CopyIsComplete' /\ LandingIsCopied'
  BY <1>5, <1>6 DEF Ask, Inv, TabsFollowed, CopyIsMine, SourceIsHere, CopyIsFaithful, CopyIsComplete,
                    LandingIsCopied, Copying, Moving, Landing
<1>9. latest' = src'.files
  <2>1. latest = src.files
    BY <1>6 DEF Inv, SourceIsCurrent
  <2>2. \A f \in Files : latest'[f] = src'.files[f]
    BY <1>5, <2>1
  <2>3. latest' \in [Files -> Nat] /\ src'.files \in [Files -> Nat]
    BY DEF TypeOK, Folder
  <2> QED
    BY <2>2, <2>3
<1>10. SourceIsCurrent' /\ NothingIsLost'
  BY <1>9 DEF SourceIsCurrent, NothingIsLost
<1> QED
  BY <1>7, <1>8, <1>10 DEF Inv

\* The worker ends without a copy: what it copied goes.
LEMMA EndsWithoutInv ==
  ASSUME Inv, TypeOK', job.phase \in {"started", "listing", "copying", "check", "verify"}, Removed,
         NEW outcome \in {"cancelled", "failed", "changed"}, Ends(outcome),
         UNCHANGED <<src, tabs, latest, texts>>
  PROVE  Inv'
<1>1. job'.phase = "ended" /\ job'.before = job.before /\ done' = outcome
  BY DEF Ends, Inv, TypeOK, Job
<1>2. done = "none"
  BY DEF Inv, TypeOK, Outcomes
<1>3. dst'.by # "move"
  BY <1>2, WithoutBy DEF Removed, Inv, CopyIsMine, Copying, Moving
<1>4. TextsAreOld' /\ TabsFollowed' /\ SourceIsHere' /\ SourceIsCurrent'
  BY <1>1 DEF Inv, TextsAreOld, TabsFollowed, SourceIsHere, SourceIsCurrent
<1>5. ~Copying'
  BY <1>1 DEF Copying
<1>6. CopyIsMine' /\ CopyIsFaithful' /\ CopyIsComplete' /\ LandingIsCopied'
  BY <1>1, <1>3, <1>5 DEF CopyIsMine, CopyIsFaithful, CopyIsComplete, LandingIsCopied, Landing
<1>7. NothingIsLost'
  BY DEF Inv, SourceIsCurrent, NothingIsLost
<1> QED
  BY <1>4, <1>6, <1>7 DEF Inv

LEMMA WorkerInv == ASSUME Inv, TypeOK', Worker PROVE Inv'
<1>0. UNCHANGED <<src, tabs, latest, texts>> /\ latest = src.files /\ done = "none"
  <2>1. job.phase \in {"started", "listing", "copying", "check", "verify"}
    BY DEF Worker, Snapshots, Lists, Copies, CopyFails, CopyIsCancelled, CopyIsWhole, CopyIsWanted, Verifies
  <2> QED
    BY <2>1 DEF Worker, Snapshots, Lists, Copies, CopyFails, CopyIsCancelled, CopyIsWhole, CopyIsWanted, Verifies,
                Inv, SourceIsCurrent, TypeOK, Outcomes
<1>1. NothingIsLost' /\ SourceIsCurrent' /\ LandingIsCopied'
  <2>1. ~Landing'
    BY DEF Worker, Snapshots, Lists, Copies, CopyFails, CopyIsCancelled, CopyIsWhole, CopyIsWanted, Verifies, Ends,
           Landing, Inv, TypeOK, Job
  <2> QED
    BY <1>0, <2>1 DEF NothingIsLost, SourceIsCurrent, LandingIsCopied
<1>2. CASE Snapshots
  <2>1. CASE Ends("failed")
    <3>1. Removed
      BY <1>2 DEF Snapshots, Removed
    <3> QED
      BY <1>0, <1>2, <2>1, <3>1, EndsWithoutInv DEF Snapshots
  <2>2. CASE dst.by = "nobody" /\ job' = [job EXCEPT !.phase = "listing", !.before = src.files] /\ UNCHANGED done
    <3>1. job'.phase = "listing" /\ job'.before = src.files
      BY <2>2 DEF Inv, TypeOK, Job
    <3>2. dst' = dst
      BY <1>2 DEF Snapshots
    <3>3. TextsAreOld' /\ TabsFollowed' /\ SourceIsHere' /\ CopyIsMine'
      BY <1>0, <1>2, <2>2, <3>1, <3>2
         DEF Snapshots, Inv, TextsAreOld, TabsFollowed, SourceIsHere, CopyIsMine, Copying, Moving
    <3>4. CopyIsFaithful' /\ CopyIsComplete'
      BY <1>0, <2>2, <3>1 DEF CopyIsFaithful, CopyIsComplete, Copying
    <3> QED
      BY <1>1, <3>3, <3>4 DEF Inv
  <2> QED
    BY <1>2, <2>1, <2>2 DEF Snapshots
<1>3. CASE Lists
  <2>1. CASE ~job.cancel /\ src.here /\ dst.by = "nobody"
    <3>1. job'.phase = "copying" /\ job'.before = job.before
      BY <1>3, <2>1 DEF Lists, Inv, TypeOK, Job
    <3>2. dst'.by = "move" /\ (\A f \in Files : dst'.files[f] = 0) /\ done' = "none"
      BY <1>0, <1>3, <2>1 DEF Lists, NoFiles
    <3>3. TextsAreOld' /\ TabsFollowed' /\ SourceIsHere' /\ CopyIsMine'
      BY <1>0, <1>3, <2>1, <3>1, <3>2
         DEF Inv, TextsAreOld, TabsFollowed, SourceIsHere, CopyIsMine, Copying, Moving
    <3>4. CopyIsFaithful' /\ CopyIsComplete'
      BY <3>2 DEF CopyIsFaithful, CopyIsComplete
    <3> QED
      BY <1>1, <3>3, <3>4 DEF Inv
  <2>2. CASE ~(~job.cancel /\ src.here /\ dst.by = "nobody")
    <3>1. Removed /\ (Ends("cancelled") \/ Ends("failed")) /\ job.phase = "listing"
      BY <1>3, <2>2 DEF Lists
    <3> QED
      BY <1>0, <3>1, EndsWithoutInv
  <2> QED
    BY <2>1, <2>2
<1>4. ASSUME NEW f \in Files, Copies(f)
      PROVE  Inv'
  <2>1. job'.phase = "copying" /\ job'.before = job.before /\ done' = "none" /\ job.phase = "copying"
    BY <1>0, <1>4 DEF Copies, Inv, TypeOK, Job
  <2>2. dst'.by = dst.by /\ dst'.files = [dst.files EXCEPT ![f] = src.files[f]]
    BY <1>4 DEF Copies, Inv, TypeOK, Copy
  <2>3. TextsAreOld' /\ TabsFollowed' /\ SourceIsHere' /\ CopyIsMine' /\ CopyIsComplete'
    BY <1>0, <1>4, <2>1, <2>2
       DEF Inv, TextsAreOld, TabsFollowed, SourceIsHere, CopyIsMine, CopyIsComplete, Copying, Moving
  <2>4. CopyIsFaithful'
    <3>1. dst.files \in [Files -> Nat]
      BY DEF Inv, TypeOK, Copy
    <3> QED
      BY <1>0, <2>1, <2>2, <3>1 DEF Inv, CopyIsFaithful, Copying
  <2> QED
    BY <1>1, <2>3, <2>4 DEF Inv
<1>5. CASE CopyFails
  BY <1>0, <1>5, EndsWithoutInv DEF CopyFails
<1>6. CASE CopyIsCancelled
  BY <1>0, <1>6, EndsWithoutInv DEF CopyIsCancelled
<1>7. CASE CopyIsWhole
  <2>1. job'.phase = "check" /\ job'.before = job.before /\ done' = "none" /\ job.phase = "copying" /\ dst' = dst
    BY <1>0, <1>7 DEF CopyIsWhole, Inv, TypeOK, Job
  <2>2. TextsAreOld' /\ TabsFollowed' /\ SourceIsHere' /\ CopyIsMine'
    BY <1>0, <2>1 DEF Inv, TextsAreOld, TabsFollowed, SourceIsHere, CopyIsMine, Copying, Moving
  <2>3. CopyIsFaithful' /\ CopyIsComplete'
    BY <1>0, <2>1 DEF Inv, CopyIsFaithful, CopyIsComplete, Copying
  <2> QED
    BY <1>1, <2>2, <2>3 DEF Inv
<1>8. CASE Verifies
  <2>1. CASE Verified(job.before)
    <3>1. job'.phase = "ended" /\ job'.before = job.before /\ done' = "copied" /\ dst' = dst /\ job.phase = "verify"
      BY <1>8, <2>1 DEF Verifies, Ends, Inv, TypeOK, Job
    <3>2. TextsAreOld' /\ TabsFollowed' /\ SourceIsHere' /\ CopyIsMine'
      BY <1>0, <3>1 DEF Inv, TextsAreOld, TabsFollowed, SourceIsHere, CopyIsMine, Copying, Moving
    <3>3. CopyIsFaithful'
      BY <1>0, <3>1 DEF Inv, CopyIsFaithful, Copying
    <3>4. CopyIsComplete'
      BY <2>1, <3>1 DEF CopyIsComplete, Verified
    <3> QED
      BY <1>1, <3>2, <3>3, <3>4 DEF Inv
  <2>2. CASE ~Verified(job.before)
    <3>1. Removed /\ (Ends("changed") \/ Ends("failed")) /\ job.phase = "verify"
      BY <1>8, <2>2 DEF Verifies
    <3> QED
      BY <1>0, <3>1, EndsWithoutInv
  <2> QED
    BY <2>1, <2>2
<1>9. CASE CopyIsWanted
  <2>1. job'.phase = "verify" /\ job'.before = job.before /\ done' = "none" /\ job.phase = "check" /\ dst' = dst
    BY <1>0, <1>9 DEF CopyIsWanted, Inv, TypeOK, Job
  <2>2. TextsAreOld' /\ TabsFollowed' /\ SourceIsHere' /\ CopyIsMine'
    BY <1>0, <2>1 DEF Inv, TextsAreOld, TabsFollowed, SourceIsHere, CopyIsMine, Copying, Moving
  <2>3. CopyIsFaithful' /\ CopyIsComplete'
    BY <1>0, <2>1 DEF Inv, CopyIsFaithful, CopyIsComplete, Copying
  <2> QED
    BY <1>1, <2>2, <2>3 DEF Inv
<1> QED
  BY <1>2, <1>3, <1>4, <1>5, <1>6, <1>7, <1>8, <1>9 DEF Worker

LEMMA JoinedInv == ASSUME Inv, TypeOK', Joined PROVE Inv'
<1>1. job'.phase = "idle" /\ job'.before = NoFiles /\ done' = "none" /\ job.phase = "ended"
  BY DEF Joined, Idle
<1>2. latest = src.files /\ src.here
  BY <1>1 DEF Inv, SourceIsCurrent, SourceIsHere
<1>3. TextsAreOld'
  BY <1>1 DEF Joined, Inv, TypeOK, TextsAreOld, NoFiles
<1>4. TabsFollowed' /\ CopyIsMine' /\ SourceIsHere' /\ SourceIsCurrent'
  BY <1>1, <1>2 DEF Joined, Inv, TabsFollowed, CopyIsMine, SourceIsHere, SourceIsCurrent, Copying, Moving
<1>5. CopyIsFaithful' /\ CopyIsComplete' /\ LandingIsCopied' /\ NothingIsLost'
  BY <1>1, <1>2 DEF Joined, CopyIsFaithful, CopyIsComplete, LandingIsCopied, NothingIsLost, Copying, Landing
<1> QED
  BY <1>3, <1>4, <1>5 DEF Inv

-----------------------------------------------------------------------------
(* The outcome reaches the window.                                         *)

\* No text is lost in w, none is from after now, and no tab is without one.
Sound(w) ==
  /\ \A f \in Files \ w.late : w.latest[f] # 0 => w.latest[f] \in {w.src.files[f], w.dst.files[f]}
  /\ \A f \in Files : w.src.files[f] <= texts
  /\ \A f \in Tabbed : w.tabs[f].text <= texts /\ w.tabs[f].text # 0

LEMMA SavedSound ==
  ASSUME NEW w, Typed(w), NEW place \in {"src", "dst"}, Sound(w)
  PROVE  Sound(Saved(w, place))
<1> DEFINE s == Saved(w, place)
<1>1. Wrote(w, s, place)
  BY SavedEffect
<1> HIDE DEF s
<1>2. Sound(s)
  <2>1. ASSUME NEW f \in Files
        PROVE  /\ f \notin s.late /\ s.latest[f] # 0 => s.latest[f] \in {s.src.files[f], s.dst.files[f]}
               /\ s.src.files[f] <= texts
    BY <1>1 DEF Wrote, Sound
  <2>2. \A f \in Tabbed : s.tabs[f].text <= texts /\ s.tabs[f].text # 0
    BY <1>1 DEF Wrote, Sound
  <2> QED
    BY <2>1, <2>2 DEF Sound
<1> QED
  BY <1>2 DEF s

\* What the window knows when it looks at an outcome.
LEMMA Outcome ==
  ASSUME Inv, done # "none"
  PROVE  /\ Moving
         /\ job.phase = "ended"
         /\ src.here
         /\ latest = src.files
         /\ \A f \in Tabbed : tabs[f].place = "src"
         /\ done # "copied" => dst.by # "move"
         /\ done = "copied" => dst.by = "move"
<1>1. job.phase = "ended"
  BY DEF Inv, TypeOK
<1>2. \A f \in Tabbed : tabs[f].place = "src"
  BY <1>1 DEF Inv, TabsFollowed, TypeOK, Tab
<1> QED
  BY <1>1, <1>2 DEF Inv, SourceIsHere, SourceIsCurrent, CopyIsMine, Copying, Moving

\* What it knows while the original is recycled.
LEMMA OnLanding ==
  ASSUME Inv, Landing
  PROVE  /\ dst.by = "move"
         /\ latest = src.files
         /\ \A f \in Tabbed : tabs[f].place = "src"
         /\ \A f \in Files : job.before[f] # 0 => dst.files[f] = job.before[f]
         /\ \A f \in Files \ late : latest[f] = job.before[f]
<1>1. job.phase = "landing"
  BY DEF Landing
<1>2. \A f \in Tabbed : tabs[f].place = "src"
  BY <1>1 DEF Inv, TabsFollowed, TypeOK, Tab
<1> QED
  BY <1>1, <1>2 DEF Inv, SourceIsCurrent, CopyIsMine, Copying, LandingIsCopied

\* The original goes only when the copy has the last text of every file that
\* was not written late.
LEMMA LandingIsSound ==
  ASSUME Inv, Landing
  PROVE  /\ Sound(RecycledAll)
         /\ \A gone \in SUBSET Files : Sound(RecycledSome(gone))
<1>1. src \in Folder /\ texts \in Nat /\ dst \in Copy /\ tabs \in [Tabbed -> Tab]
  BY DEF Inv, TypeOK
<1>2. latest = src.files
  BY OnLanding
<1>3. \A f \in Files \ late : latest[f] # 0 => dst.files[f] = latest[f]
  BY OnLanding
<1>4. \A f \in Files : src.files[f] <= texts
  BY DEF Inv, TextsAreOld
<1>5. \A f \in Tabbed : tabs[f].text <= texts /\ tabs[f].text # 0
  BY DEF Inv, TextsAreOld
<1>6. Sound(RecycledAll)
  <2>1. /\ RecycledAll.src = Gone
        /\ RecycledAll.dst = dst
        /\ RecycledAll.tabs = Follow(tabs, Files)
        /\ RecycledAll.latest = latest
        /\ RecycledAll.late = late
    BY DEF RecycledAll, World
  <2>2. \A f \in Files : RecycledAll.src.files[f] = 0
    <3>1. \A f \in Files : Gone.files[f] = 0
      BY DEF Gone, NoFiles
    <3> QED
      BY <2>1, <3>1
  <2>3. \A f \in Tabbed : RecycledAll.tabs[f].text = tabs[f].text
    BY <1>1, <2>1, FollowType
  <2> QED
    BY <1>1, <1>3, <1>5, <2>1, <2>2, <2>3 DEF Sound
<1>7. ASSUME NEW gone \in SUBSET Files
      PROVE  Sound(RecycledSome(gone))
  <2> DEFINE left == [f \in Files |-> IF f \in gone THEN 0 ELSE src.files[f]]
             copied == {f \in Files : left[f] = 0 /\ dst.files[f] # 0}
             w == RecycledSome(gone)
  <2>1. /\ w.src = [src EXCEPT !.files = left]
        /\ w.dst = dst
        /\ w.tabs = Follow(tabs, copied)
        /\ w.latest = latest
        /\ w.late = late \cap gone
    BY DEF RecycledSome, World
  <2>2. \A f \in Files : f \notin gone => left[f] = src.files[f]
    OBVIOUS
  <2>3. ASSUME NEW f \in Files
        PROVE  left[f] <= texts
    <3>1. left[f] = 0 \/ left[f] = src.files[f]
      OBVIOUS
    <3> HIDE DEF left
    <3> QED
      BY <1>1, <1>4, <3>1
  <2> HIDE DEF w, left, copied
  <2>4. \A f \in Tabbed : w.tabs[f].text = tabs[f].text
    BY <1>1, <2>1, FollowType
  <2>5. w.src.files = left
    BY <1>1, <2>1 DEF Folder
  <2>6. \A f \in Files \ w.late : w.latest[f] # 0 => w.latest[f] \in {w.src.files[f], w.dst.files[f]}
    BY <1>2, <1>3, <2>1, <2>2, <2>5
  <2>7. Sound(w)
    BY <1>5, <2>3, <2>4, <2>5, <2>6 DEF Sound
  <2> QED
    BY <2>7 DEF w
<1> QED
  BY <1>6, <1>7

\* What the end of a landing leaves in s.
Landed(s) ==
  /\ s.dst.by = "move"
  /\ Sound(s)
  /\ \A f \in Files : job.before[f] # 0 => s.dst.files[f] # 0
  /\ \A f \in Tabbed : s.tabs[f].place = "src" => s.src.files[f] # 0 \/ s.dst.files[f] = 0
  /\ \A f \in Tabbed : ~Savable(s.src, s.dst, s.tabs, f)

\* A save into the copy keeps every file of the move there.
LEMMA CopyKept ==
  ASSUME NEW w, NEW s, Wrote(w, s, "dst"), Sound(w),
         \A f \in Files : job.before[f] # 0 => w.dst.files[f] # 0
  PROVE  \A f \in Files : job.before[f] # 0 => s.dst.files[f] # 0
BY DEF Wrote, Sound

LEMMA LandsAll ==
  ASSUME Inv, Landing
  PROVE  Landed(Saved(RecycledAll, "dst"))
<1> DEFINE w == RecycledAll
           s == Saved(w, "dst")
<1>1. w.dst = dst /\ w.tabs = Follow(tabs, Files)
  BY DEF RecycledAll, World
<1>2. Typed(w) /\ Sound(w)
  BY RecycledType, LandingIsSound DEF Inv
<1>3. \A f \in Tabbed : w.tabs[f].place = "dst"
  <2>1. tabs \in [Tabbed -> Tab]
    BY DEF Inv, TypeOK
  <2> QED
    BY <1>1, <2>1, FollowType, FolderMoveAssumption
<1>4. \A f \in Files : job.before[f] # 0 => w.dst.files[f] # 0
  BY <1>1, OnLanding
<1>5. dst.by = "move"
  BY OnLanding
<1> HIDE DEF w
<1>6. Sound(s) /\ Wrote(w, s, "dst")
  BY <1>2, SavedSound, SavedEffect
<1>7. \A f \in Tabbed : w.tabs[f].place = "dst" => ~Savable(s.src, s.dst, s.tabs, f)
  BY <1>2, SavedEffect
<1> HIDE DEF s
<1>8. \A f \in Files : job.before[f] # 0 => s.dst.files[f] # 0
  BY <1>2, <1>4, <1>6, CopyKept
<1>9. s.dst.by = "move" /\ \A f \in Tabbed : s.tabs[f].place = "dst"
  BY <1>1, <1>3, <1>5, <1>6 DEF Wrote
<1>10. Landed(s)
  BY <1>3, <1>6, <1>7, <1>8, <1>9 DEF Landed
<1> QED
  BY <1>10 DEF s, w

LEMMA LandsSome ==
  ASSUME Inv, Landing, NEW gone \in SUBSET Files
  PROVE  Landed(Saved(Saved(RecycledSome(gone), "src"), "dst"))
<1> DEFINE left == [f \in Files |-> IF f \in gone THEN 0 ELSE src.files[f]]
           copied == {f \in Files : left[f] = 0 /\ dst.files[f] # 0}
           w == RecycledSome(gone)
           v == Saved(w, "src")
           s == Saved(v, "dst")
<1>1. w.src = [src EXCEPT !.files = left] /\ w.dst = dst /\ w.tabs = Follow(tabs, copied)
  BY DEF RecycledSome, World
<1>2. Typed(w) /\ Sound(w)
  BY RecycledType, LandingIsSound DEF Inv
<1>3. dst.by = "move" /\ \A f \in Files : job.before[f] # 0 => dst.files[f] # 0
  BY OnLanding
<1>4. src \in Folder /\ tabs \in [Tabbed -> Tab]
  BY DEF Inv, TypeOK
<1> HIDE DEF w, left
<1>5. \A f \in Tabbed : w.tabs[f].place = "src" => left[f] # 0 \/ dst.files[f] = 0
  BY <1>1, <1>4, FollowType, FolderMoveAssumption
<1>6. w.src.files = left
  BY <1>1, <1>4 DEF Folder
<1> HIDE DEF copied
<1>7. /\ Typed(v) /\ Sound(v) /\ Wrote(w, v, "src")
      /\ \A f \in Tabbed : w.tabs[f].place = "src" => ~Savable(v.src, v.dst, v.tabs, f)
  BY <1>2, SavedTypes, SavedSound, SavedEffect
<1> HIDE DEF v
<1>8. v.dst = dst /\ \A f \in Tabbed : v.tabs[f].place = w.tabs[f].place
  BY <1>1, <1>7 DEF Wrote
<1>9. \A f \in Tabbed : v.tabs[f].place = "src" => v.src.files[f] # 0 \/ v.dst.files[f] = 0
  <2> SUFFICES ASSUME NEW f \in Tabbed, v.tabs[f].place = "src", dst.files[f] # 0
               PROVE  v.src.files[f] # 0
    BY <1>8
  <2>1. left[f] # 0 /\ f \in Files
    BY <1>5, <1>8, FolderMoveAssumption
  <2>2. v.src.files[f] = left[f] \/ v.src.files[f] = w.tabs[f].text
    BY <1>6, <1>7, <2>1 DEF Wrote
  <2> QED
    BY <1>2, <2>1, <2>2 DEF Sound
<1>10. /\ Sound(s) /\ Wrote(v, s, "dst")
       /\ \A f \in Tabbed : v.tabs[f].place = "dst" => ~Savable(s.src, s.dst, s.tabs, f)
       /\ \A f \in Tabbed : v.tabs[f].place # "dst" => s.tabs[f] = v.tabs[f]
  BY <1>7, SavedSound, SavedEffect
<1> HIDE DEF s
<1>11. \A f \in Files : job.before[f] # 0 => s.dst.files[f] # 0
  BY <1>3, <1>7, <1>8, <1>10, CopyKept
<1>12. /\ s.dst.by = "move" /\ s.src = v.src
       /\ \A f \in Tabbed : s.tabs[f].place = v.tabs[f].place
       /\ \A f \in Tabbed : v.tabs[f].place = "src" => s.dst.files[f] = v.dst.files[f]
  <2>1. s.dst.by = "move" /\ s.src = v.src /\ \A f \in Tabbed : s.tabs[f].place = v.tabs[f].place
    BY <1>3, <1>8, <1>10 DEF Wrote
  <2>2. ASSUME NEW f \in Tabbed, v.tabs[f].place = "src"
        PROVE  s.dst.files[f] = v.dst.files[f]
    BY <1>10, <2>2, FolderMoveAssumption DEF Wrote
  <2> QED
    BY <2>1, <2>2
<1>13. \A f \in Tabbed : s.tabs[f].place = "src" => s.src.files[f] # 0 \/ s.dst.files[f] = 0
  BY <1>9, <1>12
<1>14. ASSUME NEW f \in Tabbed
       PROVE  ~Savable(s.src, s.dst, s.tabs, f)
  <2>1. v.tabs[f].place \in {"src", "dst"}
    BY <1>7 DEF Typed, Tab
  <2>2. CASE v.tabs[f].place = "src"
    BY <1>7, <1>8, <1>10, <1>12, <2>2 DEF Savable, OnDisk
  <2> QED
    BY <1>10, <2>1, <2>2
<1>15. Landed(s)
  BY <1>10, <1>11, <1>12, <1>13, <1>14 DEF Landed
<1> QED
  BY <1>15 DEF s, v, w

\* What the end of a landing leaves.
LEMMA LandsEffect ==
  ASSUME Inv, Recycled
  PROVE  /\ dst'.by = "move"
         /\ NothingIsLost'
         /\ \A f \in Files : src'.files[f] <= texts
         /\ \A f \in Tabbed : tabs'[f].text <= texts /\ tabs'[f].text # 0
         /\ \A f \in Files : job.before[f] # 0 => dst'.files[f] # 0
         /\ \A f \in Tabbed : tabs'[f].place = "src" => src'.files[f] # 0 \/ dst'.files[f] = 0
         /\ \A f \in Tabbed : ~Savable(src', dst', tabs', f)
<1>1. PICK s : Landed(s) /\ Becomes(s)
  BY LandsAll, LandsSome DEF Recycled, Lands
<1>2. src' = s.src /\ dst' = s.dst /\ tabs' = s.tabs /\ latest' = s.latest /\ late' = s.late
  BY <1>1 DEF Becomes
<1>3. NothingIsLost'
  BY <1>1, <1>2 DEF Landed, Sound, NothingIsLost
<1> QED
  BY <1>1, <1>2, <1>3 DEF Landed, Sound

\* What an outcome that does not land leaves.
LEMMA StaysEffect ==
  ASSUME Inv, MoveDone, ~MayLand
  PROVE  /\ src'.here
         /\ dst' \in Leftovers
         /\ dst'.by # "move"
         /\ \A f \in Tabbed : tabs'[f].place = "src"
         /\ \A f \in Files : latest'[f] = src'.files[f]
         /\ \A f \in Files : src'.files[f] <= texts
         /\ \A f \in Tabbed : tabs'[f].text <= texts /\ tabs'[f].text # 0
         /\ \A f \in Tabbed : ~Savable(src', dst', tabs', f)
<1>1. PICK copy \in Leftovers : Becomes(Saved([World EXCEPT !.dst = copy], "src"))
  BY DEF MoveDone, Leftovers
<1> DEFINE w == [World EXCEPT !.dst = copy]
           s == Saved(w, "src")
<1>2. w.src = src /\ w.dst = copy /\ w.tabs = tabs /\ w.latest = latest /\ w.late = late
  BY DEF World
<1>3. done # "none"
  BY DEF MoveDone
<1>4. copy \in Copy /\ copy.by # "move"
  BY <1>3, WithoutType, WithoutBy, Outcome DEF Leftovers, Inv, TypeOK
<1>5. Typed(w)
  BY <1>2, <1>4 DEF Inv, TypeOK, Typed
<1>6. Sound(w)
  <2>1. latest = src.files
    BY <1>3, Outcome
  <2> QED
    BY <1>2, <2>1 DEF Inv, TextsAreOld, Sound
<1>7. src' = s.src /\ dst' = s.dst /\ tabs' = s.tabs /\ latest' = s.latest
  BY <1>1 DEF Becomes
<1> HIDE DEF w
<1>8. /\ Sound(s)
      /\ s.src.here = w.src.here
      /\ s.dst = w.dst
      /\ \A f \in Files : \/ s.src.files[f] = w.src.files[f] /\ s.latest[f] = w.latest[f]
                          \/ s.src.files[f] = s.latest[f]
      /\ \A f \in Tabbed : s.tabs[f].place = w.tabs[f].place
      /\ \A f \in Tabbed : w.tabs[f].place = "src" => ~Savable(s.src, s.dst, s.tabs, f)
  BY <1>5, <1>6, SavedSound, SavedEffect DEF Wrote
<1> HIDE DEF s
<1> QED
  BY <1>1, <1>2, <1>3, <1>4, <1>7, <1>8, Outcome DEF Sound

\* The window has compared the original with what the worker copied and checked.
LEMMA LandingStarts ==
  ASSUME Inv, MayLand
  PROVE  /\ \A f \in Files : job.before[f] # 0 => dst.files[f] = job.before[f]
         /\ latest = job.before
<1>1. done = "copied" /\ src.files = job.before
  BY DEF MayLand, Unchanged
<1>2. latest = src.files
  BY <1>1, Outcome
<1> QED
  BY <1>1, <1>2 DEF Inv, CopyIsFaithful, CopyIsComplete, Copying

LEMMA MoveDoneInv == ASSUME Inv, TypeOK', MoveDone PROVE Inv'
<1>1. done # "none" /\ done' = "none" /\ texts' = texts /\ texts \in Nat
  BY DEF MoveDone, Inv, TypeOK
<1>2. CASE MayLand
  <2>1. job' = [job EXCEPT !.phase = "landing"] /\ UNCHANGED <<src, dst, tabs, latest, late>>
    BY <1>2 DEF MoveDone
  <2>2. job'.phase = "landing" /\ job'.before = job.before
    BY <2>1 DEF Inv, TypeOK, Job
  <2>3. dst.by = "move" /\ src.here /\ latest = src.files /\ \A f \in Tabbed : tabs[f].place = "src"
    BY <1>1, <1>2, Outcome DEF MayLand
  <2>4. TextsAreOld'
    BY <1>1, <2>1, <2>2 DEF Inv, TextsAreOld
  <2>5. TabsFollowed' /\ SourceIsHere' /\ SourceIsCurrent' /\ CopyIsMine' /\ CopyIsComplete'
    BY <1>1, <2>1, <2>2, <2>3 DEF TabsFollowed, SourceIsHere, SourceIsCurrent, CopyIsMine, CopyIsComplete, Moving
  <2>6. CopyIsFaithful' /\ LandingIsCopied'
    BY <1>2, <2>1, <2>2, LandingStarts DEF CopyIsFaithful, LandingIsCopied
  <2>7. NothingIsLost'
    BY <2>1 DEF Inv, NothingIsLost
  <2> QED
    BY <2>4, <2>5, <2>6, <2>7 DEF Inv
<1>3. CASE ~MayLand
  <2>1. job' = Idle
    BY <1>3 DEF MoveDone
  <2>2. job'.phase = "idle" /\ \A f \in Files : job'.before[f] = 0
    BY <2>1 DEF Idle, NoFiles
  <2>3. CopyIsMine' /\ CopyIsFaithful' /\ CopyIsComplete' /\ LandingIsCopied'
    BY <1>1, <2>2 DEF CopyIsMine, CopyIsFaithful, CopyIsComplete, LandingIsCopied, Copying, Moving, Landing
  <2>4. TextsAreOld'
    BY <1>1, <1>3, <2>2, StaysEffect DEF TextsAreOld
  <2>5. TabsFollowed' /\ SourceIsHere' /\ NothingIsLost'
    BY <1>3, StaysEffect DEF TabsFollowed, SourceIsHere, NothingIsLost
  <2>6. SourceIsCurrent'
    <3>1. \A f \in Files : latest'[f] = src'.files[f]
      BY <1>3, StaysEffect
    <3>2. latest' \in [Files -> Nat] /\ src'.files \in [Files -> Nat]
      BY DEF TypeOK, Folder
    <3>3. latest' = src'.files
      BY <3>1, <3>2
    <3> QED
      BY <3>3 DEF SourceIsCurrent
  <2> QED
    BY <2>3, <2>4, <2>5, <2>6 DEF Inv
<1> QED
  BY <1>2, <1>3

LEMMA RecycledInv == ASSUME Inv, TypeOK', Recycled PROVE Inv'
<1>1. job' = Idle /\ done' = "none" /\ texts' = texts /\ texts \in Nat
  BY DEF Recycled, Landing, Inv, TypeOK
<1>2. job'.phase = "idle" /\ \A f \in Files : job'.before[f] = 0
  BY <1>1 DEF Idle, NoFiles
<1>3. CopyIsMine' /\ CopyIsFaithful' /\ CopyIsComplete' /\ LandingIsCopied'
  BY <1>1, <1>2 DEF CopyIsMine, CopyIsFaithful, CopyIsComplete, LandingIsCopied, Copying, Moving, Landing
<1>4. TextsAreOld'
  BY <1>1, <1>2, LandsEffect DEF TextsAreOld
<1>5. TabsFollowed' /\ SourceIsHere' /\ SourceIsCurrent' /\ NothingIsLost'
  BY <1>2, LandsEffect DEF TabsFollowed, SourceIsHere, SourceIsCurrent
<1> QED
  BY <1>3, <1>4, <1>5 DEF Inv

LEMMA NextInv == Inv /\ [Next]_vars => Inv'
<1> SUFFICES ASSUME Inv, [Next]_vars PROVE Inv'
  OBVIOUS
<1>1. TypeOK'
  BY NextType DEF Inv
<1>2. CASE UNCHANGED vars
  BY <1>1, <1>2, SameDisk DEF vars
<1> QED
  BY <1>1, <1>2, EditInv, SaveInv, ForeignInv, ForeignFolderInv, AskInv, WindowInv, WorkerInv, MoveDoneInv,
     RecycledInv, JoinedInv
     DEF Next

\* The inductive invariant: until a copy lands the original has every last text,
\* a copy is the worker's own and faithful to the snapshot, tabs follow only
\* what landed, and a landing copy has every text the window compared.
THEOREM MoveInvariant == Spec => []Inv
BY InitInv, NextInv, PTL DEF Spec

-----------------------------------------------------------------------------
(* What a step may never do.                                               *)

LEMMA OtherFolderStep ==
  ASSUME Inv, Next, dst.by \in {"left", "other"}
  PROVE  dst' = dst
<1>1. ~Copying /\ ~Landing /\ \A f \in Tabbed : tabs[f].place = "src"
  BY DEF Inv, CopyIsMine, TabsFollowed, TypeOK, Tab, Copying, Landing
<1>2. ASSUME NEW f \in Tabbed, Save(f)
      PROVE  dst' = dst
  BY <1>1, <1>2 DEF Save
<1>3. CASE Ask
  BY <1>3 DEF Ask
<1>4. CASE Worker
  <2>1. Removed => dst' = dst
    BY <1>1 DEF Removed, Copying
  <2> QED
    BY <1>1, <1>4, <2>1
       DEF Worker, Snapshots, Lists, Copies, CopyFails, CopyIsCancelled, CopyIsWhole, CopyIsWanted, Verifies, Copying
<1>5. CASE MoveDone
  <2>1. done # "copied" /\ ~MayLand
    BY <1>1 DEF Copying, MayLand
  <2> QED
    BY <1>5, <2>1, StaysEffect DEF Leftovers
<1>6. CASE Joined
  BY <1>1, <1>6 DEF Joined, CopyDropped, Copying
<1>7. CASE Recycled
  BY <1>1, <1>7 DEF Recycled
<1> QED
  BY <1>2, <1>3, <1>4, <1>5, <1>6, <1>7
     DEF Next, Edit, Foreign, ForeignFolder, Answer, Refuse, Cancel, CloseNotebook, AskToClose, KeepRunning,
         CancelAndClose, BackFromClose, Destroy

\* A move ends in the window only.
LEMMA EndingSteps == ASSUME Inv, Next, Ending PROVE (MoveDone /\ ~MayLand) \/ Recycled \/ Joined
<1>1. job.phase \notin {"idle", "asked"} /\ job'.phase = "idle" /\ job \in Job
  BY DEF Ending, Moving, Landing, Inv, TypeOK
<1>2. ~Worker
  BY <1>1
     DEF Worker, Snapshots, Lists, Copies, CopyFails, CopyIsCancelled, CopyIsWhole, CopyIsWanted, Verifies, Ends, Job
<1>3. ~Cancel /\ ~CloseNotebook /\ ~CancelAndClose /\ ~Destroy
  BY <1>1 DEF Cancel, CloseNotebook, CancelAndClose, Destroy, Job
<1>4. ~(MoveDone /\ MayLand)
  BY <1>1 DEF MoveDone, Job
<1> QED
  BY <1>1, <1>2, <1>3, <1>4
     DEF Next, Edit, Save, Foreign, ForeignFolder, Ask, Answer, Refuse, AskToClose, KeepRunning, BackFromClose

\* What the end of a move leaves, landed or not.
OneFolderStep ==
  IF Landing
  THEN /\ dst'.by = "move"
       /\ \A f \in Files : job.before[f] # 0 => dst'.files[f] # 0
       /\ \A f \in Tabbed : tabs'[f].place = "src" => src'.files[f] # 0 \/ dst'.files[f] = 0
  ELSE /\ dst'.by # "move"
       /\ src'.here
       /\ \A f \in Tabbed : tabs'[f].place = "src"

LEMMA EndingStep ==
  ASSUME Inv, Next, Ending
  PROVE  /\ OneFolderStep
         /\ Pumps => \A f \in Tabbed : ~Savable(src', dst', tabs', f)
<1>1. CASE MoveDone /\ ~MayLand
  <2>1. ~Landing
    BY <1>1, Outcome DEF MoveDone, Landing
  <2> QED
    BY <1>1, <2>1, StaysEffect DEF OneFolderStep
<1>2. CASE Recycled
  BY <1>2, LandsEffect DEF Recycled, OneFolderStep
<1>3. CASE Joined
  <2>1. ~Pumps /\ ~Landing /\ job.phase = "ended" /\ src' = src /\ tabs' = tabs
    BY <1>3 DEF Joined, Pumps, Landing
  <2>2. src.here /\ \A f \in Tabbed : tabs[f].place = "src"
    BY <2>1 DEF Inv, SourceIsHere, TabsFollowed, TypeOK, Tab
  <2>3. dst'.by # "move"
    BY <1>3, <2>1, WithoutBy DEF Joined, CopyDropped, Inv, CopyIsMine, Copying, Moving
  <2> QED
    BY <2>1, <2>2, <2>3 DEF OneFolderStep
<1> QED
  BY <1>1, <1>2, <1>3, EndingSteps

-----------------------------------------------------------------------------
(* The theorems.                                                           *)

\* land, recycle_path, move_done, stop and the worker's clean-up: the last text
\* of every file is in the original or in the copy, whoever writes, whatever is
\* cancelled, closed or only partly recycled; all but a text that went into the
\* original after the window had compared it, and with it to the Recycle Bin.
THEOREM NothingLost == Spec => []NothingIsLost
<1>1. Inv => NothingIsLost
  BY DEF Inv
<1> QED
  BY <1>1, MoveInvariant, PTL

\* run removes only what this job created: a folder somebody else made at the
\* destination, or what a move could not remove, is never written or removed.
THEOREM OtherFolder == Spec => OtherFolderKept
<1>1. Inv /\ [Next]_vars => [dst.by \in {"left", "other"} => dst' = dst]_vars
  BY OtherFolderStep DEF vars
<1> QED
  BY <1>1, MoveInvariant, PTL DEF Spec, OtherFolderKept

\* land, move_done and stop: a move that lands leaves all its files at the
\* destination and no tab on an original that went; any other leaves the
\* original with its tabs, and of the copy at most what could not be removed.
THEOREM OneFolder == Spec => OneFolderInTheEnd
<1>1. Inv /\ [Next]_vars => [Ending => OneFolderStep]_vars
  BY EndingStep
<1> QED
  BY <1>1, MoveInvariant, PTL DEF Spec, OneFolderInTheEnd, OneFolderStep

\* save_held: no edit that waited for the move is left unwritten by its end,
\* unless its file changed under it.
THEOREM HeldAreSaved == Spec => HeldEditsAreSaved
<1>1. Inv /\ [Next]_vars => [Ending /\ Pumps => \A f \in Tabbed : ~Savable(src', dst', tabs', f)]_vars
  BY EndingStep
<1> QED
  BY <1>1, MoveInvariant, PTL DEF Spec, HeldEditsAreSaved

=============================================================================
