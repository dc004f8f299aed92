----------------------------- MODULE ReplaceProofs -----------------------------
(***************************************************************************)
(* Theorems about Replace, for any notebooks, notes and bounds: its type   *)
(* invariant and every safety property its run checks.                     *)
(***************************************************************************)
EXTENDS Replace, TLAPS

-----------------------------------------------------------------------------
(* The inductive invariant.                                                *)

\* A replace that can still do something is the one the host names.
Live(r) == jobs[r].phase # "none" /\ ~jobs[r].cancel
OneIsLive ==
  /\ \A r \in Replaces : Live(r) => host.replacing /\ host.generation = r
  /\ host.replacing => host.generation \in Replaces /\ Live(host.generation) /\ host.window = "open"
  /\ \A r \in Replaces : jobs[r].phase # "none" /\ jobs[r].cancel => host.generation # r

\* The next replace has a number of its own.
NumbersAreOld ==
  /\ host.generation <= bounds.replaces
  /\ \A r \in Replaces : jobs[r].phase # "none" => r <= bounds.replaces

\* What is held is looked at again by the timer.
HoldingPhases == {"countHeld", "reportHeld"}
Holding(r) == jobs[r].phase \in HoldingPhases
TimerIsRight == HeldReloads # {} \/ (\E r \in Replaces : Holding(r)) => host.timer

\* The worker's notes are agreed, and in notebooks that are open or told to it
\* as closed; what is held of a cancelled replace is dropped with it.
JobIsSound(job, books) ==
  /\ job.phase \in HoldingPhases => ~job.cancel
  /\ job.hand # {} => job.phase = "writing"
  /\ job.phase = "writing" => job.agreed
  /\ job.phase = "writing" /\ ~job.cancel => \A f \in job.left : BookOf[f] \in books \cup job.closed
JobsAreSound == \A r \in Replaces : JobIsSound(jobs[r], open)

\* The control part: it depends on no text.
Control == OneIsLive /\ NumbersAreOld /\ TimerIsRight /\ JobsAreSound /\ NoteIsNeverCutOff

\* A tab against its file: the later text has the greater number.
TabIsAhead(tab, n, last, top) ==
  IF tab.open
  THEN /\ tab.known.n <= tab.text.n
       /\ tab.known.n <= n
       /\ last <= tab.text.n
       /\ tab.text.n <= top
       /\ ~tab.dirty => tab.text = tab.known
  ELSE ~tab.dirty /\ last = 0
TabsAreAhead ==
  \A f \in Notes : file[f].n <= bounds.texts /\ TabIsAhead(tabs[f], file[f].n, typed[f], bounds.texts)

\* What a reload read lies between what its tab knew and what the file has now.
ReloadIsBetween(l, n) ==
  /\ l.mark.open /\ ~l.mark.dirty /\ l.mark.text = l.mark.known
  /\ l.mark.known.n <= n
  /\ l.state # "reading" => l.mark.known.n <= l.text.n /\ l.text.n <= n
ReloadsAreBetween == \A l \in reloads : ReloadIsBetween(l, file[l.tab].n)

\* A note in the worker's hand is as the search read it.
HandIsFresh == \A r \in Replaces : \A f \in jobs[r].hand : file[f].n = jobs[r].plan[f].stamp.n

Inv == TypeOK /\ Control /\ TabsAreAhead /\ ReloadsAreBetween /\ HandIsFresh

-----------------------------------------------------------------------------
(* What becomes of the jobs.                                               *)

LEMMA NoJobFacts ==
  /\ NoJob \in Job
  /\ NoJob.phase = "none" /\ NoJob.hand = {} /\ ~NoJob.cancel
<1>1. [f \in Notes |-> NoHit] \in [Notes -> Hit]
  BY DEF NoHit, Hit, NoText, Text
<1> QED
  BY <1>1 DEF NoJob, Job, Phases

LEMMA NoJobIsSound == \A books : JobIsSound(NoJob, books)
BY NoJobFacts DEF JobIsSound, HoldingPhases

\* A job that only goes on to another phase, or that is cancelled.
LEMMA PhasedJob ==
  ASSUME NEW job \in Job, NEW phase \in Phases
  PROVE  LET next == [job EXCEPT !.phase = phase]
         IN  /\ next \in Job
             /\ next.phase = phase
             /\ next.cancel = job.cancel
             /\ next.left = job.left
             /\ next.hand = job.hand
             /\ next.plan = job.plan
             /\ next.closed = job.closed
             /\ next.agreed = job.agreed
BY DEF Job

LEMMA CancelledJob ==
  ASSUME NEW job \in Job
  PROVE  LET next == [job EXCEPT !.cancel = TRUE]
         IN  /\ next \in Job
             /\ next.cancel
             /\ next.phase = job.phase
             /\ next.hand = job.hand
             /\ next.plan = job.plan
             /\ next.agreed = job.agreed
BY DEF Job

LEMMA ToldJob ==
  ASSUME NEW job \in Job, NEW b \in Books
  PROVE  LET next == [job EXCEPT !.closed = job.closed \cup {b}]
         IN  /\ next \in Job
             /\ next.closed = job.closed \cup {b}
             /\ next.phase = job.phase
             /\ next.cancel = job.cancel
             /\ next.left = job.left
             /\ next.hand = job.hand
             /\ next.plan = job.plan
             /\ next.agreed = job.agreed
BY DEF Job

\* The handed notes of a job are those it had.
SameHands ==
  \A r \in Replaces : jobs'[r].hand = {} \/ (jobs'[r].hand = jobs[r].hand /\ jobs'[r].plan = jobs[r].plan)

LEMMA EndsEffect ==
  ASSUME TypeOK, NEW r \in Replaces, Ends(r)
  PROVE  /\ jobs' \in [Replaces -> Job]
         /\ jobs' = [jobs EXCEPT ![r] = NoJob]
         /\ SameHands
<1>1. jobs' \in [Replaces -> Job]
  BY NoJobFacts DEF Ends, TypeOK
<1>2. \A q \in Replaces : jobs'[q] = NoJob \/ jobs'[q] = jobs[q]
  BY DEF Ends, TypeOK
<1> QED
  BY <1>1, <1>2, NoJobFacts DEF Ends, SameHands

LEMMA ToPhaseEffect ==
  ASSUME TypeOK, NEW r \in Replaces, NEW phase \in Phases, ToPhase(r, phase)
  PROVE  /\ jobs' \in [Replaces -> Job]
         /\ jobs' = [jobs EXCEPT ![r] = [jobs[r] EXCEPT !.phase = phase]]
         /\ SameHands
<1>1. jobs' = [jobs EXCEPT ![r] = [jobs[r] EXCEPT !.phase = phase]]
  BY DEF ToPhase, TypeOK
<1>2. jobs[r] \in Job
  BY DEF TypeOK
<1>3. [jobs[r] EXCEPT !.phase = phase] \in Job
  BY <1>2, PhasedJob
<1>4. \A q \in Replaces : jobs'[q] = IF q = r THEN [jobs[r] EXCEPT !.phase = phase] ELSE jobs[q]
  BY <1>1 DEF TypeOK
<1>5. /\ [jobs[r] EXCEPT !.phase = phase].hand = jobs[r].hand
      /\ [jobs[r] EXCEPT !.phase = phase].plan = jobs[r].plan
  BY <1>2, PhasedJob
<1>6. SameHands
  BY <1>4, <1>5 DEF SameHands
<1> QED
  BY <1>1, <1>3, <1>6 DEF TypeOK

LEMMA CancelledEffect ==
  ASSUME TypeOK
  PROVE  /\ CancelledJobs \in [Replaces -> Job]
         /\ jobs' = CancelledJobs => SameHands
<1>1. ASSUME NEW q \in Replaces
      PROVE  /\ CancelledJobs[q] \in Job
             /\ \/ CancelledJobs[q].hand = {}
                \/ CancelledJobs[q].hand = jobs[q].hand /\ CancelledJobs[q].plan = jobs[q].plan
  <2>1. jobs[q] \in Job
    BY DEF TypeOK
  <2>2. CancelledJobs[q] \in {jobs[q], NoJob, [jobs[q] EXCEPT !.cancel = TRUE]}
    BY DEF CancelledJobs
  <2> QED
    BY <2>1, <2>2, NoJobFacts, CancelledJob
<1>2. CancelledJobs \in [Replaces -> Job]
  <2>1. DOMAIN CancelledJobs = Replaces /\ CancelledJobs = [q \in Replaces |-> CancelledJobs[q]]
    BY DEF CancelledJobs
  <2> QED
    BY <1>1, <2>1
<1> QED
  BY <1>1, <1>2 DEF SameHands

LEMMA ClosedEffect ==
  ASSUME TypeOK, NEW b \in Books
  PROVE  /\ Closed(b) \in [Replaces -> Job]
         /\ jobs' = Closed(b) => SameHands
<1>1. ASSUME NEW q \in Replaces
      PROVE  /\ Closed(b)[q] \in Job
             /\ Closed(b)[q].hand = jobs[q].hand /\ Closed(b)[q].plan = jobs[q].plan
  <2>1. jobs[q] \in Job
    BY DEF TypeOK
  <2>2. Closed(b)[q] \in {jobs[q], [jobs[q] EXCEPT !.closed = jobs[q].closed \cup {b}]}
    BY <2>1 DEF Closed, Job
  <2>3. CASE Closed(b)[q] = jobs[q]
    BY <2>1, <2>3
  <2>4. CASE Closed(b)[q] = [jobs[q] EXCEPT !.closed = jobs[q].closed \cup {b}]
    BY <2>1, <2>4, ToldJob
  <2> QED
    BY <2>2, <2>3, <2>4
<1>2. Closed(b) \in [Replaces -> Job]
  <2>1. Closed(b) = [q \in Replaces |-> Closed(b)[q]]
    BY DEF Closed
  <2> QED
    BY <1>1, <2>1
<1> QED
  BY <1>1, <1>2 DEF SameHands

-----------------------------------------------------------------------------
(* What becomes of the control part.                                       *)

SameBounds == bounds'.replaces = bounds.replaces

\* Nothing of it changes.
LEMMA ControlKept ==
  ASSUME Control, UNCHANGED <<open, host, jobs>>, SameBounds, HeldReloads' \subseteq HeldReloads
  PROVE  Control'
BY DEF Control, OneIsLive, Live, NumbersAreOld, TimerIsRight, Holding, JobsAreSound, NoteIsNeverCutOff,
       SameBounds, JobIsSound

\* A job ends, and its replace with it.
LEMMA JobEnds ==
  ASSUME TypeOK, Control, NEW r \in Replaces, Ends(r), UNCHANGED open, SameBounds, TimerIsRight',
         host'.window = host.window,
         host'.generation = host.generation,
         host'.replacing <=> host.replacing /\ host.generation # r
  PROVE  Control'
<1>1. \A q \in Replaces : jobs'[q] = IF q = r THEN NoJob ELSE jobs[q]
  BY EndsEffect DEF TypeOK
<1>2. OneIsLive'
  BY <1>1, NoJobFacts DEF Control, OneIsLive, Live
<1>3. NumbersAreOld'
  BY <1>1, NoJobFacts DEF Control, NumbersAreOld, SameBounds
<1>4. JobsAreSound'
  BY <1>1, NoJobIsSound DEF Control, JobsAreSound
<1>5. NoteIsNeverCutOff'
  BY <1>1, NoJobFacts DEF Control, NoteIsNeverCutOff
<1> QED
  BY <1>2, <1>3, <1>4, <1>5 DEF Control

\* A job goes on.
LEMMA JobGoesOn ==
  ASSUME TypeOK, Control, NEW r \in Replaces, NEW job, jobs' = [jobs EXCEPT ![r] = job],
         jobs[r].phase # "none", job.phase # "none", job.cancel = jobs[r].cancel,
         JobIsSound(job, open), Live(r) \/ job.hand \subseteq jobs[r].hand,
         UNCHANGED open, SameBounds, TimerIsRight',
         host'.window = host.window,
         host'.generation = host.generation,
         host'.replacing = host.replacing
  PROVE  Control'
<1>1. \A q \in Replaces : jobs'[q] = IF q = r THEN job ELSE jobs[q]
  BY DEF TypeOK
<1>2. OneIsLive'
  BY <1>1 DEF Control, OneIsLive, Live
<1>3. NumbersAreOld'
  BY <1>1 DEF Control, NumbersAreOld, SameBounds
<1>4. JobsAreSound'
  BY <1>1 DEF Control, JobsAreSound
<1>5. NoteIsNeverCutOff'
  BY <1>1 DEF Control, NoteIsNeverCutOff, OneIsLive
<1> QED
  BY <1>2, <1>3, <1>4, <1>5 DEF Control

\* The replace in hand is cancelled: none is left that can do anything.
LEMMA CancelControl ==
  ASSUME TypeOK, Control, jobs' = CancelledJobs, SameBounds, UNCHANGED reloads,
         host'.generation = 0, ~host'.replacing, host'.timer <=> TimerLeft,
         host'.window = "gone" => host.window = "gone"
  PROVE  Control'
<1>1. ASSUME NEW q \in Replaces
      PROVE  /\ ~Live(q)'
             /\ jobs'[q].phase # "none" => jobs[q].phase # "none"
             /\ ~Holding(q)'
             /\ JobIsSound(jobs'[q], open')
             /\ jobs'[q].hand # {} => jobs[q].hand # {}
  <2>1. jobs[q] \in Job /\ JobIsSound(jobs[q], open)
    BY DEF TypeOK, Control, JobsAreSound
  <2>2. CASE q # host.generation \/ ~host.replacing
    <3>1. jobs'[q] = jobs[q]
      BY <2>2 DEF CancelledJobs
    <3>2. ~Live(q)
      BY <2>2 DEF Control, OneIsLive
    <3> QED
      BY <2>1, <3>1, <3>2 DEF Live, Holding, JobIsSound, HoldingPhases
  <2>3. CASE q = host.generation /\ host.replacing /\ Holding(q)
    <3>1. jobs'[q] = NoJob
      BY <2>3 DEF CancelledJobs, Holding, HoldingPhases
    <3> QED
      BY <3>1, NoJobFacts, NoJobIsSound DEF Live, Holding, HoldingPhases
  <2>4. CASE q = host.generation /\ host.replacing /\ ~Holding(q)
    <3>1. jobs'[q] = [jobs[q] EXCEPT !.cancel = TRUE]
      BY <2>4 DEF CancelledJobs, Holding, HoldingPhases
    <3>2. /\ jobs'[q].cancel
          /\ jobs'[q].phase = jobs[q].phase
          /\ jobs'[q].hand = jobs[q].hand
          /\ jobs'[q].agreed = jobs[q].agreed
      BY <2>1, <3>1, CancelledJob
    <3> QED
      BY <2>1, <2>4, <3>2 DEF Live, Holding, JobIsSound, HoldingPhases
  <2> QED
    BY <2>2, <2>3, <2>4
<1>2. OneIsLive'
  BY <1>1 DEF OneIsLive, Replaces
<1>3. NumbersAreOld'
  BY <1>1 DEF Control, NumbersAreOld, SameBounds, TypeOK
<1>4. TimerIsRight'
  BY <1>1 DEF Control, TimerIsRight, TimerLeft, HeldReloads
<1>5. NoteIsNeverCutOff'
  BY <1>1 DEF Control, NoteIsNeverCutOff
<1> QED
  BY <1>1, <1>2, <1>3, <1>4, <1>5 DEF Control, JobsAreSound

-----------------------------------------------------------------------------
(* Types.                                                                  *)

LEMMA TabTypes ==
  /\ NoTab \in Tab
  /\ \A tab \in Tab : ReplacedIn(tab) \in Tab
  /\ \A text \in Text : [open |-> TRUE, text |-> text, known |-> text, dirty |-> FALSE] \in Tab
  /\ \A tab \in Tab, text \in Text :
       /\ [tab EXCEPT !.text = text, !.dirty = TRUE] \in Tab
       /\ [tab EXCEPT !.text = text, !.known = text] \in Tab
       /\ [tab EXCEPT !.known = text, !.dirty = FALSE] \in Tab
BY DEF NoTab, NoText, Tab, Text, ReplacedIn

LEMMA InitType == Init => TypeOK
<1> SUFFICES ASSUME Init PROVE TypeOK
  OBVIOUS
<1>1. file \in [Notes -> Text] /\ results \in [Notes -> Hit]
  BY DEF Init, NoHit, NoText, Hit, Text
<1>2. tabs \in [Notes -> Tab]
  BY TabTypes DEF Init
<1>3. host \in Host
  BY ReplaceAssumption DEF Init, Host
<1>4. jobs \in [Replaces -> Job]
  BY NoJobFacts DEF Init
<1>5. bounds \in [texts : Nat, replaces : Nat, modals : Nat]
  BY ReplaceAssumption DEF Init
<1> QED
  BY <1>1, <1>2, <1>3, <1>4, <1>5 DEF Init, TypeOK

LEMMA NewTextType ==
  ASSUME TypeOK, NEW t, NewText(t), t.n = bounds.texts + 1
  PROVE  /\ bounds' \in [texts : Nat, replaces : Nat, modals : Nat]
         /\ bounds'.texts = bounds.texts + 1
         /\ bounds'.replaces = bounds.replaces
         /\ t.n \in Nat
BY DEF NewText, TypeOK

\* A text number: what Type and Foreign write.
NewNumber == bounds.texts + 1

\* Tabs and files are edited, saved and read.
Editing(f) == OpenTab(f) \/ CloseTab(f) \/ Type(f) \/ Save(f) \/ CheckTab(f)

LEMMA TypeEffect ==
  ASSUME TypeOK, NEW f \in Notes, Type(f)
  PROVE  LET t == [n |-> NewNumber, hit |-> TRUE]
         IN  /\ t \in Text
             /\ bounds' \in [texts : Nat, replaces : Nat, modals : Nat]
             /\ bounds'.texts = NewNumber
             /\ bounds'.replaces = bounds.replaces
             /\ tabs' = [tabs EXCEPT ![f] = [tabs[f] EXCEPT !.text = t, !.dirty = TRUE]]
             /\ typed' = [typed EXCEPT ![f] = NewNumber]
<1>1. NewNumber \in Nat
  BY DEF NewNumber, TypeOK
<1>2. bounds' = [bounds EXCEPT !.texts = NewNumber]
  BY DEF Type, NewText, NewNumber, TypeOK
<1>3. tabs' = [tabs EXCEPT ![f] = [tabs[f] EXCEPT !.text = [n |-> NewNumber, hit |-> TRUE], !.dirty = TRUE]]
  BY DEF Type, NewNumber, TypeOK
<1> QED
  BY <1>1, <1>2, <1>3 DEF Type, NewNumber, Text, TypeOK

LEMMA ForeignEffect ==
  ASSUME TypeOK, NEW f \in Notes, Foreign(f)
  PROVE  \E t \in Text :
           /\ t.n = NewNumber
           /\ bounds' \in [texts : Nat, replaces : Nat, modals : Nat]
           /\ bounds'.texts = NewNumber
           /\ bounds'.replaces = bounds.replaces
           /\ file' = [file EXCEPT ![f] = t]
<1>1. NewNumber \in Nat
  BY DEF NewNumber, TypeOK
<1>2. PICK hit \in BOOLEAN :
        /\ bounds' = [bounds EXCEPT !.texts = NewNumber]
        /\ file' = [file EXCEPT ![f] = [n |-> NewNumber, hit |-> hit]]
  BY DEF Foreign, NewText, NewNumber, TypeOK
<1>3. [n |-> NewNumber, hit |-> hit] \in Text
  BY <1>1 DEF Text
<1> QED
  BY <1>1, <1>2, <1>3 DEF TypeOK

LEMMA EditingType ==
  ASSUME TypeOK, NEW f \in Notes, Editing(f)
  PROVE  TypeOK'
<1>1. tabs[f] \in Tab /\ file[f] \in Text /\ tabs[f].text \in Text
  BY DEF TypeOK, Tab
<1>2. CASE OpenTab(f)
  <2>1. tabs' \in [Notes -> Tab]
    BY <1>1, <1>2, TabTypes DEF OpenTab, TypeOK
  <2> QED
    BY <1>2, <2>1 DEF OpenTab, TypeOK
<1>3. CASE CloseTab(f)
  <2>1. tabs' \in [Notes -> Tab] /\ typed' \in [Notes -> Nat] /\ reloads' \subseteq Reload
    BY <1>3, TabTypes DEF CloseTab, TypeOK
  <2> QED
    BY <1>3, <2>1 DEF CloseTab, TypeOK
<1>4. CASE Type(f)
  <2>1. tabs' \in [Notes -> Tab]
    <3> DEFINE t == [n |-> NewNumber, hit |-> TRUE]
    <3>1. t \in Text /\ tabs' = [tabs EXCEPT ![f] = [tabs[f] EXCEPT !.text = t, !.dirty = TRUE]]
      BY <1>4, TypeEffect
    <3> HIDE DEF t
    <3>2. [tabs[f] EXCEPT !.text = t, !.dirty = TRUE] \in Tab
      BY <1>1, <3>1, TabTypes
    <3> QED
      BY <3>1, <3>2 DEF TypeOK
  <2>2. typed' \in [Notes -> Nat] /\ bounds' \in [texts : Nat, replaces : Nat, modals : Nat]
    BY <1>4, TypeEffect DEF TypeOK, Text, NewNumber
  <2> QED
    BY <1>4, <2>1, <2>2 DEF Type, TypeOK
<1>5. CASE Save(f)
  <2>1. tabs' \in [Notes -> Tab] /\ file' \in [Notes -> Text]
    BY <1>1, <1>5, TabTypes DEF Save, TypeOK
  <2> QED
    BY <1>5, <2>1 DEF Save, TypeOK
<1>6. CASE CheckTab(f)
  <2>1. tabs' \in [Notes -> Tab]
    BY <1>1, <1>6, TabTypes DEF CheckTab, TypeOK
  <2> QED
    BY <1>6, <2>1 DEF CheckTab, TypeOK
<1> QED
  BY <1>2, <1>3, <1>4, <1>5, <1>6 DEF Editing

LEMMA ForeignType ==
  ASSUME TypeOK, NEW f \in Notes, Foreign(f)
  PROVE  TypeOK'
<1>1. PICK t \in Text : /\ bounds' \in [texts : Nat, replaces : Nat, modals : Nat]
                        /\ file' = [file EXCEPT ![f] = t]
  BY ForeignEffect
<1>2. file' \in [Notes -> Text]
  BY <1>1 DEF TypeOK
<1> QED
  BY <1>1, <1>2 DEF Foreign, TypeOK

\* What the host is made.
LEMMA HostTypes ==
  ASSUME NEW h \in Host
  PROVE  /\ \A on \in BOOLEAN : [h EXCEPT !.timer = on] \in Host /\ [h EXCEPT !.modal = on] \in Host
         /\ [h EXCEPT !.applying = TRUE] \in Host
         /\ Finished(h) \in Host
         /\ Finished(h).generation = h.generation
         /\ Finished(h).window = h.window
         /\ Finished(h).timer = h.timer
         /\ ~Finished(h).replacing
BY DEF Host, Finished

LEMMA CancelledHost ==
  ASSUME TypeOK
  PROVE  /\ Cancelled(host) \in Host
         /\ Cancelled(host).generation = 0
         /\ Cancelled(host).window = host.window
         /\ Cancelled(host).timer = TimerLeft
         /\ ~Cancelled(host).replacing
<1>1. TimerLeft \in BOOLEAN
  BY DEF TimerLeft, TypeOK, Host
<1>2. Finished(host) \in Host
  BY HostTypes DEF TypeOK
<1>3. 0 \in 0..MaxReplaces
  BY ReplaceAssumption
<1>4. Finished(host).window = host.window /\ ~Finished(host).replacing
  BY HostTypes DEF TypeOK
<1> DEFINE h == Finished(host)
           next == [h EXCEPT !.generation = 0, !.timer = TimerLeft]
<1>5. Cancelled(host) = next
  BY DEF Cancelled
<1> HIDE DEF h
<1>6. h \in Host
  BY <1>2 DEF h
<1>7. next \in Host
  BY <1>1, <1>3, <1>6 DEF Host
<1>8. /\ next.generation = 0 /\ next.timer = TimerLeft
      /\ next.window = h.window /\ next.replacing = h.replacing
  BY <1>6 DEF Host
<1> HIDE DEF next
<1> QED
  BY <1>4, <1>5, <1>7, <1>8 DEF h

\* Modal loops, searches, notebooks and the window.
Around ==
  \/ OpenModal \/ CloseModal \/ Search \/ SearchWaits \/ Destroy \/ Joined
  \/ \E b \in Books : CloseBook(b) \/ OpenBook(b)

LEMMA FoundType == ASSUME TypeOK, NEW f \in Notes PROVE Found(f) \in Hit
<1>1. file[f] \in Text /\ NoText \in Text
  BY DEF TypeOK, NoText, Text
<1> QED
  BY <1>1 DEF Found, NoHit, Hit

LEMMA AroundType == ASSUME TypeOK, Around PROVE TypeOK'
<1>1. host \in Host
  BY DEF TypeOK
<1>2. CASE OpenModal
  <2>1. host' \in Host
    BY <1>1, <1>2, HostTypes DEF OpenModal
  <2>2. bounds' \in [texts : Nat, replaces : Nat, modals : Nat]
    BY <1>2 DEF OpenModal, TypeOK
  <2> QED
    BY <1>2, <2>1, <2>2 DEF OpenModal, TypeOK
<1>3. CASE CloseModal
  <2>1. host' \in Host
    BY <1>1, <1>3, HostTypes DEF CloseModal
  <2> QED
    BY <1>3, <2>1 DEF CloseModal, TypeOK
<1>4. CASE Search
  <2>1. results' \in [Notes -> Hit]
    BY <1>4, FoundType DEF Search
  <2>2. host' \in Host /\ jobs' \in [Replaces -> Job]
    BY <1>1, <1>4, CancelledHost, CancelledEffect DEF Search, TypeOK
  <2> QED
    BY <1>4, <2>1, <2>2 DEF Search, TypeOK
<1>5. CASE SearchWaits
  BY <1>5, CancelledHost, CancelledEffect DEF SearchWaits, TypeOK
<1>6. CASE Destroy
  <2>1. host' \in Host
    BY <1>6, CancelledHost DEF Destroy, Host
  <2> QED
    BY <1>6, <2>1, CancelledEffect DEF Destroy, TypeOK
<1>7. CASE Joined
  <2>1. host' \in Host
    BY <1>1, <1>7 DEF Joined, Host
  <2> QED
    BY <1>7, <2>1 DEF Joined, TypeOK
<1>8. ASSUME NEW b \in Books, CloseBook(b)
      PROVE  TypeOK'
  <2>1. host' \in Host
    BY <1>1, <1>8, CancelledHost DEF CloseBook
  <2>2. jobs' \in [Replaces -> Job]
    BY <1>8, CancelledEffect, ClosedEffect DEF CloseBook
  <2>3. results' \in [Notes -> Hit]
    BY <1>8 DEF CloseBook, TypeOK, NoHit, NoText, Hit, Text
  <2>4. open' \subseteq Books
    BY <1>8 DEF CloseBook, TypeOK
  <2> QED
    BY <1>8, <2>1, <2>2, <2>3, <2>4 DEF CloseBook, TypeOK
<1>9. ASSUME NEW b \in Books, OpenBook(b)
      PROVE  TypeOK'
  BY <1>9 DEF OpenBook, TypeOK
<1> QED
  BY <1>2, <1>3, <1>4, <1>5, <1>6, <1>7, <1>8, <1>9 DEF Around

-----------------------------------------------------------------------------
(* The steps of a replace: types, and the control part.                    *)

LEMMA TimerKept ==
  ASSUME TimerIsRight, host'.timer = host.timer, HeldReloads' \subseteq HeldReloads,
         \A q \in Replaces : Holding(q)' => Holding(q)
  PROVE  TimerIsRight'
BY DEF TimerIsRight

\* After a step of one job that is not held then.
LEMMA HoldingKept ==
  ASSUME TypeOK, NEW r \in Replaces, NEW job, jobs' = [jobs EXCEPT ![r] = job],
         job.phase \notin HoldingPhases
  PROVE  \A q \in Replaces : Holding(q)' => Holding(q) /\ q # r
<1> SUFFICES ASSUME NEW q \in Replaces, Holding(q)'
             PROVE  Holding(q) /\ q # r
  OBVIOUS
<1>1. jobs'[q] = IF q = r THEN job ELSE jobs[q]
  BY DEF TypeOK
<1> QED
  BY <1>1 DEF Holding

LEMMA EndsTimer ==
  ASSUME TypeOK, TimerIsRight, NEW r \in Replaces, Ends(r), host'.timer = host.timer,
         HeldReloads' \subseteq HeldReloads
  PROVE  TimerIsRight'
<1>1. NoJob.phase \notin HoldingPhases
  BY NoJobFacts DEF HoldingPhases
<1> QED
  BY <1>1, HoldingKept, TimerKept DEF Ends

LEMMA StartEffect ==
  ASSUME TypeOK, StartReplace
  PROVE  \E job \in Job :
           LET r == bounds.replaces + 1
           IN  /\ r \in Replaces
               /\ job.phase = "counting" /\ job.hand = {} /\ ~job.cancel
               /\ jobs' = [jobs EXCEPT ![r] = job]
               /\ host' = [host EXCEPT !.generation = r, !.replacing = TRUE]
               /\ bounds' = [bounds EXCEPT !.replaces = r]
<1> DEFINE r == bounds.replaces + 1
<1>1. r \in Replaces
  BY ReplaceAssumption DEF StartReplace, TypeOK, Replaces
<1>2. PICK single \in BOOLEAN, which \in SUBSET Notes, read \in SUBSET Notes, matched \in BOOLEAN :
        LET overlays == {f \in which : tabs[f].open}
        IN  jobs' = [jobs EXCEPT ![r] =
              [NoJob EXCEPT !.phase = "counting",
                            !.plan = [f \in Notes |-> IF f \in read THEN results[f] ELSE NoHit],
                            !.overlays = overlays,
                            !.matched = matched,
                            !.single = single]]
  <2>1. PICK single \in BOOLEAN, which \in SUBSET {f \in Notes : results[f].listed} :
          LET overlays == {f \in which : tabs[f].open}
              read == {f \in which : results[f].stamp # NoText \/ f \in overlays}
          IN  jobs' = [jobs EXCEPT ![r] =
                [NoJob EXCEPT !.phase = "counting",
                              !.plan = [f \in Notes |-> IF f \in read THEN results[f] ELSE NoHit],
                              !.overlays = overlays,
                              !.matched = \E f \in overlays : tabs[f].text.hit,
                              !.single = single]]
    BY ZenonT(60) DEF StartReplace
  <2> DEFINE overlays == {f \in which : tabs[f].open}
             read == {f \in which : results[f].stamp # NoText \/ f \in overlays}
             matched == \E f \in overlays : tabs[f].text.hit
  <2>2. which \in SUBSET Notes /\ read \in SUBSET Notes /\ matched \in BOOLEAN
    OBVIOUS
  <2>3. jobs' = [jobs EXCEPT ![r] =
              [NoJob EXCEPT !.phase = "counting",
                            !.plan = [f \in Notes |-> IF f \in read THEN results[f] ELSE NoHit],
                            !.overlays = overlays,
                            !.matched = matched,
                            !.single = single]]
    BY <2>1
  <2> HIDE DEF read, matched
  <2> QED
    BY <2>2, <2>3
<1> DEFINE plan == [f \in Notes |-> IF f \in read THEN results[f] ELSE NoHit]
           overlays == {f \in which : tabs[f].open}
           job == [NoJob EXCEPT !.phase = "counting", !.plan = plan, !.overlays = overlays,
                                !.matched = matched, !.single = single]
<1>3. plan \in [Notes -> Hit]
  BY DEF TypeOK, NoHit, NoText, Hit, Text
<1>4. overlays \in SUBSET Notes
  OBVIOUS
<1>5. job \in Job /\ job.phase = "counting" /\ job.hand = {} /\ ~job.cancel
  <2> HIDE DEF plan, overlays
  <2>1. "counting" \in Phases
    BY DEF Phases
  <2> QED
    BY <1>3, <1>4, <2>1, NoJobFacts DEF Job
<1>6. jobs' = [jobs EXCEPT ![r] = job]
  BY <1>2
<1> HIDE DEF job
<1> QED
  BY <1>1, <1>5, <1>6 DEF StartReplace

LEMMA StartStep ==
  ASSUME TypeOK, Control, StartReplace
  PROVE  TypeOK' /\ Control' /\ SameHands
<1> DEFINE r == bounds.replaces + 1
<1>1. PICK job \in Job :
        /\ r \in Replaces
        /\ job.phase = "counting" /\ job.hand = {} /\ ~job.cancel
        /\ jobs' = [jobs EXCEPT ![r] = job]
        /\ host' = [host EXCEPT !.generation = r, !.replacing = TRUE]
        /\ bounds' = [bounds EXCEPT !.replaces = r]
  BY StartEffect
<1>2. /\ host' \in Host
      /\ host'.generation = r /\ host'.replacing
      /\ host'.timer = host.timer /\ host'.window = "open"
  <2>1. host \in Host /\ host.window = "open"
    BY DEF TypeOK, StartReplace, Free
  <2>2. r \in 0..MaxReplaces
    BY <1>1 DEF Replaces
  <2> HIDE DEF r
  <2> QED
    BY <1>1, <2>1, <2>2 DEF Host
<1>3. bounds' \in [texts : Nat, replaces : Nat, modals : Nat] /\ bounds'.replaces = r
  BY <1>1 DEF TypeOK
<1>4. \A q \in Replaces : jobs'[q] = IF q = r THEN job ELSE jobs[q]
  BY <1>1 DEF TypeOK
<1>5. TypeOK'
  BY <1>1, <1>2, <1>3 DEF StartReplace, TypeOK
<1>6. \A q \in Replaces : ~Live(q) /\ (jobs[q].phase # "none" => q # r /\ q <= r)
  BY DEF StartReplace, Control, OneIsLive, NumbersAreOld, TypeOK, Replaces
<1>7. OneIsLive'
  BY <1>1, <1>2, <1>4, <1>6 DEF OneIsLive, Live
<1>8. NumbersAreOld'
  <2>1. r \in Nat /\ r <= r
    BY DEF TypeOK
  <2> QED
    BY <1>2, <1>3, <1>4, <1>6, <2>1 DEF NumbersAreOld
<1>9. TimerIsRight'
  <2>1. job.phase \notin HoldingPhases
    BY <1>1 DEF HoldingPhases
  <2>2. HeldReloads' = HeldReloads
    BY DEF StartReplace, HeldReloads
  <2> QED
    BY <1>1, <1>2, <2>1, <2>2, HoldingKept, TimerKept DEF Control
<1>10. JobsAreSound'
  <2>1. JobIsSound(job, open)
    BY <1>1 DEF JobIsSound, HoldingPhases
  <2> QED
    BY <1>4, <2>1 DEF Control, JobsAreSound, StartReplace
<1>11. NoteIsNeverCutOff'
  BY <1>2 DEF NoteIsNeverCutOff
<1>12. SameHands
  BY <1>1, <1>4 DEF SameHands
<1> QED
  BY <1>5, <1>7, <1>8, <1>9, <1>10, <1>11, <1>12 DEF Control

\* A phase a job goes on to that asks nothing of the job but its not being
\* cancelled.
LEMMA PhaseControl ==
  ASSUME TypeOK, Control, NEW r \in Replaces, NEW phase \in Phases \ {"none", "writing"},
         ToPhase(r, phase), jobs[r].phase # "none", jobs[r].hand = {},
         phase \in HoldingPhases => ~jobs[r].cancel,
         UNCHANGED open, SameBounds, TimerIsRight',
         host'.window = host.window,
         host'.generation = host.generation,
         host'.replacing = host.replacing
  PROVE  Control'
<1> DEFINE job == [jobs[r] EXCEPT !.phase = phase]
<1>1. jobs[r] \in Job /\ phase \in Phases
  BY DEF TypeOK
<1>2. job.phase = phase /\ job.cancel = jobs[r].cancel /\ job.hand = {}
  BY <1>1, PhasedJob
<1>3. jobs' = [jobs EXCEPT ![r] = job]
  BY <1>1, ToPhaseEffect
<1> HIDE DEF job
<1>4. JobIsSound(job, open)
  BY <1>2 DEF JobIsSound
<1> QED
  BY <1>2, <1>3, <1>4, JobGoesOn

LEMMA CountStep ==
  ASSUME TypeOK, Control, NEW r \in Replaces, CountEnds(r)
  PROVE  TypeOK' /\ Control' /\ SameHands
<1> DEFINE onDisk == \E f \in Notes \ jobs[r].overlays : jobs[r].plan[f].listed /\ file[f].hit
           job == [jobs[r] EXCEPT !.phase = "counted", !.warned = onDisk,
                                  !.matched = jobs[r].matched \/ onDisk]
<1>1. jobs[r] \in Job
  BY DEF TypeOK
<1>2. HeldReloads' = HeldReloads /\ SameBounds /\ TimerIsRight
  BY DEF CountEnds, HeldReloads, SameBounds, Control
<1>3. CASE jobs[r].cancel
  <2>1. Ends(r)
    BY <1>3 DEF CountEnds, Ends, TypeOK
  <2>2. jobs[r].phase # "none" /\ host.generation # r
    BY <1>3 DEF CountEnds, Control, OneIsLive
  <2>3. TimerIsRight'
    BY <1>2, <2>1, EndsTimer DEF CountEnds
  <2>4. Control'
    BY <1>2, <2>1, <2>2, <2>3, JobEnds DEF CountEnds
  <2> QED
    BY <2>1, <2>4, EndsEffect DEF CountEnds, TypeOK
<1>4. CASE ~jobs[r].cancel
  <2>1. jobs' = [jobs EXCEPT ![r] = job]
    BY <1>4 DEF CountEnds
  <2>2. /\ job \in Job
        /\ job.phase = "counted" /\ job.cancel = jobs[r].cancel
        /\ job.hand = jobs[r].hand /\ job.plan = jobs[r].plan
    <3>1. onDisk \in BOOLEAN
      OBVIOUS
    <3> HIDE DEF onDisk
    <3>2. "counted" \in Phases
      BY DEF Phases
    <3>3. (jobs[r].matched \/ onDisk) \in BOOLEAN
      OBVIOUS
    <3> QED
      BY <1>1, <3>1, <3>2, <3>3 DEF Job
  <2> HIDE DEF job
  <2>3. jobs[r].hand = {}
    BY DEF CountEnds, Control, JobsAreSound, JobIsSound
  <2>4. JobIsSound(job, open)
    BY <2>2, <2>3 DEF JobIsSound, HoldingPhases
  <2>5. TimerIsRight'
    BY <1>2, <2>1, <2>2, HoldingKept, TimerKept DEF CountEnds, HoldingPhases
  <2>6. Control'
    BY <1>2, <2>1, <2>2, <2>3, <2>4, <2>5, JobGoesOn DEF CountEnds
  <2>7. \A q \in Replaces : jobs'[q] = IF q = r THEN job ELSE jobs[q]
    BY <2>1 DEF TypeOK
  <2>8. TypeOK'
    BY <2>1, <2>2 DEF CountEnds, TypeOK
  <2> QED
    BY <2>2, <2>6, <2>7, <2>8 DEF SameHands
<1> QED
  BY <1>3, <1>4

LEMMA DroppedStep ==
  ASSUME TypeOK, Control, NEW r \in Replaces, NEW phase, Dropped(r, phase)
  PROVE  TypeOK' /\ Control' /\ SameHands
<1>1. HeldReloads' = HeldReloads /\ SameBounds /\ TimerIsRight
  BY DEF Dropped, HeldReloads, SameBounds, Control
<1>2. TimerIsRight'
  BY <1>1, EndsTimer DEF Dropped
<1>3. Control'
  BY <1>1, <1>2, JobEnds DEF Dropped
<1> QED
  BY <1>3, EndsEffect DEF Dropped, TypeOK

LEMMA HeldStep ==
  ASSUME TypeOK, Control, NEW r \in Replaces, NEW phase \in {"counted", "written"},
         NEW held \in HoldingPhases, Held(r, phase, held)
  PROVE  TypeOK' /\ Control' /\ SameHands
<1>1. held \in Phases \ {"none", "writing"}
  BY DEF Phases, HoldingPhases
<1>2. jobs' \in [Replaces -> Job] /\ SameHands
  BY <1>1, ToPhaseEffect DEF Held
<1>3. host' \in Host /\ host' = [host EXCEPT !.timer = TRUE]
  BY HostTypes DEF Held, TypeOK
<1>4. /\ host'.timer
      /\ host'.window = host.window
      /\ host'.generation = host.generation
      /\ host'.replacing = host.replacing
  BY <1>3 DEF TypeOK, Host
<1>5. jobs[r].phase # "none" /\ jobs[r].phase # "writing"
  BY DEF Held
<1>6. jobs[r].hand = {} /\ ~jobs[r].cancel
  BY <1>5 DEF Control, OneIsLive, JobsAreSound, JobIsSound, Held
<1>7. Control'
  BY <1>1, <1>4, <1>5, <1>6, PhaseControl DEF Held, SameBounds, TimerIsRight
<1> QED
  BY <1>2, <1>3, <1>7 DEF Held, TypeOK

\* The tabs after the plan is applied to them.
TabsReplaced(ts) ==
  /\ tabs' \in [Notes -> Tab]
  /\ \A f \in Notes : tabs'[f] = ts[f] \/ tabs'[f] = ReplacedIn(ts[f])

\* A host that is still at the replace, whatever its timer.
SameReplace(h) ==
  /\ h \in Host
  /\ h.window = host.window
  /\ h.generation = host.generation
  /\ h.replacing = host.replacing

LEMMA AppliedStep ==
  ASSUME TypeOK, Control, NEW r \in Replaces, Live(r), jobs[r].phase # "writing",
         NEW h, SameReplace(h), NEW ts \in [Notes -> Tab], NEW answer \in BOOLEAN,
         jobs[r].warned => answer, Applied(r, h, ts, answer),
         \A q \in Replaces \ {r} : ~Holding(q),
         UNCHANGED open, SameBounds, HeldReloads' # {} => h.timer
  PROVE  /\ jobs' \in [Replaces -> Job]
         /\ host' \in Host
         /\ TabsReplaced(ts)
         /\ Control'
         /\ SameHands
<1>1. TabsReplaced(ts)
  <2>1. tabs' = [f \in Notes |-> IF Planned(r, f) THEN ReplacedIn(ts[f]) ELSE ts[f]]
    BY DEF Applied
  <2>2. ASSUME NEW f \in Notes
        PROVE  /\ tabs'[f] \in Tab
               /\ tabs'[f] = ts[f] \/ tabs'[f] = ReplacedIn(ts[f])
    BY <2>1, TabTypes
  <2>3. tabs' = [f \in Notes |-> tabs'[f]]
    BY <2>1
  <2> QED
    BY <2>2, <2>3 DEF TabsReplaced
<1>2. jobs[r] \in Job /\ host.generation = r /\ jobs[r].phase # "none" /\ jobs[r].hand = {}
  BY DEF TypeOK, Control, OneIsLive, Live, JobsAreSound, JobIsSound
<1>3. CASE Targets(r) = {}
  <2>1. Ends(r) /\ host' = Finished(h)
    BY <1>3 DEF Applied
  <2>2. /\ host' \in Host /\ ~host'.replacing /\ host'.timer = h.timer
        /\ host'.window = host.window /\ host'.generation = host.generation
    BY <2>1, HostTypes DEF SameReplace
  <2>3. TimerIsRight'
    <3>1. NoJob.phase \notin HoldingPhases
      BY NoJobFacts DEF HoldingPhases
    <3> QED
      BY <2>1, <2>2, <3>1, HoldingKept DEF Ends, TimerIsRight
  <2>4. Control'
    BY <1>2, <2>1, <2>2, <2>3, JobEnds
  <2> QED
    BY <1>1, <2>1, <2>2, <2>4, EndsEffect
<1>4. CASE Targets(r) # {}
  <2> DEFINE left == Targets(r)
             job == [jobs[r] EXCEPT !.phase = "writing", !.left = left, !.agreed = answer]
  <2>1. jobs' = [jobs EXCEPT ![r] = job] /\ host' = [h EXCEPT !.applying = TRUE]
    BY <1>4 DEF Applied
  <2>2. left \subseteq Notes /\ (\A f \in left : BookOf[f] \in open) /\ answer
    BY <1>4 DEF Targets, Planned, Target
  <2> HIDE DEF left
  <2>3. /\ job \in Job
        /\ job.phase = "writing" /\ job.left = left /\ job.agreed
        /\ job.cancel = jobs[r].cancel /\ job.hand = {}
    BY <1>2, <2>2 DEF Job, Phases
  <2> HIDE DEF job
  <2>4. SameReplace(host') /\ host'.timer = h.timer
    BY <2>1, HostTypes DEF SameReplace, Host
  <2>5. JobIsSound(job, open)
    BY <2>2, <2>3 DEF JobIsSound, HoldingPhases
  <2>6. TimerIsRight'
    BY <2>1, <2>3, <2>4, HoldingKept DEF TimerIsRight, HoldingPhases
  <2>7. Control'
    BY <1>2, <2>1, <2>3, <2>4, <2>5, <2>6, JobGoesOn DEF SameReplace
  <2>8. \A q \in Replaces : jobs'[q] = IF q = r THEN job ELSE jobs[q]
    BY <2>1 DEF TypeOK
  <2>9. jobs' \in [Replaces -> Job] /\ SameHands
    BY <2>1, <2>3, <2>8 DEF TypeOK, SameHands
  <2> QED
    BY <1>1, <2>4, <2>7, <2>9 DEF SameReplace
<1> QED
  BY <1>3, <1>4

LEMMA ConfirmedStep ==
  ASSUME TypeOK, Control, NEW r \in Replaces, Live(r), jobs[r].phase # "writing",
         NEW h, SameReplace(h), NEW ts \in [Notes -> Tab], Confirmed(r, h, ts),
         \A q \in Replaces \ {r} : ~Holding(q),
         UNCHANGED open, SameBounds, HeldReloads' # {} => h.timer
  PROVE  /\ jobs' \in [Replaces -> Job]
         /\ host' \in Host
         /\ TabsReplaced(ts)
         /\ Control'
         /\ SameHands
<1>1. jobs[r] \in Job /\ host.generation = r /\ jobs[r].phase # "none" /\ jobs[r].hand = {}
  BY DEF TypeOK, Control, OneIsLive, Live, JobsAreSound, JobIsSound
<1>2. CASE Ends(r) /\ host' = Finished(h) /\ tabs' = ts
  <2>1. /\ host' \in Host /\ ~host'.replacing /\ host'.timer = h.timer
        /\ host'.window = host.window /\ host'.generation = host.generation
    BY <1>2, HostTypes DEF SameReplace
  <2>2. TimerIsRight'
    <3>1. NoJob.phase \notin HoldingPhases
      BY NoJobFacts DEF HoldingPhases
    <3> QED
      BY <1>2, <2>1, <3>1, HoldingKept DEF Ends, TimerIsRight
  <2>3. Control'
    BY <1>1, <1>2, <2>1, <2>2, JobEnds
  <2> QED
    BY <1>2, <2>1, <2>3, EndsEffect DEF TabsReplaced
<1>3. CASE ToPhase(r, "asking") /\ host' = h /\ tabs' = ts
  <2>1. "asking" \in Phases \ {"none", "writing"} /\ "asking" \notin HoldingPhases
    BY DEF Phases, HoldingPhases
  <2>2. /\ jobs' \in [Replaces -> Job]
        /\ jobs' = [jobs EXCEPT ![r] = [jobs[r] EXCEPT !.phase = "asking"]]
        /\ SameHands
    BY <1>3, <2>1, ToPhaseEffect
  <2>3. [jobs[r] EXCEPT !.phase = "asking"].phase = "asking"
    BY <1>1 DEF Job
  <2>4. TimerIsRight'
    <3>1. \A q \in Replaces : Holding(q)' => Holding(q) /\ q # r
      BY <2>1, <2>2, <2>3, HoldingKept
    <3>2. \A q \in Replaces : ~Holding(q)'
      BY <3>1
    <3> QED
      BY <1>3, <3>2 DEF TimerIsRight
  <2>5. Control'
    BY <1>1, <1>3, <2>1, <2>4, PhaseControl DEF SameReplace
  <2> QED
    BY <1>3, <2>2, <2>5 DEF TabsReplaced, SameReplace
<1>4. CASE ~jobs[r].warned /\ Applied(r, h, ts, FALSE)
  BY <1>4, AppliedStep
<1> QED
  BY <1>2, <1>3, <1>4 DEF Confirmed

\* What is held is of the replace in hand.
LEMMA HeldIsLive ==
  ASSUME Control, NEW r \in Replaces, Holding(r)
  PROVE  Live(r) /\ host.generation = r /\ host.replacing /\ \A q \in Replaces \ {r} : ~Holding(q)
<1>1. \A q \in Replaces : Holding(q) => Live(q)
  BY DEF Control, JobsAreSound, JobIsSound, Holding, HoldingPhases, Live
<1> QED
  BY <1>1 DEF Control, OneIsLive

\* A job the host names is not cancelled, and nothing of another is held.
LEMMA NamedIsLive ==
  ASSUME Control, NEW r \in Replaces, jobs[r].phase # "none", host.generation = r
  PROVE  Live(r) /\ host.replacing /\ \A q \in Replaces \ {r} : ~Holding(q)
BY HeldIsLive DEF Control, OneIsLive, Live

LEMMA CountedStep ==
  ASSUME TypeOK, Control, NEW r \in Replaces, Counted(r)
  PROVE  TypeOK' /\ Control' /\ SameHands /\ TabsReplaced(tabs)
<1>1. Live(r) /\ (\A q \in Replaces \ {r} : ~Holding(q)) /\ jobs[r].phase # "writing"
  BY NamedIsLive DEF Counted
<1>2. SameReplace(host) /\ tabs \in [Notes -> Tab]
  BY DEF SameReplace, TypeOK
<1>3. SameBounds /\ HeldReloads' = HeldReloads /\ (HeldReloads # {} => host.timer)
  BY DEF Counted, SameBounds, HeldReloads, Control, TimerIsRight
<1>4. /\ jobs' \in [Replaces -> Job] /\ host' \in Host /\ TabsReplaced(tabs)
      /\ Control' /\ SameHands
  BY <1>1, <1>2, <1>3, ConfirmedStep DEF Counted
<1> QED
  BY <1>4 DEF Counted, TypeOK, TabsReplaced

LEMMA AnswerNoStep ==
  ASSUME TypeOK, Control, NEW r \in Replaces, AnswerNo(r)
  PROVE  TypeOK' /\ Control' /\ SameHands
<1>1. HeldReloads' = HeldReloads /\ SameBounds /\ TimerIsRight
  BY DEF AnswerNo, HeldReloads, SameBounds, Control
<1>2. /\ host' \in Host
      /\ host'.timer = host.timer
      /\ host'.window = host.window
      /\ host'.generation = host.generation
      /\ host'.replacing <=> host.replacing /\ host.generation # r
  BY HostTypes DEF AnswerNo, TypeOK
<1>3. TimerIsRight'
  BY <1>1, <1>2, EndsTimer DEF AnswerNo
<1>4. Control'
  BY <1>1, <1>2, <1>3, JobEnds DEF AnswerNo
<1> QED
  BY <1>2, <1>4, EndsEffect DEF AnswerNo, TypeOK

LEMMA AnswerYesStep ==
  ASSUME TypeOK, Control, NEW r \in Replaces, AnswerYes(r)
  PROVE  TypeOK' /\ Control' /\ SameHands /\ TabsReplaced(tabs)
<1>1. SameBounds /\ HeldReloads' = HeldReloads /\ TimerIsRight /\ jobs[r] \in Job
  BY DEF AnswerYes, SameBounds, HeldReloads, Control, TypeOK
<1>2. CASE host.generation = r
  <2>1. Live(r) /\ (\A q \in Replaces \ {r} : ~Holding(q)) /\ jobs[r].phase # "writing"
    BY <1>2, NamedIsLive DEF AnswerYes
  <2>2. SameReplace(host) /\ tabs \in [Notes -> Tab] /\ jobs[r].warned \in BOOLEAN
    BY <1>1 DEF SameReplace, TypeOK, Job
  <2>3. HeldReloads' # {} => host.timer
    BY <1>1 DEF TimerIsRight
  <2>4. /\ jobs' \in [Replaces -> Job] /\ host' \in Host /\ TabsReplaced(tabs)
        /\ Control' /\ SameHands
    BY <1>1, <1>2, <2>1, <2>2, <2>3, AppliedStep DEF AnswerYes
  <2> QED
    BY <2>4 DEF AnswerYes, TypeOK, TabsReplaced
<1>3. CASE host.generation # r
  <2>1. Ends(r) /\ UNCHANGED <<tabs, host>>
    BY <1>3 DEF AnswerYes
  <2>2. TimerIsRight'
    BY <1>1, <2>1, EndsTimer
  <2>3. Control'
    BY <1>1, <1>3, <2>1, <2>2, JobEnds DEF AnswerYes
  <2> QED
    BY <2>1, <2>3, EndsEffect DEF AnswerYes, TypeOK, TabsReplaced
<1> QED
  BY <1>2, <1>3

LEMMA BeginsStep ==
  ASSUME TypeOK, Control, NEW r \in Replaces, NEW f \in Notes, Begins(r, f)
  PROVE  /\ TypeOK' /\ Control'
         /\ \A q \in Replaces \ {r} : jobs'[q] = jobs[q]
         /\ jobs'[r].plan = jobs[r].plan
         /\ jobs'[r].hand = IF file[f] = jobs[r].plan[f].stamp /\ file[f].hit THEN {f} ELSE {}
<1> DEFINE hand == IF file[f] = jobs[r].plan[f].stamp /\ file[f].hit THEN {f} ELSE {}
           left == jobs[r].left \ {f}
           job == [jobs[r] EXCEPT !.left = left, !.hand = hand, !.written = jobs[r].written]
<1>1. jobs[r] \in Job /\ hand \in SUBSET Notes /\ left \in SUBSET Notes /\ jobs[r].written \in SUBSET Notes
  BY DEF TypeOK, Job
<1>2. jobs' = [jobs EXCEPT ![r] = job]
  <2>1. jobs' = [jobs EXCEPT ![r] = [jobs[r] EXCEPT !.left = left, !.hand = hand]]
    BY DEF Begins
  <2>2. [jobs[r] EXCEPT !.left = left, !.hand = hand] = job
    <3> HIDE DEF left, hand
    <3> QED
      BY <1>1 DEF Job
  <2> QED
    BY <2>1, <2>2
<1>3. jobs[r].phase = "writing" /\ ~jobs[r].cancel /\ jobs[r].agreed
  BY DEF Begins, Control, JobsAreSound, JobIsSound
<1>4. \A g \in jobs[r].left : BookOf[g] \in open \cup jobs[r].closed
  BY <1>3 DEF Control, JobsAreSound, JobIsSound
<1>5. left \subseteq jobs[r].left
  OBVIOUS
<1>6. job = [jobs[r] EXCEPT !.left = left, !.hand = hand, !.written = jobs[r].written]
  OBVIOUS
<1> HIDE DEF hand, left, job
<1>7. /\ job \in Job
      /\ job.left = left /\ job.hand = hand
      /\ job.phase = "writing" /\ ~job.cancel /\ job.agreed /\ job.cancel = jobs[r].cancel
      /\ job.closed = jobs[r].closed /\ job.plan = jobs[r].plan
  BY <1>1, <1>3, <1>6 DEF Job
<1>8. JobIsSound(job, open)
  BY <1>4, <1>5, <1>7 DEF JobIsSound, HoldingPhases
<1>9. SameBounds /\ HeldReloads' = HeldReloads /\ TimerIsRight
  BY DEF Begins, SameBounds, HeldReloads, Control
<1>10. TimerIsRight'
  BY <1>2, <1>7, <1>9, HoldingKept, TimerKept DEF Begins, HoldingPhases
<1>11. Live(r)
  BY <1>3 DEF Live
<1>12. Control'
  BY <1>2, <1>3, <1>7, <1>8, <1>9, <1>10, <1>11, JobGoesOn DEF Begins
<1>13. TypeOK'
  BY <1>2, <1>7 DEF Begins, TypeOK
<1>14. \A q \in Replaces : jobs'[q] = IF q = r THEN job ELSE jobs[q]
  BY <1>2 DEF TypeOK
<1> QED
  BY <1>7, <1>12, <1>13, <1>14 DEF hand

LEMMA WritesStep ==
  ASSUME TypeOK, Control, NEW r \in Replaces, Writes(r)
  PROVE  /\ TypeOK' /\ Control' /\ SameHands
         /\ \E f \in jobs[r].hand :
              /\ f \in Notes
              /\ file' = [file EXCEPT ![f] = [jobs[r].plan[f].stamp EXCEPT !.hit = FALSE]]
              /\ file'[f].n = jobs[r].plan[f].stamp.n
<1>1. PICK f \in jobs[r].hand :
        /\ file' = [file EXCEPT ![f] = [jobs[r].plan[f].stamp EXCEPT !.hit = FALSE]]
        /\ jobs' = [jobs EXCEPT ![r] = [jobs[r] EXCEPT !.hand = {}, !.written = jobs[r].written \cup {f}]]
  BY DEF Writes
<1> DEFINE written == jobs[r].written \cup {f}
           left == jobs[r].left
           job == [jobs[r] EXCEPT !.left = left, !.hand = {}, !.written = written]
<1>2. jobs[r] \in Job /\ f \in Notes /\ written \in SUBSET Notes /\ left \in SUBSET Notes
  BY <1>1 DEF TypeOK, Job
<1>3. jobs' = [jobs EXCEPT ![r] = job]
  <2>1. jobs' = [jobs EXCEPT ![r] = [jobs[r] EXCEPT !.hand = {}, !.written = written]]
    BY <1>1
  <2>2. [jobs[r] EXCEPT !.hand = {}, !.written = written] = job
    <3> HIDE DEF written
    <3> QED
      BY <1>2 DEF Job
  <2> QED
    BY <2>1, <2>2
<1>4. jobs[r].phase = "writing" /\ jobs[r].agreed
  BY <1>1 DEF Control, JobsAreSound, JobIsSound
<1>5. ~jobs[r].cancel => \A g \in left : BookOf[g] \in open \cup jobs[r].closed
  BY <1>4 DEF Control, JobsAreSound, JobIsSound
<1>0. job = [jobs[r] EXCEPT !.left = left, !.hand = {}, !.written = written]
  OBVIOUS
<1> HIDE DEF written, left, job
<1>6. /\ job \in Job
      /\ job.left = left /\ job.hand = {}
      /\ job.phase = "writing" /\ job.agreed /\ job.cancel = jobs[r].cancel
      /\ job.closed = jobs[r].closed
  BY <1>0, <1>2, <1>4 DEF Job
<1>7. JobIsSound(job, open)
  BY <1>5, <1>6 DEF JobIsSound, HoldingPhases
<1>8. SameBounds /\ HeldReloads' = HeldReloads /\ TimerIsRight
  BY DEF Writes, SameBounds, HeldReloads, Control
<1>9. TimerIsRight'
  BY <1>3, <1>6, <1>8, HoldingKept, TimerKept DEF Writes, HoldingPhases
<1>10. Control'
  BY <1>3, <1>4, <1>6, <1>7, <1>8, <1>9, JobGoesOn DEF Writes
<1>11. jobs[r].plan[f].stamp \in Text
  BY <1>2 DEF Job, Hit
<1>12. file' \in [Notes -> Text] /\ file'[f].n = jobs[r].plan[f].stamp.n
  BY <1>1, <1>2, <1>11 DEF TypeOK, Text
<1>13. TypeOK'
  BY <1>3, <1>6, <1>12 DEF Writes, TypeOK
<1>14. \A q \in Replaces : jobs'[q] = IF q = r THEN job ELSE jobs[q]
  BY <1>3 DEF TypeOK
<1> QED
  BY <1>1, <1>2, <1>6, <1>10, <1>12, <1>13, <1>14 DEF SameHands

LEMMA WriteEndsStep ==
  ASSUME TypeOK, Control, NEW r \in Replaces, WriteEnds(r)
  PROVE  TypeOK' /\ Control' /\ SameHands
<1>1. SameBounds /\ HeldReloads' = HeldReloads /\ TimerIsRight /\ jobs[r] \in Job
  BY DEF WriteEnds, SameBounds, HeldReloads, Control, TypeOK
<1>2. CASE jobs[r].cancel
  <2>1. Ends(r) /\ host.generation # r
    BY <1>2 DEF WriteEnds, Control, OneIsLive
  <2>2. TimerIsRight'
    BY <1>1, <2>1, EndsTimer DEF WriteEnds
  <2>3. Control'
    BY <1>1, <2>1, <2>2, JobEnds DEF WriteEnds
  <2> QED
    BY <2>1, <2>3, EndsEffect DEF WriteEnds, TypeOK
<1>3. CASE ~jobs[r].cancel
  <2>1. ToPhase(r, "written") /\ jobs[r].phase # "none" /\ jobs[r].hand = {}
    BY <1>3 DEF WriteEnds
  <2>2. "written" \in Phases \ {"none", "writing"} /\ "written" \notin HoldingPhases
    BY DEF Phases, HoldingPhases
  <2>3. /\ jobs' \in [Replaces -> Job]
        /\ jobs' = [jobs EXCEPT ![r] = [jobs[r] EXCEPT !.phase = "written"]]
        /\ SameHands
    BY <2>1, <2>2, ToPhaseEffect
  <2>4. [jobs[r] EXCEPT !.phase = "written"].phase = "written"
    BY <1>1 DEF Job
  <2>5. TimerIsRight'
    <3>1. \A q \in Replaces : Holding(q)' => Holding(q)
      BY <2>2, <2>3, <2>4, HoldingKept
    <3> QED
      BY <1>1, <3>1, TimerKept DEF WriteEnds
  <2>6. Control'
    BY <1>1, <2>1, <2>2, <2>5, PhaseControl DEF WriteEnds
  <2> QED
    BY <2>3, <2>6 DEF WriteEnds, TypeOK
<1> QED
  BY <1>2, <1>3

LEMMA ReloadsType ==
  ASSUME TypeOK, NEW r \in Replaces, NEW ts \in [Notes -> Tab]
  PROVE  /\ Reloads(r, ts) \subseteq Reload
         /\ \A l \in Reloads(r, ts) :
              l.state = "reading" /\ l.mark = ts[l.tab] /\ l.mark.open /\ ~l.mark.dirty
<1>1. ASSUME NEW l \in Reloads(r, ts)
      PROVE  /\ l \in Reload
             /\ l.state = "reading" /\ l.mark = ts[l.tab] /\ l.mark.open /\ ~l.mark.dirty
  <2>1. PICK f \in jobs[r].written :
          /\ l = [tab |-> f, mark |-> ts[f], text |-> NoText, state |-> "reading"]
          /\ ts[f].open /\ ~ts[f].dirty
    BY DEF Reloads
  <2>2. f \in Notes /\ NoText \in Text
    BY DEF TypeOK, Job, NoText, Text
  <2> QED
    BY <2>1, <2>2 DEF Reload
<1> QED
  BY <1>1

LEMMA WrittenStep ==
  ASSUME TypeOK, Control, NEW r \in Replaces, Written(r)
  PROVE  TypeOK' /\ Control' /\ SameHands
<1>1. /\ host' \in Host
      /\ host'.timer = host.timer
      /\ host'.window = host.window
      /\ host'.generation = host.generation
      /\ ~host'.replacing
  BY HostTypes DEF Written, TypeOK
<1>2. SameBounds /\ TimerIsRight
  BY DEF Written, SameBounds, Control
<1>3. reloads' \subseteq Reload /\ HeldReloads' \subseteq HeldReloads
  <2>1. tabs \in [Notes -> Tab] /\ reloads \subseteq Reload
    BY DEF TypeOK
  <2> QED
    BY <2>1, ReloadsType DEF Written, HeldReloads
<1>4. TimerIsRight'
  BY <1>1, <1>2, <1>3, EndsTimer DEF Written
<1>5. Control'
  BY <1>1, <1>2, <1>4, JobEnds DEF Written
<1> QED
  BY <1>1, <1>3, <1>5, EndsEffect DEF Written, TypeOK

-----------------------------------------------------------------------------
(* The reloads and the timer.                                              *)

AllAhead(ts) == \A f \in Notes : TabIsAhead(ts[f], file[f].n, typed[f], bounds.texts)

LEMMA ReloadedTabs ==
  ASSUME TypeOK, TabsAreAhead, ReloadsAreBetween,
         NEW loaded \in SUBSET reloads, \A l \in loaded : l.state # "reading"
  PROVE  Reloaded(loaded) \in [Notes -> Tab] /\ AllAhead(Reloaded(loaded))
<1>1. ASSUME NEW f \in Notes
      PROVE  /\ Reloaded(loaded)[f] \in Tab
             /\ TabIsAhead(Reloaded(loaded)[f], file[f].n, typed[f], bounds.texts)
  <2> DEFINE landing == {l \in loaded : l.tab = f /\ StillAsMarked(l, tabs[f])}
             l == CHOOSE l \in landing : TRUE
  <2>1. tabs[f] \in Tab /\ file[f] \in Text /\ bounds.texts \in Nat /\ typed[f] \in Nat
    BY DEF TypeOK
  <2>2. file[f].n <= bounds.texts /\ TabIsAhead(tabs[f], file[f].n, typed[f], bounds.texts)
    BY DEF TabsAreAhead
  <2>3. CASE landing = {}
    <3>1. Reloaded(loaded)[f] = tabs[f]
      BY <2>3 DEF Reloaded
    <3> QED
      BY <2>1, <2>2, <3>1
  <2>4. CASE landing # {}
    <3>1. l \in landing
      BY <2>4
    <3>2. Reloaded(loaded)[f] = [tabs[f] EXCEPT !.text = l.text, !.known = l.text]
      BY <2>4 DEF Reloaded
    <3>3. l \in reloads /\ l.state # "reading" /\ l.tab = f /\ tabs[f] = l.mark
      BY <3>1 DEF StillAsMarked
    <3> HIDE DEF l
    <3>4. l.text \in Text /\ l.text.n \in Nat /\ file[f].n \in Nat
      BY <2>1, <3>3 DEF TypeOK, Reload, Text
    <3>5. /\ tabs[f].open /\ tabs[f].text = tabs[f].known
          /\ tabs[f].known.n <= l.text.n /\ l.text.n <= file[f].n
      BY <3>3 DEF ReloadsAreBetween, ReloadIsBetween
    <3>6. typed[f] <= tabs[f].known.n
      BY <2>2, <3>5 DEF TabIsAhead
    <3>7. tabs[f].known.n \in Nat
      BY <2>1 DEF Tab, Text
    <3>8. typed[f] <= l.text.n /\ l.text.n <= bounds.texts /\ l.text.n <= l.text.n
      BY <2>1, <2>2, <3>4, <3>5, <3>6, <3>7
    <3> DEFINE tab == [tabs[f] EXCEPT !.text = l.text, !.known = l.text]
    <3>9. tab \in Tab /\ tab.open /\ tab.text = l.text /\ tab.known = l.text
      BY <2>1, <3>4, <3>5 DEF Tab
    <3> HIDE DEF tab
    <3>10. TabIsAhead(tab, file[f].n, typed[f], bounds.texts)
      BY <3>5, <3>8, <3>9 DEF TabIsAhead
    <3> QED
      BY <3>2, <3>9, <3>10 DEF tab
  <2> QED
    BY <2>3, <2>4
<1>2. Reloaded(loaded) = [f \in Notes |-> Reloaded(loaded)[f]]
  BY DEF Reloaded
<1> QED
  BY <1>1, <1>2 DEF AllAhead

LEMMA ReplacedIsAhead ==
  ASSUME NEW tab \in Tab, NEW n, NEW last, NEW top, TabIsAhead(tab, n, last, top)
  PROVE  TabIsAhead(ReplacedIn(tab), n, last, top)
<1>1. CASE tab.open /\ tab.text.hit
  <2> DEFINE next == [tab EXCEPT !.text.hit = FALSE, !.dirty = TRUE]
  <2>1. ReplacedIn(tab) = next
    BY <1>1 DEF ReplacedIn
  <2>2. next.open /\ next.known = tab.known /\ next.text.n = tab.text.n /\ next.dirty
    BY <1>1 DEF Tab, Text
  <2> HIDE DEF next
  <2> QED
    BY <1>1, <2>1, <2>2 DEF TabIsAhead
<1>2. CASE ~(tab.open /\ tab.text.hit)
  BY <1>2 DEF ReplacedIn
<1> QED
  BY <1>1, <1>2

LEMMA TabsReplacedAhead ==
  ASSUME NEW ts \in [Notes -> Tab], AllAhead(ts), TabsReplaced(ts)
  PROVE  \A f \in Notes : TabIsAhead(tabs'[f], file[f].n, typed[f], bounds.texts)
<1> SUFFICES ASSUME NEW f \in Notes
             PROVE  TabIsAhead(tabs'[f], file[f].n, typed[f], bounds.texts)
  OBVIOUS
<1>1. ts[f] \in Tab /\ TabIsAhead(ts[f], file[f].n, typed[f], bounds.texts)
  BY DEF AllAhead
<1>2. tabs'[f] = ts[f] \/ tabs'[f] = ReplacedIn(ts[f])
  BY DEF TabsReplaced
<1> QED
  BY <1>1, <1>2, ReplacedIsAhead

\* The files, the bounds on them and what was typed stay.
SameTexts == UNCHANGED <<file, typed>> /\ bounds'.texts = bounds.texts

LEMMA AheadKept ==
  ASSUME TabsAreAhead, SameTexts,
         \A f \in Notes : TabIsAhead(tabs'[f], file[f].n, typed[f], bounds.texts)
  PROVE  TabsAreAhead'
BY DEF TabsAreAhead, SameTexts

LEMMA SameTabsAhead ==
  ASSUME TabsAreAhead, SameTexts, UNCHANGED tabs
  PROVE  TabsAreAhead'
BY DEF TabsAreAhead, SameTexts

LEMMA BetweenKept ==
  ASSUME ReloadsAreBetween, SameTexts, \A l \in reloads' \ reloads : ReloadIsBetween(l, file[l.tab].n)
  PROVE  ReloadsAreBetween'
BY DEF ReloadsAreBetween, SameTexts

LEMMA FreshKept ==
  ASSUME HandIsFresh, SameTexts, SameHands
  PROVE  HandIsFresh'
BY DEF HandIsFresh, SameTexts, SameHands

\* The tabs the report asks to read again, marked.
LEMMA MarkedIsBetween ==
  ASSUME TypeOK, NEW r \in Replaces, NEW ts \in [Notes -> Tab], AllAhead(ts)
  PROVE  \A l \in Reloads(r, ts) : ReloadIsBetween(l, file[l.tab].n)
<1> SUFFICES ASSUME NEW l \in Reloads(r, ts)
             PROVE  ReloadIsBetween(l, file[l.tab].n)
  OBVIOUS
<1>1. /\ l \in Reload
      /\ l.state = "reading" /\ l.mark = ts[l.tab] /\ l.mark.open /\ ~l.mark.dirty
  BY ReloadsType
<1>2. l.tab \in Notes
  BY <1>1 DEF Reload
<1> QED
  BY <1>1, <1>2 DEF AllAhead, TabIsAhead, ReloadIsBetween

LEMMA ReadsStep ==
  ASSUME Inv, NEW l \in reloads, ReloadReads(l)
  PROVE  Inv'
<1> DEFINE read == [l EXCEPT !.text = file[l.tab], !.state = "posted"]
<1>1. l \in Reload /\ file[l.tab] \in Text
  BY DEF Inv, TypeOK, Reload
<1>2. /\ read \in Reload /\ read.tab = l.tab /\ read.mark = l.mark
      /\ read.text = file[l.tab] /\ read.state = "posted"
  BY <1>1 DEF Reload
<1>3. reloads' = (reloads \ {l}) \cup {read}
  BY DEF ReloadReads
<1> HIDE DEF read
<1>4. ReloadIsBetween(read, file[read.tab].n)
  <2>1. ReloadIsBetween(l, file[l.tab].n)
    BY DEF Inv, ReloadsAreBetween
  <2>2. file[l.tab].n \in Nat
    BY <1>1 DEF Text
  <2> QED
    BY <1>2, <2>1, <2>2 DEF ReloadIsBetween
<1>5. HeldReloads' \subseteq HeldReloads
  BY <1>2, <1>3 DEF HeldReloads
<1>6. SameTexts /\ SameHands /\ SameBounds /\ UNCHANGED <<open, host, jobs, tabs>>
  BY DEF ReloadReads, SameTexts, SameHands, SameBounds
<1>7. TypeOK'
  BY <1>2, <1>3 DEF ReloadReads, Inv, TypeOK
<1>8. Control'
  BY <1>5, <1>6, ControlKept DEF Inv
<1>9. ReloadsAreBetween'
  BY <1>3, <1>4, <1>6, BetweenKept DEF Inv
<1> QED
  BY <1>6, <1>7, <1>8, <1>9, SameTabsAhead, FreshKept DEF Inv

\* The timer is set: nothing else of the control part changes.
LEMMA TimerSet ==
  ASSUME TypeOK, Control, UNCHANGED <<open, jobs>>, SameBounds, host' = [host EXCEPT !.timer = TRUE]
  PROVE  host' \in Host /\ Control'
<1>1. host' \in Host
  BY HostTypes DEF TypeOK
<1>2. /\ host'.timer
      /\ host'.window = host.window
      /\ host'.generation = host.generation
      /\ host'.replacing = host.replacing
  BY DEF TypeOK, Host
<1>3. OneIsLive' /\ NumbersAreOld'
  BY <1>2 DEF Control, OneIsLive, Live, NumbersAreOld, SameBounds
<1>4. TimerIsRight' /\ JobsAreSound' /\ NoteIsNeverCutOff'
  BY <1>2 DEF Control, TimerIsRight, JobsAreSound, JobIsSound, NoteIsNeverCutOff
<1> QED
  BY <1>1, <1>3, <1>4 DEF Control

LEMMA LandsStep ==
  ASSUME Inv, NEW l \in reloads, ReloadLands(l)
  PROVE  Inv'
<1>1. SameTexts /\ SameHands /\ SameBounds /\ UNCHANGED <<open, jobs>> /\ l \in Reload
  BY DEF ReloadLands, SameTexts, SameHands, SameBounds, Inv, TypeOK
<1>2. CASE Busy
  <2> DEFINE held == [l EXCEPT !.state = "held"]
  <2>1. reloads' = (reloads \ {l}) \cup {held} /\ UNCHANGED tabs
    BY <1>2 DEF ReloadLands
  <2>2. /\ held \in Reload /\ held.tab = l.tab /\ held.mark = l.mark
        /\ held.text = l.text
    BY <1>1 DEF Reload
  <2> HIDE DEF held
  <2>3. ReloadIsBetween(held, file[held.tab].n)
    BY <2>2 DEF Inv, ReloadsAreBetween, ReloadIsBetween, ReloadLands
  <2>4. host' \in Host /\ Control'
    BY <1>1, <1>2, TimerSet DEF ReloadLands, Inv
  <2>5. TypeOK'
    BY <2>1, <2>2, <2>4 DEF ReloadLands, Inv, TypeOK
  <2>6. ReloadsAreBetween'
    BY <1>1, <2>1, <2>3, BetweenKept DEF Inv
  <2> QED
    BY <1>1, <2>1, <2>4, <2>5, <2>6, SameTabsAhead, FreshKept DEF Inv
<1>3. CASE ~Busy
  <2>1. reloads' = reloads \ {l} /\ tabs' = Reloaded({l}) /\ UNCHANGED host
    BY <1>3 DEF ReloadLands
  <2>2. Reloaded({l}) \in [Notes -> Tab] /\ AllAhead(Reloaded({l}))
    BY ReloadedTabs DEF Inv, ReloadLands
  <2>3. TypeOK'
    BY <2>1, <2>2 DEF ReloadLands, Inv, TypeOK
  <2>4. HeldReloads' \subseteq HeldReloads
    BY <2>1 DEF HeldReloads
  <2>5. Control'
    BY <1>1, <2>1, <2>4, ControlKept DEF Inv
  <2>6. TabsAreAhead'
    BY <1>1, <2>1, <2>2, AheadKept DEF AllAhead, Inv
  <2>7. ReloadsAreBetween'
    BY <1>1, <2>1, BetweenKept DEF Inv
  <2> QED
    BY <1>1, <2>3, <2>5, <2>6, <2>7, FreshKept DEF Inv
<1> QED
  BY <1>2, <1>3

LEMMA TimerStep ==
  ASSUME Inv, Timer
  PROVE  Inv'
<1> DEFINE h == [host EXCEPT !.timer = FALSE]
           ts == Reloaded(HeldReloads)
           rest == reloads \ HeldReloads
<1>1. SameReplace(h) /\ h.timer = FALSE
  BY DEF Inv, TypeOK, Host, SameReplace
<1>2. HeldReloads \subseteq reloads /\ (\A l \in HeldReloads : l.state # "reading")
  BY DEF HeldReloads
<1>3. ts \in [Notes -> Tab] /\ AllAhead(ts)
  BY <1>2, ReloadedTabs DEF Inv
<1>4. SameTexts /\ SameBounds /\ UNCHANGED open
  BY DEF Timer, SameTexts, SameBounds
<1>5. \/ /\ \E r \in Replaces : jobs[r].phase = "countHeld" /\ Confirmed(r, h, ts)
         /\ reloads' = rest
      \/ /\ \E r \in Replaces : /\ jobs[r].phase = "reportHeld" /\ Ends(r)
                                /\ reloads' = rest \cup Reloads(r, ts)
         /\ host' = Finished(h)
         /\ tabs' = ts
      \/ /\ \A r \in Replaces : ~Holding(r)
         /\ host' = h
         /\ tabs' = ts
         /\ reloads' = rest
         /\ UNCHANGED jobs
  BY DEF Timer, Holding, HoldingPhases
<1> HIDE DEF h, ts
<1>6. /\ TypeOK' /\ Control' /\ SameHands
      /\ TabsReplaced(ts)
      /\ \A l \in reloads' \ reloads : ReloadIsBetween(l, file[l.tab].n)
  <2>1. ASSUME NEW r \in Replaces, jobs[r].phase = "countHeld", Confirmed(r, h, ts), reloads' = rest
        PROVE  /\ TypeOK' /\ Control' /\ SameHands
               /\ TabsReplaced(ts)
               /\ \A l \in reloads' \ reloads : ReloadIsBetween(l, file[l.tab].n)
    <3>1. Live(r) /\ (\A q \in Replaces \ {r} : ~Holding(q)) /\ jobs[r].phase # "writing"
      BY <2>1, HeldIsLive DEF Inv, Holding, HoldingPhases
    <3>2. HeldReloads' = {}
      BY <2>1 DEF HeldReloads
    <3>3. /\ jobs' \in [Replaces -> Job] /\ host' \in Host /\ TabsReplaced(ts)
          /\ Control' /\ SameHands
      BY <1>1, <1>3, <1>4, <2>1, <3>1, <3>2, ConfirmedStep DEF Inv
    <3> QED
      BY <2>1, <3>3 DEF Timer, Inv, TypeOK, TabsReplaced
  <2>2. ASSUME NEW r \in Replaces, jobs[r].phase = "reportHeld", Ends(r),
               reloads' = rest \cup Reloads(r, ts), host' = Finished(h), tabs' = ts
        PROVE  /\ TypeOK' /\ Control' /\ SameHands
               /\ TabsReplaced(ts)
               /\ \A l \in reloads' \ reloads : ReloadIsBetween(l, file[l.tab].n)
    <3>1. /\ host' \in Host /\ ~host'.replacing
          /\ host'.window = host.window /\ host'.generation = host.generation
      BY <1>1, <2>2, HostTypes DEF SameReplace
    <3>2. host.generation = r /\ (\A q \in Replaces \ {r} : ~Holding(q))
      BY <2>2, HeldIsLive DEF Inv, Holding, HoldingPhases
    <3>3. Reloads(r, ts) \subseteq Reload /\ (\A l \in Reloads(r, ts) : l.state = "reading")
      BY <1>3, ReloadsType DEF Inv
    <3>4. HeldReloads' = {}
      BY <2>2, <3>3 DEF HeldReloads
    <3>5. TimerIsRight'
      <4>1. NoJob.phase \notin HoldingPhases
        BY NoJobFacts DEF HoldingPhases
      <4> QED
        BY <2>2, <3>2, <3>4, <4>1, HoldingKept DEF Ends, TimerIsRight, Inv
    <3>6. Control'
      BY <1>4, <2>2, <3>1, <3>2, <3>5, JobEnds DEF Inv
    <3>7. jobs' \in [Replaces -> Job] /\ SameHands
      BY <2>2, EndsEffect DEF Inv
    <3>8. TypeOK'
      BY <1>3, <2>2, <3>1, <3>3, <3>7 DEF Timer, Inv, TypeOK
    <3>9. \A l \in reloads' \ reloads : ReloadIsBetween(l, file[l.tab].n)
      BY <1>3, <2>2, MarkedIsBetween DEF Inv
    <3> QED
      BY <1>3, <2>2, <3>6, <3>7, <3>8, <3>9 DEF TabsReplaced
  <2>3. ASSUME \A r \in Replaces : ~Holding(r), host' = h, tabs' = ts, reloads' = rest, UNCHANGED jobs
        PROVE  /\ TypeOK' /\ Control' /\ SameHands
               /\ TabsReplaced(ts)
               /\ \A l \in reloads' \ reloads : ReloadIsBetween(l, file[l.tab].n)
    <3>1. HeldReloads' = {}
      BY <2>3 DEF HeldReloads
    <3>2. TimerIsRight'
      BY <2>3, <3>1 DEF TimerIsRight, Holding
    <3>3. OneIsLive' /\ NumbersAreOld' /\ JobsAreSound' /\ NoteIsNeverCutOff'
      BY <1>1, <1>4, <2>3 DEF SameReplace, SameBounds, Inv, Control, OneIsLive, Live, NumbersAreOld,
                              JobsAreSound, JobIsSound, NoteIsNeverCutOff
    <3>4. TypeOK'
      BY <1>1, <1>3, <2>3 DEF Timer, Inv, TypeOK, SameReplace
    <3> QED
      BY <1>3, <2>3, <3>2, <3>3, <3>4 DEF Control, SameHands, TabsReplaced
  <2> QED
    BY <1>5, <2>1, <2>2, <2>3
<1>7. TabsAreAhead'
  BY <1>3, <1>4, <1>6, TabsReplacedAhead, AheadKept DEF Inv
<1>8. ReloadsAreBetween' /\ HandIsFresh'
  BY <1>4, <1>6, BetweenKept, FreshKept DEF Inv
<1> QED
  BY <1>6, <1>7, <1>8 DEF Inv

-----------------------------------------------------------------------------
(* The other steps.                                                        *)

LEMMA AroundStep ==
  ASSUME Inv, Around
  PROVE  Control' /\ SameHands
<1>1. TypeOK /\ Control /\ host \in Host
  BY DEF Inv, TypeOK
<1>2. SameBounds /\ UNCHANGED reloads
  BY <1>1 DEF Around, OpenModal, CloseModal, Search, SearchWaits, Destroy, Joined, CloseBook, OpenBook,
              SameBounds, TypeOK
<1>3. HeldReloads' = HeldReloads
  BY <1>2 DEF HeldReloads
<1>4. ASSUME jobs' = CancelledJobs, host' = Cancelled(host)
      PROVE  Control' /\ SameHands
  BY <1>1, <1>2, <1>4, CancelControl, CancelledHost, CancelledEffect
<1>5. ASSUME UNCHANGED <<open, host, jobs>>
      PROVE  Control' /\ SameHands
  BY <1>1, <1>2, <1>3, <1>5, ControlKept DEF SameHands
<1>6. CASE OpenModal \/ CloseModal
  <2>1. /\ host'.timer = host.timer
        /\ host'.window = host.window
        /\ host'.generation = host.generation
        /\ host'.replacing = host.replacing
        /\ UNCHANGED <<open, jobs>>
    BY <1>1, <1>6 DEF OpenModal, CloseModal, Host
  <2>2. Control'
    BY <1>1, <1>2, <1>3, <2>1 DEF Control, OneIsLive, Live, NumbersAreOld, SameBounds, TimerIsRight, Holding,
                                  JobsAreSound, JobIsSound, NoteIsNeverCutOff
  <2> QED
    BY <2>1, <2>2 DEF SameHands
<1>7. CASE Search
  <2>1. CASE Pending
    BY <1>4, <1>7, <2>1 DEF Search
  <2>2. CASE ~Pending
    BY <1>5, <1>7, <2>2 DEF Search
  <2> QED
    BY <2>1, <2>2
<1>8. CASE SearchWaits
  BY <1>4, <1>8 DEF SearchWaits
<1>9. CASE Destroy
  <2>1. /\ host'.generation = 0 /\ ~host'.replacing /\ host'.timer = TimerLeft
        /\ host'.window = "joining"
    <3>1. Cancelled(host) \in Host
      BY <1>1, CancelledHost
    <3>2. host' = [Cancelled(host) EXCEPT !.window = "joining"]
      BY <1>9 DEF Destroy
    <3>3. /\ host'.generation = Cancelled(host).generation
          /\ host'.replacing = Cancelled(host).replacing
          /\ host'.timer = Cancelled(host).timer
          /\ host'.window = "joining"
      BY <3>1, <3>2 DEF Host
    <3> QED
      BY <1>1, <3>3, CancelledHost
  <2>2. jobs' = CancelledJobs
    BY <1>9 DEF Destroy
  <2> QED
    BY <1>1, <1>2, <2>1, <2>2, CancelControl, CancelledEffect
<1>10. CASE Joined
  <2>1. /\ host'.timer = host.timer
        /\ host.window = "joining"
        /\ host'.generation = host.generation
        /\ host'.replacing = host.replacing
        /\ UNCHANGED <<open, jobs>>
    BY <1>1, <1>10 DEF Joined, Host
  <2>2. OneIsLive' /\ NumbersAreOld' /\ TimerIsRight' /\ JobsAreSound'
    BY <1>1, <1>2, <1>3, <2>1 DEF Control, OneIsLive, Live, NumbersAreOld, SameBounds, TimerIsRight, Holding,
                                  JobsAreSound, JobIsSound
  <2>3. NoteIsNeverCutOff'
    BY <1>1, <1>10, <2>1 DEF Joined, Writers, Control, JobsAreSound, JobIsSound, NoteIsNeverCutOff
  <2> QED
    BY <2>1, <2>2, <2>3 DEF Control, SameHands
<1>11. ASSUME NEW b \in Books, CloseBook(b)
       PROVE  Control' /\ SameHands
  <2>1. CASE open = {b}
    BY <1>4, <1>11, <2>1 DEF CloseBook
  <2>2. CASE open # {b}
    <3>1. jobs' = Closed(b) /\ host' = host /\ open' = open \ {b}
      BY <1>11, <2>2 DEF CloseBook
    <3>2. ASSUME NEW q \in Replaces
          PROVE  /\ jobs'[q].phase = jobs[q].phase
                 /\ jobs'[q].cancel = jobs[q].cancel
                 /\ jobs'[q].hand = jobs[q].hand
                 /\ JobIsSound(jobs'[q], open')
      <4>1. jobs[q] \in Job /\ JobIsSound(jobs[q], open)
        BY <1>1 DEF TypeOK, Control, JobsAreSound
      <4>2. CASE Over(q)
        <5>1. jobs'[q] = jobs[q]
          BY <3>1, <4>2 DEF Closed
        <5> QED
          BY <4>1, <4>2, <5>1 DEF Over, JobIsSound
      <4>3. CASE ~Over(q)
        <5>1. jobs'[q] = [jobs[q] EXCEPT !.closed = jobs[q].closed \cup {b}]
          BY <3>1, <4>1, <4>3 DEF Closed, Job
        <5>2. /\ jobs'[q].phase = jobs[q].phase
              /\ jobs'[q].cancel = jobs[q].cancel
              /\ jobs'[q].left = jobs[q].left
              /\ jobs'[q].hand = jobs[q].hand
              /\ jobs'[q].agreed = jobs[q].agreed
              /\ jobs'[q].closed = jobs[q].closed \cup {b}
          BY <4>1, <5>1, ToldJob
        <5> QED
          BY <3>1, <4>1, <5>2 DEF JobIsSound
      <4> QED
        BY <4>2, <4>3
    <3>3. Control'
      <4>1. OneIsLive' /\ NumbersAreOld'
        BY <1>1, <1>2, <1>3, <3>1, <3>2 DEF Control, OneIsLive, Live, NumbersAreOld, SameBounds
      <4>2. TimerIsRight'
        BY <1>1, <1>2, <1>3, <3>1, <3>2 DEF Control, TimerIsRight, Holding
      <4>3. JobsAreSound' /\ NoteIsNeverCutOff'
        BY <1>1, <1>2, <1>3, <3>1, <3>2 DEF Control, JobsAreSound, NoteIsNeverCutOff
      <4> QED
        BY <4>1, <4>2, <4>3 DEF Control
    <3> QED
      BY <1>1, <3>1, <3>3, ClosedEffect
  <2> QED
    BY <2>1, <2>2
<1>12. ASSUME NEW b \in Books, OpenBook(b)
       PROVE  Control' /\ SameHands
  <2>1. UNCHANGED <<host, jobs>> /\ open \subseteq open'
    BY <1>12 DEF OpenBook
  <2>2. JobsAreSound'
    BY <1>1, <2>1 DEF Control, JobsAreSound, JobIsSound
  <2>3. OneIsLive' /\ NumbersAreOld' /\ TimerIsRight' /\ NoteIsNeverCutOff'
    BY <1>1, <1>2, <1>3, <2>1 DEF Control, OneIsLive, Live, NumbersAreOld, SameBounds, TimerIsRight, Holding,
                                  NoteIsNeverCutOff
  <2> QED
    BY <2>1, <2>2, <2>3 DEF Control, SameHands
<1> QED
  BY <1>6, <1>7, <1>8, <1>9, <1>10, <1>11, <1>12 DEF Around

\* A file takes another text: the reloads of it and the worker with it in hand
\* see it.
FileGoesOn(f, text) ==
  /\ file' = [file EXCEPT ![f] = text]
  /\ file[f].n <= text.n

LEMMA FileStep ==
  ASSUME TypeOK, ReloadsAreBetween, NEW f \in Notes, NEW text \in Text, FileGoesOn(f, text),
         reloads' \subseteq reloads
  PROVE  ReloadsAreBetween'
<1> SUFFICES ASSUME NEW l \in reloads'
             PROVE  ReloadIsBetween(l, file'[l.tab].n)
  BY DEF ReloadsAreBetween
<1>1. l \in Reload /\ ReloadIsBetween(l, file[l.tab].n)
  BY DEF TypeOK, ReloadsAreBetween
<1>2. l.tab \in Notes /\ l.mark.known.n \in Nat /\ l.text.n \in Nat
  BY <1>1 DEF Reload, Tab, Text
<1>3. file[l.tab].n \in Nat /\ file'[l.tab].n \in Nat /\ file[l.tab].n <= file'[l.tab].n
  BY <1>2 DEF FileGoesOn, TypeOK, Text
<1> QED
  BY <1>1, <1>2, <1>3 DEF ReloadIsBetween

\* One tab changes, and with it perhaps the file of its note.
LEMMA OneTab ==
  ASSUME TypeOK, TabsAreAhead, NEW f \in Notes,
         \A g \in Notes \ {f} : file'[g] = file[g] /\ tabs'[g] = tabs[g] /\ typed'[g] = typed[g],
         bounds.texts <= bounds'.texts, bounds'.texts \in Nat,
         file'[f].n <= bounds'.texts, TabIsAhead(tabs'[f], file'[f].n, typed'[f], bounds'.texts)
  PROVE  TabsAreAhead'
<1> SUFFICES ASSUME NEW g \in Notes \ {f}
             PROVE  /\ file[g].n <= bounds'.texts
                    /\ TabIsAhead(tabs[g], file[g].n, typed[g], bounds'.texts)
  BY DEF TabsAreAhead
<1>1. /\ file[g].n <= bounds.texts
      /\ TabIsAhead(tabs[g], file[g].n, typed[g], bounds.texts)
  BY DEF TabsAreAhead
<1>2. tabs[g].text.n \in Nat /\ file[g].n \in Nat /\ bounds.texts \in Nat
  BY DEF TypeOK, Tab, Text
<1> QED
  BY <1>1, <1>2 DEF TabIsAhead

LEMMA EditingStep ==
  ASSUME Inv, NEW f \in Notes, Editing(f)
  PROVE  Inv'
<1>1. /\ TypeOK /\ TabsAreAhead
      /\ tabs[f] \in Tab /\ tabs[f].text \in Text /\ tabs[f].known \in Text
      /\ file[f] \in Text /\ typed[f] \in Nat /\ bounds.texts \in Nat
  BY DEF Inv, TypeOK, Tab
<1>2. file[f].n <= bounds.texts /\ TabIsAhead(tabs[f], file[f].n, typed[f], bounds.texts)
  BY <1>1 DEF TabsAreAhead
<1>3. TypeOK'
  BY EditingType DEF Inv
<1>4. UNCHANGED <<open, host, jobs>> /\ SameBounds
  <2>1. CASE Type(f)
    BY <1>1, <2>1, TypeEffect DEF Type, SameBounds
  <2> QED
    BY <2>1 DEF Editing, OpenTab, CloseTab, Save, CheckTab, SameBounds
<1>5. reloads' \subseteq reloads
  BY DEF Editing, OpenTab, CloseTab, Type, Save, CheckTab
<1>6. Control'
  <2>1. HeldReloads' \subseteq HeldReloads
    BY <1>5 DEF HeldReloads
  <2> QED
    BY <1>4, <2>1, ControlKept DEF Inv
<1>7. /\ \A g \in Notes \ {f} : file'[g] = file[g] /\ tabs'[g] = tabs[g] /\ typed'[g] = typed[g]
      /\ bounds.texts <= bounds'.texts /\ bounds'.texts \in Nat
      /\ file'[f].n <= bounds'.texts
      /\ TabIsAhead(tabs'[f], file'[f].n, typed'[f], bounds'.texts)
  <2>0. file[f].n \in Nat /\ file[f].n <= file[f].n /\ bounds.texts <= bounds.texts
    BY <1>1 DEF Text
  <2>1. CASE OpenTab(f)
    <3> DEFINE tab == [open |-> TRUE, text |-> file[f], known |-> file[f], dirty |-> FALSE]
    <3>1. tabs' = [tabs EXCEPT ![f] = tab] /\ UNCHANGED <<file, typed, bounds>>
      BY <2>1 DEF OpenTab
    <3>2. tab.open /\ tab.text = file[f] /\ tab.known = file[f] /\ ~tab.dirty
      OBVIOUS
    <3> HIDE DEF tab
    <3>3. tabs'[f] = tab /\ \A g \in Notes \ {f} : tabs'[g] = tabs[g]
      BY <1>1, <3>1 DEF TypeOK
    <3>4. typed[f] <= file[f].n
      BY <1>1, <1>2, <2>0, <2>1 DEF OpenTab, TabIsAhead
    <3> QED
      BY <1>1, <1>2, <2>0, <3>1, <3>2, <3>3, <3>4 DEF TabIsAhead
  <2>2. CASE CloseTab(f)
    <3>1. tabs' = [tabs EXCEPT ![f] = NoTab] /\ typed' = [typed EXCEPT ![f] = 0] /\ UNCHANGED <<file, bounds>>
      BY <2>2 DEF CloseTab
    <3>2. ~NoTab.open /\ ~NoTab.dirty
      BY DEF NoTab
    <3>3. /\ tabs'[f] = NoTab /\ typed'[f] = 0
          /\ \A g \in Notes \ {f} : tabs'[g] = tabs[g] /\ typed'[g] = typed[g]
      BY <1>1, <3>1 DEF TypeOK
    <3> QED
      BY <1>1, <1>2, <2>0, <3>1, <3>2, <3>3 DEF TabIsAhead
  <2>3. CASE Type(f)
    <3> DEFINE t == [n |-> NewNumber, hit |-> TRUE]
               tab == [tabs[f] EXCEPT !.text = t, !.dirty = TRUE]
    <3>1. /\ tabs' = [tabs EXCEPT ![f] = tab] /\ typed' = [typed EXCEPT ![f] = NewNumber] /\ UNCHANGED file
          /\ bounds'.texts = NewNumber /\ tabs[f].open
      BY <1>1, <2>3, TypeEffect DEF Type
    <3>2. NewNumber = bounds.texts + 1
      BY DEF NewNumber
    <3>3. tab.open /\ tab.text.n = NewNumber /\ tab.known = tabs[f].known /\ tab.dirty
      BY <1>1, <3>1 DEF Tab
    <3> HIDE DEF tab
    <3>4. /\ tabs'[f] = tab /\ typed'[f] = NewNumber
          /\ \A g \in Notes \ {f} : tabs'[g] = tabs[g] /\ typed'[g] = typed[g]
      BY <1>1, <3>1 DEF TypeOK
    <3>5. tabs[f].known.n \in Nat /\ tabs[f].known.n <= file[f].n
      BY <1>1, <1>2, <3>1 DEF TabIsAhead, Text
    <3>6. tabs[f].known.n <= NewNumber /\ file[f].n <= NewNumber /\ NewNumber \in Nat /\ NewNumber <= NewNumber
          /\ bounds.texts <= NewNumber
      BY <1>1, <1>2, <2>0, <3>2, <3>5
    <3> QED
      BY <3>1, <3>3, <3>4, <3>5, <3>6 DEF TabIsAhead
  <2>4. CASE Save(f)
    <3> DEFINE tab == [tabs[f] EXCEPT !.known = tabs[f].text, !.dirty = FALSE]
    <3>1. /\ tabs' = [tabs EXCEPT ![f] = tab]
          /\ file' = [file EXCEPT ![f] = tabs[f].text] /\ UNCHANGED <<typed, bounds>>
      <4>1. tabs' = [tabs EXCEPT ![f] = tab]
        BY <1>1, <2>4 DEF Save, TypeOK
      <4> QED
        BY <2>4, <4>1 DEF Save
    <3>2. tab.open = tabs[f].open /\ tab.text = tabs[f].text /\ tab.known = tabs[f].text /\ ~tab.dirty
      BY <1>1 DEF Tab
    <3> HIDE DEF tab
    <3>3. /\ tabs'[f] = tab /\ file'[f] = tabs[f].text
          /\ \A g \in Notes \ {f} : tabs'[g] = tabs[g] /\ file'[g] = file[g]
      BY <1>1, <3>1 DEF TypeOK
    <3>4. tabs[f].open
      BY <1>2, <2>4 DEF Save, TabIsAhead
    <3>5. tabs[f].text.n \in Nat /\ tabs[f].text.n <= tabs[f].text.n
      BY <1>1 DEF Text
    <3> QED
      BY <1>1, <1>2, <2>0, <3>1, <3>2, <3>3, <3>4, <3>5 DEF TabIsAhead
  <2>5. CASE CheckTab(f)
    <3> DEFINE tab == [tabs[f] EXCEPT !.text = file[f], !.known = file[f]]
    <3>1. tabs' = [tabs EXCEPT ![f] = tab] /\ UNCHANGED <<file, typed, bounds>>
      BY <1>1, <2>5 DEF CheckTab, TypeOK
    <3>2. tab.open = tabs[f].open /\ tab.text = file[f] /\ tab.known = file[f]
      BY <1>1 DEF Tab
    <3> HIDE DEF tab
    <3>3. tabs'[f] = tab /\ \A g \in Notes \ {f} : tabs'[g] = tabs[g]
      BY <1>1, <3>1 DEF TypeOK
    <3>4. tabs[f].open /\ tabs[f].text = tabs[f].known
      BY <1>2, <2>5 DEF CheckTab, TabIsAhead
    <3>5. typed[f] <= tabs[f].known.n /\ tabs[f].known.n <= file[f].n /\ tabs[f].known.n \in Nat
      BY <1>1, <1>2, <3>4 DEF TabIsAhead, Text
    <3>6. typed[f] <= file[f].n
      BY <1>1, <2>0, <3>5
    <3> QED
      BY <1>1, <1>2, <2>0, <3>1, <3>2, <3>3, <3>4, <3>6 DEF TabIsAhead
  <2> QED
    BY <2>1, <2>2, <2>3, <2>4, <2>5 DEF Editing
<1>8. TabsAreAhead'
  BY <1>1, <1>7, OneTab
<1>9. ReloadsAreBetween'
  <2>1. CASE Save(f)
    <3>1. FileGoesOn(f, tabs[f].text)
      BY <1>2, <2>1 DEF Save, FileGoesOn, TabIsAhead
    <3> QED
      BY <1>1, <1>5, <3>1, FileStep DEF Inv
  <2>2. CASE ~Save(f)
    <3>1. UNCHANGED file
      BY <2>2 DEF Editing, OpenTab, CloseTab, Type, CheckTab
    <3> QED
      BY <1>5, <3>1 DEF Inv, ReloadsAreBetween
  <2> QED
    BY <2>1, <2>2
<1>10. HandIsFresh'
  <2>1. ASSUME NEW r \in Replaces, NEW g \in jobs[r].hand
        PROVE  file'[g].n = file[g].n
    <3>1. g \in Notes
      BY <1>1 DEF TypeOK, Job
    <3>2. CASE g = f
      <4>1. ~Save(f)
        BY <2>1, <3>2 DEF Save, InHand
      <4> QED
        BY <4>1 DEF Editing, OpenTab, CloseTab, Type, CheckTab
    <3>3. CASE g # f
      BY <1>7, <3>1, <3>3
    <3> QED
      BY <3>2, <3>3
  <2> QED
    BY <1>4, <2>1 DEF Inv, HandIsFresh
<1> QED
  BY <1>3, <1>6, <1>8, <1>9, <1>10 DEF Inv

LEMMA ForeignStep ==
  ASSUME Inv, NEW f \in Notes, Foreign(f)
  PROVE  Inv'
<1>1. /\ TypeOK /\ TabsAreAhead
      /\ tabs[f] \in Tab /\ tabs[f].text \in Text /\ tabs[f].known \in Text
      /\ file[f] \in Text /\ bounds.texts \in Nat
  BY DEF Inv, TypeOK, Tab
<1>2. PICK t \in Text : /\ t.n = NewNumber
                        /\ bounds'.texts = NewNumber
                        /\ bounds'.replaces = bounds.replaces
                        /\ file' = [file EXCEPT ![f] = t]
  BY <1>1, ForeignEffect
<1>3. UNCHANGED <<tabs, open, host, jobs, reloads, typed>> /\ ~InHand(f)
  BY DEF Foreign
<1>4. TypeOK'
  BY <1>1, ForeignType
<1>5. Control'
  <2>1. HeldReloads' \subseteq HeldReloads
    BY <1>3 DEF HeldReloads
  <2> QED
    BY <1>2, <1>3, <2>1, ControlKept DEF Inv, SameBounds
<1>6. file[f].n <= bounds.texts /\ TabIsAhead(tabs[f], file[f].n, typed[f], bounds.texts)
  BY <1>1 DEF TabsAreAhead
<1>7. file'[f] = t /\ \A g \in Notes \ {f} : file'[g] = file[g]
  BY <1>1, <1>2 DEF TypeOK
<1>8. /\ file[f].n \in Nat /\ tabs[f].known.n \in Nat /\ tabs[f].text.n \in Nat
      /\ NewNumber = bounds.texts + 1
  BY <1>1 DEF Text, NewNumber
<1>9. TabsAreAhead'
  <2>1. NewNumber \in Nat /\ bounds.texts <= NewNumber /\ NewNumber <= NewNumber /\ file[f].n <= NewNumber
    BY <1>1, <1>6, <1>8
  <2>2. TabIsAhead(tabs[f], NewNumber, typed[f], NewNumber)
    BY <1>1, <1>6, <1>8 DEF TabIsAhead
  <2> QED
    BY <1>1, <1>2, <1>3, <1>7, <2>1, <2>2, OneTab
<1>10. ReloadsAreBetween'
  <2>1. FileGoesOn(f, t)
    BY <1>1, <1>2, <1>6, <1>8 DEF FileGoesOn
  <2> QED
    BY <1>1, <1>3, <2>1, FileStep DEF Inv
<1>11. HandIsFresh'
  <2>1. ASSUME NEW r \in Replaces, NEW g \in jobs[r].hand
        PROVE  file'[g] = file[g]
    <3>1. g \in Notes /\ g # f
      BY <1>1, <1>3 DEF TypeOK, Job, InHand
    <3> QED
      BY <1>7, <3>1
  <2> QED
    BY <1>3, <2>1 DEF Inv, HandIsFresh
<1> QED
  BY <1>4, <1>5, <1>9, <1>10, <1>11 DEF Inv

\* What a step of a job leaves of the texts.
LEMMA JobStep ==
  ASSUME Inv, TypeOK', Control', SameHands, SameTexts, UNCHANGED reloads, TabsReplaced(tabs)
  PROVE  Inv'
<1>1. tabs \in [Notes -> Tab] /\ AllAhead(tabs)
  BY DEF Inv, TypeOK, TabsAreAhead, AllAhead
<1>2. TabsAreAhead'
  BY <1>1, TabsReplacedAhead, AheadKept DEF Inv
<1> QED
  BY <1>2, BetweenKept, FreshKept DEF Inv

LEMMA SameTabs == ASSUME TypeOK, UNCHANGED tabs PROVE TabsReplaced(tabs)
BY DEF TypeOK, TabsReplaced

LEMMA WorkerInv ==
  ASSUME Inv, NEW r \in Replaces, Worker(r)
  PROVE  Inv'
<1>0. TypeOK /\ Control
  BY DEF Inv
<1>1. CASE CountEnds(r)
  <2>1. SameTexts /\ UNCHANGED reloads /\ UNCHANGED tabs
    BY <1>1 DEF CountEnds, SameTexts
  <2> QED
    BY <1>0, <1>1, <2>1, CountStep, SameTabs, JobStep
<1>2. CASE WriteEnds(r)
  <2>1. SameTexts /\ UNCHANGED reloads /\ UNCHANGED tabs
    BY <1>2 DEF WriteEnds, SameTexts
  <2> QED
    BY <1>0, <1>2, <2>1, WriteEndsStep, SameTabs, JobStep
<1>3. ASSUME NEW f \in Notes, Begins(r, f)
      PROVE  Inv'
  <2>1. SameTexts /\ UNCHANGED reloads /\ UNCHANGED tabs
    BY <1>3 DEF Begins, SameTexts
  <2>2. /\ TypeOK' /\ Control'
        /\ \A q \in Replaces \ {r} : jobs'[q] = jobs[q]
        /\ jobs'[r].plan = jobs[r].plan
        /\ jobs'[r].hand = IF file[f] = jobs[r].plan[f].stamp /\ file[f].hit THEN {f} ELSE {}
    BY <1>0, <1>3, BeginsStep
  <2>3. HandIsFresh'
    BY <2>1, <2>2 DEF HandIsFresh, SameTexts, Inv
  <2> QED
    BY <2>1, <2>2, <2>3, SameTabsAhead, BetweenKept DEF Inv
<1>4. CASE Writes(r)
  <2>1. TypeOK' /\ Control' /\ SameHands
    BY <1>0, <1>4, WritesStep
  <2>2. PICK f \in jobs[r].hand :
          /\ f \in Notes
          /\ file' = [file EXCEPT ![f] = [jobs[r].plan[f].stamp EXCEPT !.hit = FALSE]]
          /\ file'[f].n = jobs[r].plan[f].stamp.n
    BY <1>0, <1>4, WritesStep
  <2>3. UNCHANGED <<tabs, reloads, bounds, typed>>
    BY <1>4 DEF Writes
  <2>4. \A g \in Notes : file'[g].n = file[g].n
    BY <1>0, <2>2 DEF Inv, HandIsFresh, TypeOK
  <2>5. TabsAreAhead'
    BY <2>3, <2>4 DEF Inv, TabsAreAhead
  <2>6. ReloadsAreBetween'
    <3>1. \A l \in reloads : l.tab \in Notes
      BY <1>0 DEF TypeOK, Reload
    <3> QED
      BY <2>3, <2>4, <3>1 DEF Inv, ReloadsAreBetween
  <2>7. HandIsFresh'
    <3>1. \A q \in Replaces : jobs[q].hand \subseteq Notes
      BY <1>0 DEF TypeOK, Job
    <3> QED
      BY <2>1, <2>4, <3>1 DEF Inv, HandIsFresh, SameHands
  <2> QED
    BY <2>1, <2>5, <2>6, <2>7 DEF Inv
<1> QED
  BY <1>1, <1>2, <1>3, <1>4 DEF Worker

LEMMA PostInv ==
  ASSUME Inv, NEW r \in Replaces, Post(r) \/ Answer(r)
  PROVE  Inv'
<1>0. TypeOK /\ Control /\ tabs \in [Notes -> Tab]
  BY DEF Inv, TypeOK
<1>1. CASE Dropped(r, "counted") \/ Dropped(r, "written")
  <2>1. SameTexts /\ UNCHANGED reloads /\ UNCHANGED tabs
    BY <1>1 DEF Dropped, SameTexts
  <2> QED
    BY <1>0, <1>1, <2>1, DroppedStep, SameTabs, JobStep
<1>2. CASE Held(r, "counted", "countHeld") \/ Held(r, "written", "reportHeld")
  <2>1. SameTexts /\ UNCHANGED reloads /\ UNCHANGED tabs
    BY <1>2 DEF Held, SameTexts
  <2>2. TypeOK' /\ Control' /\ SameHands
    BY <1>0, <1>2, HeldStep DEF HoldingPhases
  <2> QED
    BY <1>0, <2>1, <2>2, SameTabs, JobStep
<1>3. CASE Counted(r)
  <2>1. SameTexts /\ UNCHANGED reloads
    BY <1>3 DEF Counted, SameTexts
  <2> QED
    BY <1>0, <1>3, <2>1, CountedStep, JobStep
<1>4. CASE Written(r)
  <2>1. SameTexts /\ UNCHANGED tabs /\ reloads' = reloads \cup Reloads(r, tabs)
    BY <1>4 DEF Written, SameTexts
  <2>2. TypeOK' /\ Control' /\ SameHands
    BY <1>0, <1>4, WrittenStep
  <2>3. AllAhead(tabs)
    BY DEF Inv, TabsAreAhead, AllAhead
  <2>4. ReloadsAreBetween'
    BY <1>0, <2>1, <2>3, MarkedIsBetween, BetweenKept DEF Inv
  <2> QED
    BY <2>1, <2>2, <2>4, SameTabsAhead, FreshKept DEF Inv
<1>5. CASE AnswerNo(r)
  <2>1. SameTexts /\ UNCHANGED reloads /\ UNCHANGED tabs
    BY <1>5 DEF AnswerNo, SameTexts
  <2> QED
    BY <1>0, <1>5, <2>1, AnswerNoStep, SameTabs, JobStep
<1>6. CASE AnswerYes(r)
  <2>1. SameTexts /\ UNCHANGED reloads
    BY <1>6 DEF AnswerYes, SameTexts
  <2> QED
    BY <1>0, <1>6, <2>1, AnswerYesStep, JobStep
<1> QED
  BY <1>1, <1>2, <1>3, <1>4, <1>5, <1>6 DEF Post, Answer

LEMMA AroundInv == ASSUME Inv, Around PROVE Inv'
<1>0. TypeOK
  BY DEF Inv
<1>1. SameTexts /\ UNCHANGED reloads /\ UNCHANGED tabs
  BY <1>0 DEF Around, OpenModal, CloseModal, Search, SearchWaits, Destroy, Joined, CloseBook, OpenBook,
              SameTexts, TypeOK
<1> QED
  BY <1>0, <1>1, AroundType, AroundStep, SameTabs, JobStep

LEMMA StartInv == ASSUME Inv, StartReplace PROVE Inv'
<1>0. TypeOK /\ Control
  BY DEF Inv
<1>1. SameTexts /\ UNCHANGED reloads /\ UNCHANGED tabs
  BY <1>0 DEF StartReplace, SameTexts, TypeOK
<1> QED
  BY <1>0, <1>1, StartStep, SameTabs, JobStep

-----------------------------------------------------------------------------
(* The theorems.                                                           *)

LEMMA InitInv == Init => Inv
<1> SUFFICES ASSUME Init PROVE Inv
  OBVIOUS
<1>1. TypeOK
  BY InitType
<1>2. /\ \A r \in Replaces : jobs[r] = NoJob
      /\ reloads = {} /\ ~host.replacing /\ host.generation = 0 /\ host.window = "open"
      /\ bounds.texts \in Nat \ {0} /\ bounds.replaces \in Nat
  BY ReplaceAssumption DEF Init
<1>3. Control
  <2>1. OneIsLive /\ NumbersAreOld
    BY <1>2, NoJobFacts DEF OneIsLive, Live, NumbersAreOld
  <2>2. TimerIsRight /\ NoteIsNeverCutOff
    BY <1>2, NoJobFacts DEF TimerIsRight, HeldReloads, Holding, HoldingPhases, NoteIsNeverCutOff
  <2>3. JobsAreSound
    BY <1>2, NoJobIsSound DEF JobsAreSound
  <2> QED
    BY <2>1, <2>2, <2>3 DEF Control
<1>4. TabsAreAhead
  <2>1. ~NoTab.open /\ ~NoTab.dirty
    BY DEF NoTab
  <2> QED
    BY <1>2, <2>1 DEF Init, TabsAreAhead, TabIsAhead
<1>5. ReloadsAreBetween /\ HandIsFresh
  BY <1>2, NoJobFacts DEF ReloadsAreBetween, HandIsFresh
<1> QED
  BY <1>1, <1>3, <1>4, <1>5 DEF Inv

LEMMA NextInv == ASSUME Inv, [Next]_vars PROVE Inv'
<1>1. CASE UNCHANGED vars
  <2>1. TypeOK' /\ TabsAreAhead' /\ ReloadsAreBetween' /\ HandIsFresh'
    BY <1>1 DEF vars, Inv, TypeOK, TabsAreAhead, ReloadsAreBetween, HandIsFresh
  <2>2. Control'
    BY <1>1, ControlKept DEF vars, Inv, SameBounds, HeldReloads
  <2> QED
    BY <2>1, <2>2 DEF Inv
<1>2. ASSUME NEW f \in Tabbed, Editing(f)
      PROVE  Inv'
  BY <1>2, EditingStep, ReplaceAssumption
<1>3. ASSUME NEW f \in Notes, Foreign(f)
      PROVE  Inv'
  BY <1>3, ForeignStep
<1>4. CASE Around
  BY <1>4, AroundInv
<1>5. CASE StartReplace
  BY <1>5, StartInv
<1>6. ASSUME NEW r \in Replaces, Worker(r) \/ Post(r) \/ Answer(r)
      PROVE  Inv'
  BY <1>6, WorkerInv, PostInv
<1>7. ASSUME NEW l \in reloads, ReloadReads(l) \/ ReloadLands(l)
      PROVE  Inv'
  BY <1>7, ReadsStep, LandsStep
<1>8. CASE Timer
  BY <1>8, TimerStep
<1> QED
  BY <1>1, <1>2, <1>3, <1>4, <1>5, <1>6, <1>7, <1>8 DEF Next, Editing, Around

LEMMA ReplaceInvariant == Spec => []Inv
<1>1. Init => Inv
  BY InitInv
<1>2. Inv /\ [Next]_vars => Inv'
  BY NextInv
<1> QED
  BY <1>1, <1>2, PTL DEF Spec

\* Every variable keeps its type.
THEOREM TypeCorrect == Spec => []TypeOK
BY ReplaceInvariant, PTL DEF Inv

\* No reload and no replace brings an open tab back to a text from before what
\* was last typed in it.
THEOREM TypingStays == Spec => []TypedIsShown
<1>1. Inv => TypedIsShown
  BY DEF Inv, TabsAreAhead, TabIsAhead, TypedIsShown
<1> QED
  BY <1>1, ReplaceInvariant, PTL

\* No note that is not open is saved unless a question that said so was
\* answered.
THEOREM SavedAsAgreed == Spec => []SavedOnlyIfAgreed
<1>1. Inv => SavedOnlyIfAgreed
  BY DEF Inv, Control, JobsAreSound, JobIsSound, SavedOnlyIfAgreed
<1> QED
  BY <1>1, ReplaceInvariant, PTL

\* The process ends after every writer.
THEOREM NotesAreWhole == Spec => []NoteIsNeverCutOff
<1>1. Inv => NoteIsNeverCutOff
  BY DEF Inv, Control
<1> QED
  BY <1>1, ReplaceInvariant, PTL

\* What is held has a timer, and "Replacing..." a replace that goes on.
THEOREM NothingHangs == Spec => []ReplaceGoesOn
<1>1. Inv => ReplaceGoesOn
  BY DEF Inv, Control, TimerIsRight, Holding, HoldingPhases, OneIsLive, Live, ReplaceGoesOn
<1> QED
  BY <1>1, ReplaceInvariant, PTL

\* A step by which a note comes into a worker's hand: its notebook is open and
\* the window too.
HandsOpen ==
  \A r \in Replaces : \A f \in jobs'[r].hand \ jobs[r].hand :
    BookOf[f] \in open \ jobs[r].closed /\ host.window = "open"

LEMMA SameHandsOpen == ASSUME SameHands PROVE HandsOpen
BY DEF SameHands, HandsOpen

LEMMA HandsOpenStep == ASSUME Inv, [Next]_vars PROVE HandsOpen
<1>0. TypeOK /\ Control
  BY DEF Inv
<1>1. CASE UNCHANGED jobs
  BY <1>1 DEF HandsOpen
<1>2. CASE Around
  BY <1>2, AroundStep, SameHandsOpen
<1>3. CASE StartReplace
  BY <1>0, <1>3, StartStep, SameHandsOpen
<1>4. ASSUME NEW r \in Replaces, Worker(r)
      PROVE  HandsOpen
  <2>1. CASE CountEnds(r) \/ Writes(r) \/ WriteEnds(r)
    BY <1>0, <2>1, CountStep, WritesStep, WriteEndsStep, SameHandsOpen
  <2>2. ASSUME NEW f \in Notes, Begins(r, f)
        PROVE  HandsOpen
    <3>1. /\ \A q \in Replaces \ {r} : jobs'[q] = jobs[q]
          /\ jobs'[r].hand \subseteq {f}
      BY <1>0, <2>2, BeginsStep
    <3>2. /\ jobs[r].phase = "writing" /\ ~jobs[r].cancel
          /\ f \in jobs[r].left /\ BookOf[f] \notin jobs[r].closed
      BY <2>2 DEF Begins, Left
    <3>3. BookOf[f] \in open \ jobs[r].closed
      BY <1>0, <3>2 DEF Control, JobsAreSound, JobIsSound
    <3>4. host.window = "open"
      BY <1>0, <3>2 DEF Control, OneIsLive, Live
    <3> QED
      BY <3>1, <3>3, <3>4 DEF HandsOpen
  <2> QED
    BY <1>4, <2>1, <2>2 DEF Worker
<1>5. ASSUME NEW r \in Replaces, Post(r) \/ Answer(r)
      PROVE  HandsOpen
  <2>1. CASE Dropped(r, "counted") \/ Dropped(r, "written")
    BY <1>0, <2>1, DroppedStep, SameHandsOpen
  <2>2. CASE Held(r, "counted", "countHeld") \/ Held(r, "written", "reportHeld")
    BY <1>0, <2>2, HeldStep, SameHandsOpen DEF HoldingPhases
  <2>3. CASE Counted(r) \/ Written(r) \/ AnswerNo(r) \/ AnswerYes(r)
    BY <1>0, <2>3, CountedStep, WrittenStep, AnswerNoStep, AnswerYesStep, SameHandsOpen
  <2> QED
    BY <1>5, <2>1, <2>2, <2>3 DEF Post, Answer
<1>6. CASE Timer
  <2>1. ASSUME NEW r \in Replaces, NEW h, NEW ts, Confirmed(r, h, ts)
        PROVE  Ends(r) \/ ToPhase(r, "asking") \/ (~jobs[r].warned /\ Targets(r) # {})
    BY <2>1 DEF Confirmed, Applied
  <2>2. ASSUME NEW r \in Replaces, Ends(r)
        PROVE  HandsOpen
    BY <1>0, <2>2, EndsEffect, SameHandsOpen
  <2>3. ASSUME NEW r \in Replaces, ToPhase(r, "asking")
        PROVE  HandsOpen
    BY <1>0, <2>3, ToPhaseEffect, SameHandsOpen DEF Phases
  <2>4. ASSUME NEW r \in Replaces, ~jobs[r].warned, Targets(r) # {}
        PROVE  FALSE
    BY <2>4 DEF Targets, Target
  <2>5. \/ \E r \in Replaces : Ends(r) \/ Confirmed(r, [host EXCEPT !.timer = FALSE], Reloaded(HeldReloads))
        \/ UNCHANGED jobs
    BY <1>6 DEF Timer
  <2> QED
    BY <1>1, <2>1, <2>2, <2>3, <2>4, <2>5
<1> QED
  BY <1>1, <1>2, <1>3, <1>4, <1>5, <1>6
     DEF Next, vars, Around, OpenTab, CloseTab, Type, Save, CheckTab, Foreign, ReloadReads, ReloadLands

\* No note of a closed notebook is begun, nor any once the window closes.
THEOREM ClosedIsLeft == Spec => ClosedNotebookIsLeft
<1>1. Inv /\ [Next]_vars => [HandsOpen]_vars
  BY HandsOpenStep
<1>2. Spec => [][HandsOpen]_vars
  BY <1>1, ReplaceInvariant, PTL DEF Spec
<1> QED
  BY <1>2 DEF ClosedNotebookIsLeft, HandsOpen

================================================================================
