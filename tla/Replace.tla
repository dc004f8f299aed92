-------------------------------- MODULE Replace --------------------------------
(***************************************************************************)
(* Replace in files: the count, the question, the change of open tabs, the *)
(* worker that writes the notes that are not open, the report and the      *)
(* reload of tabs opened meanwhile, while tabs are edited, other programs  *)
(* write, notebooks and the window close.                                  *)
(* Sources: window/text_search_host.rs, library/text_replace.rs, and       *)
(* replace_in_document and reload_clean_document of                        *)
(* window/main_window/background_documents.rs.                             *)
(*                                                                         *)
(* A text is the number of its writing and whether the query matches it;   *)
(* the text of a file is also the stamp the code takes of it.              *)
(***************************************************************************)
EXTENDS Naturals, FiniteSets

CONSTANTS
  Books,       \* open notebooks
  Notes,       \* their notes
  Tabbed,      \* those a tab may be opened on
  BookOf,      \* the notebook of a note
  MaxTexts,    \* bound: texts written by the user and by other programs
  MaxReplaces, \* bound: replaces started
  MaxModals,   \* bound: other modal loops
  Starts       \* what may be used of the bounds at the start: one instance each

ASSUME ReplaceAssumption ==
  /\ BookOf \in [Notes -> Books]
  /\ Tabbed \subseteq Notes
  /\ MaxTexts \in Nat
  /\ MaxReplaces \in Nat
  /\ MaxModals \in Nat
  /\ Starts \subseteq [texts : Nat \ {0}, replaces : Nat, modals : Nat]

VARIABLES
  file,    \* the notes' files
  tabs,    \* tabs on the notes
  open,    \* notebooks still open
  results, \* what the Search view lists, with the stamps the search took
  host,    \* the window and its part of a replace
  jobs,    \* the replaces: their plans, workers and posts
  reloads, \* tabs being read again
  bounds,  \* how much was used of each bound
  typed    \* history: the last text typed in each tab

vars == <<file, tabs, open, results, host, jobs, reloads, bounds, typed>>

-----------------------------------------------------------------------------
Replaces == 1..MaxReplaces

Text == [n : Nat, hit : BOOLEAN]
NoText == [n |-> 0, hit |-> FALSE]

Tab == [open : BOOLEAN, text : Text, known : Text, dirty : BOOLEAN]
NoTab == [open |-> FALSE, text |-> NoText, known |-> NoText, dirty |-> FALSE]

\* A search result: the stamp of the file it was found in, or none when it was
\* found in a tab.
Hit == [listed : BOOLEAN, stamp : Text]
NoHit == [listed |-> FALSE, stamp |-> NoText]

Phases == {"none", "counting", "counted", "countHeld", "asking", "writing", "written", "reportHeld"}
Job ==
  [phase : Phases, plan : [Notes -> Hit], overlays : SUBSET Notes, single : BOOLEAN,
   matched : BOOLEAN, warned : BOOLEAN, agreed : BOOLEAN,
   left : SUBSET Notes, hand : SUBSET Notes, written : SUBSET Notes,
   cancel : BOOLEAN, closed : SUBSET Books]
NoJob ==
  [phase |-> "none", plan |-> [f \in Notes |-> NoHit], overlays |-> {}, single |-> FALSE,
   matched |-> FALSE, warned |-> FALSE, agreed |-> FALSE,
   left |-> {}, hand |-> {}, written |-> {}, cancel |-> FALSE, closed |-> {}]

\* generation: the replace it is of, 0 once cancelled.
Host ==
  [window : {"open", "joining", "gone"}, generation : 0..MaxReplaces, replacing : BOOLEAN,
   applying : BOOLEAN, modal : BOOLEAN, timer : BOOLEAN]

Reload == [tab : Notes, mark : Tab, text : Text, state : {"reading", "posted", "held"}]

TypeOK ==
  /\ file \in [Notes -> Text]
  /\ tabs \in [Notes -> Tab]
  /\ open \subseteq Books
  /\ results \in [Notes -> Hit]
  /\ host \in Host
  /\ jobs \in [Replaces -> Job]
  /\ reloads \subseteq Reload
  /\ bounds \in [texts : Nat, replaces : Nat, modals : Nat]
  /\ typed \in [Notes -> Nat]

Init ==
  /\ file = [f \in Notes |-> [n |-> 1, hit |-> TRUE]]
  /\ tabs = [f \in Notes |-> NoTab]
  /\ open = Books
  /\ results = [f \in Notes |-> NoHit]
  /\ host = [window |-> "open", generation |-> 0, replacing |-> FALSE,
             applying |-> FALSE, modal |-> FALSE, timer |-> FALSE]
  /\ jobs = [r \in Replaces |-> NoJob]
  /\ reloads = {}
  /\ bounds \in Starts
  /\ typed = [f \in Notes |-> 0]

-----------------------------------------------------------------------------
(* Tabs and other programs.                                                *)

Asking == \E r \in Replaces : jobs[r].phase = "asking"

\* busy: a modal loop runs.
Busy == host.modal \/ Asking

\* The user is at the window, not at a question of it.
Free == host.window = "open" /\ ~Busy

\* "The stamp is checked just before the write, so a change in the moment
\* between the two is not seen": such changes are left out.
InHand(f) == \E r \in Replaces : f \in jobs[r].hand

NewText(t) ==
  /\ bounds.texts < MaxTexts
  /\ bounds' = [bounds EXCEPT !.texts = @ + 1]
  /\ t.n = bounds.texts + 1

OpenTab(f) ==
  /\ Free
  /\ ~tabs[f].open
  /\ tabs' = [tabs EXCEPT ![f] = [open |-> TRUE, text |-> file[f], known |-> file[f], dirty |-> FALSE]]
  /\ UNCHANGED <<file, open, results, host, jobs, reloads, bounds, typed>>

\* A reload on its way names a tab that is no more.
CloseTab(f) ==
  /\ Free
  /\ tabs[f].open
  /\ tabs' = [tabs EXCEPT ![f] = NoTab]
  /\ reloads' = {l \in reloads : l.tab # f}
  /\ typed' = [typed EXCEPT ![f] = 0]
  /\ UNCHANGED <<file, open, results, host, jobs, bounds>>

Type(f) ==
  /\ Free
  /\ tabs[f].open
  /\ LET t == [n |-> bounds.texts + 1, hit |-> TRUE]
     IN  /\ NewText(t)
         /\ tabs' = [tabs EXCEPT ![f] = [@ EXCEPT !.text = t, !.dirty = TRUE]]
         /\ typed' = [typed EXCEPT ![f] = t.n]
  /\ UNCHANGED <<file, open, results, host, jobs, reloads>>

\* A save, or an autosave: a file changed since the tab read it is not written.
Save(f) ==
  /\ Free
  /\ tabs[f].dirty
  /\ tabs[f].known = file[f]
  /\ ~InHand(f)
  /\ file' = [file EXCEPT ![f] = tabs[f].text]
  /\ tabs' = [tabs EXCEPT ![f] = [@ EXCEPT !.known = tabs[f].text, !.dirty = FALSE]]
  /\ UNCHANGED <<open, results, host, jobs, reloads, bounds, typed>>

\* check_tab: a clean tab takes in its file.
CheckTab(f) ==
  /\ Free
  /\ tabs[f].open
  /\ ~tabs[f].dirty
  /\ tabs[f].known # file[f]
  /\ tabs' = [tabs EXCEPT ![f] = [@ EXCEPT !.text = file[f], !.known = file[f]]]
  /\ UNCHANGED <<file, open, results, host, jobs, reloads, bounds, typed>>

Foreign(f) ==
  /\ ~InHand(f)
  /\ \E hit \in BOOLEAN :
       LET t == [n |-> bounds.texts + 1, hit |-> hit]
       IN  NewText(t) /\ file' = [file EXCEPT ![f] = t]
  /\ UNCHANGED <<tabs, open, results, host, jobs, reloads, typed>>

OpenModal ==
  /\ Free
  /\ bounds.modals < MaxModals
  /\ host' = [host EXCEPT !.modal = TRUE]
  /\ bounds' = [bounds EXCEPT !.modals = @ + 1]
  /\ UNCHANGED <<file, tabs, open, results, jobs, reloads, typed>>

CloseModal ==
  /\ host.modal
  /\ host' = [host EXCEPT !.modal = FALSE]
  /\ UNCHANGED <<file, tabs, open, results, jobs, reloads, bounds, typed>>

-----------------------------------------------------------------------------
(* What a replace is dropped by.                                           *)

HeldReloads == {l \in reloads : l.state = "held"}

\* finish_replace
Finished(h) == [h EXCEPT !.replacing = FALSE, !.applying = FALSE]

\* Mutant: the timer goes, whatever is held.
TimerKilled == FALSE

\* Held reloads are kept, and the timer with them.
TimerLeft == host.timer /\ HeldReloads # {}

\* Mutant: a cancelled replace is not finished.
CancelledHalf(h) == [h EXCEPT !.generation = 0, !.timer = TimerLeft]

\* cancel_replace
Cancelled(h) == [Finished(h) EXCEPT !.generation = 0, !.timer = TimerLeft]

\* The flag of the replace in hand, and what is held of it.
CancelledJobs ==
  [r \in Replaces |->
     IF r # host.generation \/ ~host.replacing THEN jobs[r]
     ELSE IF jobs[r].phase \in {"countHeld", "reportHeld"} THEN NoJob
     ELSE [jobs[r] EXCEPT !.cancel = TRUE]]

\* drop_pending_replace
Pending == host.replacing /\ ~host.applying

Found(f) ==
  LET overlay == tabs[f].open /\ tabs[f].dirty
  IN  IF BookOf[f] \notin open \/ ~(IF overlay THEN tabs[f].text ELSE file[f]).hit THEN NoHit
      ELSE [listed |-> TRUE, stamp |-> IF overlay THEN NoText ELSE file[f]]

\* A search runs: it drops a replace that did not pass its question.
Search ==
  /\ Free
  /\ results' = [f \in Notes |-> Found(f)]
  /\ host' = IF Pending THEN Cancelled(host) ELSE host
  /\ jobs' = IF Pending THEN CancelledJobs ELSE jobs
  /\ UNCHANGED <<file, tabs, open, reloads, bounds, typed>>

\* A search asked for inside a modal loop waits, and drops the replace at once.
SearchWaits ==
  /\ host.window = "open"
  /\ Busy
  /\ Pending
  /\ host' = Cancelled(host)
  /\ jobs' = CancelledJobs
  /\ UNCHANGED <<file, tabs, open, results, reloads, bounds, typed>>

Over(r) == jobs[r].phase = "none"

\* Mutant: the parts of a write are not told that their notebook closed.
ClosedUntold(b) ==
  [r \in Replaces |-> IF Over(r) \/ host.applying THEN jobs[r] ELSE [jobs[r] EXCEPT !.closed = @ \cup {b}]]

\* stop_closed_parts.  Opened again, the notebook is another one.
Closed(b) ==
  [r \in Replaces |-> IF Over(r) THEN jobs[r] ELSE [jobs[r] EXCEPT !.closed = @ \cup {b}]]

\* A notebook closes: with the last one the search and the replace are forgotten.
CloseBook(b) ==
  /\ Free
  /\ b \in open
  /\ open' = open \ {b}
  /\ results' = [f \in Notes |-> IF BookOf[f] = b THEN NoHit ELSE results[f]]
  /\ host' = IF open = {b} THEN Cancelled(host) ELSE host
  /\ jobs' = IF open = {b} THEN CancelledJobs ELSE Closed(b)
  /\ UNCHANGED <<file, tabs, reloads, bounds, typed>>

OpenBook(b) ==
  /\ Free
  /\ b \notin open
  /\ open' = open \cup {b}
  /\ UNCHANGED <<file, tabs, results, host, jobs, reloads, bounds, typed>>

-----------------------------------------------------------------------------
(* The count and the question.                                             *)

\* start_replace and prepare: for all results, or one row.
StartReplace ==
  /\ Free
  /\ ~host.replacing
  /\ bounds.replaces < MaxReplaces
  /\ LET r == bounds.replaces + 1
         listed == {f \in Notes : results[f].listed}
     IN  \E single \in BOOLEAN, which \in SUBSET listed :
           /\ IF single THEN Cardinality(which) = 1 ELSE which = listed
           /\ which # {}
           /\ LET overlays == {f \in which : tabs[f].open}
                  \* Found in a tab that closed since: never read.
                  read == {f \in which : results[f].stamp # NoText \/ f \in overlays}
              IN  jobs' = [jobs EXCEPT ![r] =
                    [NoJob EXCEPT !.phase = "counting",
                                  !.plan = [f \in Notes |-> IF f \in read THEN results[f] ELSE NoHit],
                                  !.overlays = overlays,
                                  !.matched = \E f \in overlays : tabs[f].text.hit,
                                  !.single = single]]
           /\ host' = [host EXCEPT !.generation = r, !.replacing = TRUE]
           /\ bounds' = [bounds EXCEPT !.replaces = r]
  /\ UNCHANGED <<file, tabs, open, results, reloads, typed>>

\* spawn_count: the texts of the tabs were taken at the start, the files are
\* read now.
CountEnds(r) ==
  /\ jobs[r].phase = "counting"
  /\ LET onDisk == \E f \in Notes \ jobs[r].overlays : jobs[r].plan[f].listed /\ file[f].hit
     IN  jobs' = [jobs EXCEPT ![r] =
           IF jobs[r].cancel THEN NoJob
           ELSE [jobs[r] EXCEPT !.phase = "counted", !.warned = onDisk, !.matched = jobs[r].matched \/ onDisk]]
  /\ UNCHANGED <<file, tabs, open, results, host, reloads, bounds, typed>>

\* Nothing is left of a replace.
Ends(r) == jobs' = [jobs EXCEPT ![r] = NoJob]

ToPhase(r, phase) == jobs' = [jobs EXCEPT ![r].phase = phase]

\* A post of another generation is dropped, one inside a modal loop held.
Dropped(r, phase) ==
  /\ host.window = "open"
  /\ jobs[r].phase = phase
  /\ host.generation # r
  /\ Ends(r)
  /\ UNCHANGED <<file, tabs, open, results, host, reloads, bounds, typed>>

Held(r, phase, held) ==
  /\ host.window = "open"
  /\ jobs[r].phase = phase
  /\ host.generation = r
  /\ Busy
  /\ ToPhase(r, held)
  /\ host' = [host EXCEPT !.timer = TRUE]
  /\ UNCHANGED <<file, tabs, open, results, reloads, bounds, typed>>

\* Mutant: a note that is not open is written whatever the question said.
AllOf(r, f) == jobs[r].plan[f].stamp # NoText

\* Which of the notes that are not open the worker writes.
Target(r, f) == jobs[r].warned /\ jobs[r].plan[f].stamp # NoText

\* A notebook of the plan that closed since is skipped.
Planned(r, f) == jobs[r].plan[f].listed /\ BookOf[f] \in open \ jobs[r].closed

Targets(r) == {f \in Notes : Planned(r, f) /\ ~tabs[f].open /\ Target(r, f)}

\* replace_in_document: as one edit, not saved.
ReplacedIn(tab) ==
  IF tab.open /\ tab.text.hit THEN [tab EXCEPT !.text.hit = FALSE, !.dirty = TRUE] ELSE tab

\* apply_plan, and the report at once when no file is to be written.
Applied(r, h, ts, answer) ==
  /\ tabs' = [f \in Notes |-> IF Planned(r, f) THEN ReplacedIn(ts[f]) ELSE ts[f]]
  /\ IF Targets(r) = {}
     THEN Ends(r) /\ host' = Finished(h)
     ELSE /\ jobs' = [jobs EXCEPT ![r] = [@ EXCEPT !.phase = "writing", !.left = Targets(r), !.agreed = answer]]
          /\ host' = [h EXCEPT !.applying = TRUE]

\* confirm_and_apply up to its question: asked for all results, and for a row
\* whose note's file matched.
Confirmed(r, h, ts) ==
  \/ /\ ~jobs[r].matched
     /\ Ends(r)
     /\ host' = Finished(h)
     /\ tabs' = ts
  \/ /\ jobs[r].matched
     /\ ~jobs[r].single \/ jobs[r].warned
     /\ ToPhase(r, "asking")
     /\ host' = h
     /\ tabs' = ts
  \/ /\ jobs[r].matched
     /\ jobs[r].single
     /\ ~jobs[r].warned
     /\ Applied(r, h, ts, FALSE)

\* replace_counted
Counted(r) ==
  /\ Free
  /\ jobs[r].phase = "counted"
  /\ host.generation = r
  /\ Confirmed(r, host, tabs)
  /\ UNCHANGED <<file, open, results, reloads, bounds, typed>>

AnswerNo(r) ==
  /\ jobs[r].phase = "asking"
  /\ Ends(r)
  /\ host' = IF host.generation = r THEN Finished(host) ELSE host
  /\ UNCHANGED <<file, tabs, open, results, reloads, bounds, typed>>

AnswerYes(r) ==
  /\ jobs[r].phase = "asking"
  /\ IF host.generation = r
     THEN Applied(r, host, tabs, jobs[r].warned)
     ELSE Ends(r) /\ UNCHANGED <<tabs, host>>
  /\ UNCHANGED <<file, open, results, reloads, bounds, typed>>

-----------------------------------------------------------------------------
(* The worker that writes.                                                 *)

Left(r) == {f \in jobs[r].left : BookOf[f] \notin jobs[r].closed}

\* replace_note up to its save: the note is as the search read it, and matches.
Begins(r, f) ==
  /\ jobs[r].phase = "writing"
  /\ jobs[r].hand = {}
  /\ ~jobs[r].cancel
  /\ f \in Left(r)
  /\ LET unchanged == file[f] = jobs[r].plan[f].stamp
     IN  jobs' = [jobs EXCEPT ![r] = [jobs[r] EXCEPT !.left = jobs[r].left \ {f},
                                                     !.hand = IF unchanged /\ file[f].hit THEN {f} ELSE {}]]
  /\ UNCHANGED <<file, tabs, open, results, host, reloads, bounds, typed>>

\* Its save, of the text it read.
Writes(r) ==
  /\ \E f \in jobs[r].hand :
       /\ file' = [file EXCEPT ![f] = [jobs[r].plan[f].stamp EXCEPT !.hit = FALSE]]
       /\ jobs' = [jobs EXCEPT ![r] = [jobs[r] EXCEPT !.hand = {}, !.written = jobs[r].written \cup {f}]]
  /\ UNCHANGED <<tabs, open, results, host, reloads, bounds, typed>>

WriteEnds(r) ==
  /\ jobs[r].phase = "writing"
  /\ jobs[r].hand = {}
  /\ Left(r) = {} \/ jobs[r].cancel
  /\ IF jobs[r].cancel THEN Ends(r) ELSE ToPhase(r, "written")
  /\ UNCHANGED <<file, tabs, open, results, host, reloads, bounds, typed>>

-----------------------------------------------------------------------------
(* The report and the reloads.                                             *)

\* clean_tabs_on: with the text generation and the stamp of each now.
Reloads(r, ts) ==
  {[tab |-> f, mark |-> ts[f], text |-> NoText, state |-> "reading"] :
     f \in {g \in jobs[r].written : BookOf[g] \notin jobs[r].closed /\ ts[g].open /\ ~ts[g].dirty}}

\* replace_written, report_written
Written(r) ==
  /\ Free
  /\ jobs[r].phase = "written"
  /\ host.generation = r
  /\ Ends(r)
  /\ host' = Finished(host)
  /\ reloads' = reloads \cup Reloads(r, tabs)
  /\ UNCHANGED <<file, tabs, open, results, bounds, typed>>

\* spawn_reload
ReloadReads(l) ==
  /\ l \in reloads
  /\ l.state = "reading"
  /\ reloads' = (reloads \ {l}) \cup {[l EXCEPT !.text = file[l.tab], !.state = "posted"]}
  /\ UNCHANGED <<file, tabs, open, results, host, jobs, bounds, typed>>

\* Mutant: any tab that is clean now is reloaded.
StillClean(l, tab) == tab.open /\ ~tab.dirty

\* reload_clean_document: only a tab not edited and not saved since.
StillAsMarked(l, tab) == tab = l.mark

Reloaded(loaded) ==
  [f \in Notes |->
     LET landing == {l \in loaded : l.tab = f /\ StillAsMarked(l, tabs[f])}
     IN  IF landing = {} THEN tabs[f]
         ELSE LET t == (CHOOSE l \in landing : TRUE).text
              IN  [tabs[f] EXCEPT !.text = t, !.known = t]]

ReloadLands(l) ==
  /\ host.window = "open"
  /\ l \in reloads
  /\ l.state = "posted"
  /\ IF Busy
     THEN /\ reloads' = (reloads \ {l}) \cup {[l EXCEPT !.state = "held"]}
          /\ host' = [host EXCEPT !.timer = TRUE]
          /\ UNCHANGED tabs
     ELSE /\ reloads' = reloads \ {l}
          /\ tabs' = Reloaded({l})
          /\ UNCHANGED host
  /\ UNCHANGED <<file, open, results, jobs, bounds, typed>>

\* replace_timer: the reloads, then a report or a count.
Timer ==
  /\ Free
  /\ host.timer
  /\ LET h == [host EXCEPT !.timer = FALSE]
         ts == Reloaded(HeldReloads)
         rest == reloads \ HeldReloads
         In(phase) == {r \in Replaces : jobs[r].phase = phase}
     IN  \/ /\ \E r \in In("countHeld") : Confirmed(r, h, ts)
            /\ reloads' = rest
         \/ /\ \E r \in In("reportHeld") : Ends(r) /\ reloads' = rest \cup Reloads(r, ts)
            /\ host' = Finished(h)
            /\ tabs' = ts
         \/ /\ In("countHeld") \cup In("reportHeld") = {}
            /\ host' = h
            /\ tabs' = ts
            /\ reloads' = rest
            /\ UNCHANGED jobs
  /\ UNCHANGED <<file, open, results, bounds, typed>>

-----------------------------------------------------------------------------
(* The window closes.                                                      *)

\* WM_DESTROY: cancel_replace, then join_writers.
Destroy ==
  /\ Free
  /\ host' = [Cancelled(host) EXCEPT !.window = "joining"]
  /\ jobs' = CancelledJobs
  /\ UNCHANGED <<file, tabs, open, results, reloads, bounds, typed>>

\* Mutant: only the writer of the replace in hand is waited for.
CurrentWriter == {r \in Replaces : r = host.generation /\ jobs[r].phase = "writing"}

\* Every writer not known to have ended.
Writers == {r \in Replaces : jobs[r].phase = "writing"}

Joined ==
  /\ host.window = "joining"
  /\ Writers = {}
  /\ host' = [host EXCEPT !.window = "gone"]
  /\ UNCHANGED <<file, tabs, open, results, jobs, reloads, bounds, typed>>

-----------------------------------------------------------------------------
Worker(r) == CountEnds(r) \/ (\E f \in Notes : Begins(r, f)) \/ Writes(r) \/ WriteEnds(r)

Post(r) ==
  \/ Dropped(r, "counted") \/ Held(r, "counted", "countHeld") \/ Counted(r)
  \/ Dropped(r, "written") \/ Held(r, "written", "reportHeld") \/ Written(r)

Answer(r) == AnswerNo(r) \/ AnswerYes(r)

Next ==
  \/ \E f \in Tabbed : OpenTab(f) \/ CloseTab(f) \/ Type(f) \/ Save(f) \/ CheckTab(f)
  \/ \E f \in Notes : Foreign(f)
  \/ OpenModal \/ CloseModal
  \/ Search \/ SearchWaits
  \/ \E b \in Books : CloseBook(b) \/ OpenBook(b)
  \/ StartReplace
  \/ \E r \in Replaces : Worker(r) \/ Post(r) \/ Answer(r)
  \/ \E l \in reloads : ReloadReads(l) \/ ReloadLands(l)
  \/ Timer
  \/ Destroy \/ Joined

Spec == Init /\ [][Next]_vars

-----------------------------------------------------------------------------
(* Properties.                                                             *)

\* A tab never goes back to a text from before what was last typed in it: not
\* by a reload whose file was read before the typing, nor before its save.
TypedIsShown == \A f \in Notes : tabs[f].open => tabs[f].text.n >= typed[f]

\* A note that is not open is written only when a question was answered that
\* said notes are saved, whichever tabs closed since the count.
SavedOnlyIfAgreed == \A r \in Replaces : jobs[r].phase = "writing" => jobs[r].agreed

\* No note is begun in a notebook that closed, nor once the window closes.
ClosedNotebookIsLeft ==
  [][\A r \in Replaces : \A f \in jobs'[r].hand \ jobs[r].hand :
       BookOf[f] \in open \ jobs[r].closed /\ host.window = "open"]_vars

\* "closing never leaves a note half written": the process does not end before
\* every writer has, those of cancelled replaces too.
NoteIsNeverCutOff == host.window = "gone" => \A r \in Replaces : jobs[r].hand = {}

\* No replace hangs: what is held while a modal loop runs has a timer that will
\* look at it again, and "Replacing...", under which no result opens and no
\* replace starts, is of one still counted, asked about or written.
ReplaceGoesOn ==
  /\ HeldReloads # {} \/ (\E r \in Replaces : jobs[r].phase \in {"countHeld", "reportHeld"})
       => host.timer
  /\ host.replacing => /\ host.generation \in Replaces
                       /\ jobs[host.generation].phase # "none" /\ ~jobs[host.generation].cancel

================================================================================
