------------------------------- MODULE TabGroups -------------------------------
(***************************************************************************)
(* The open documents, the groups of tabs that show them, the layout of    *)
(* the groups and what each group's editor holds: files opened, previews   *)
(* replaced, tabs moved, copied and closed, groups split and removed, and  *)
(* the questions asked before unsaved text goes.                           *)
(* Sources: window/tabs.rs, window/document_store.rs, and document_tabs.rs,*)
(* split_groups.rs, group_layout.rs, opening.rs and saving.rs of           *)
(* window/main_window.                                                     *)
(***************************************************************************)
EXTENDS Naturals, Sequences, FiniteSets, SequencesExt

CONSTANTS
  Docs,      \* identities of documents; free ones are given again
  Paths,     \* files that can be opened
  Images,    \* those opened in an image tab
  Nil,       \* no document, or no path
  Edges,     \* edges of a group a tab is dropped on
  Layouts,        \* the layouts of groups: one group, or rows and columns of them
  LeavesOf(_),    \* the groups of a layout, in the order it shows them
  OneGroup(_),    \* the layout of one group
  SplitAt(_, _, _, _),  \* a layout with a new group beside one of its groups
  WithoutGroup(_, _),   \* a layout that has lost a group
  Rooms,     \* bounds: documents open at a time, groups made, files; one instance each
  MaxViews   \* bound: tabs at a time

ASSUME TabGroupsAssumption ==
  /\ Images \subseteq Paths
  /\ Nil \notin Docs \cup Paths
  /\ Rooms \subseteq [docs : Nat, groups : Nat \ {0}, paths : SUBSET Paths]
  /\ MaxViews \in Nat \ {0}

\* The sides a group is split on, by a command or by a drop.
Directions == {"right", "down"} \cup Edges

Ids == UNION {1..bounds.groups : bounds \in Rooms}

\* A split adds the new group and a removal takes the one asked for, wherever
\* they are in the rows and columns.
ASSUME LayoutAssumption ==
  /\ \A g \in Ids : OneGroup(g) \in Layouts /\ LeavesOf(OneGroup(g)) = <<g>>
  /\ \A layout \in Layouts : LeavesOf(layout) \in Seq(Ids) /\ IsInjective(LeavesOf(layout))
  /\ \A layout \in Layouts : \A g \in Range(LeavesOf(layout)) :
       /\ \A direction \in Directions, new \in Ids \ Range(LeavesOf(layout)) :
            LET split == SplitAt(layout, g, direction, new)
            IN split \in Layouts /\ Range(LeavesOf(split)) = Range(LeavesOf(layout)) \cup {new}
       /\ Range(LeavesOf(layout)) # {g} =>
            LET left == WithoutGroup(layout, g)
            IN left \in Layouts /\ Range(LeavesOf(left)) = Range(LeavesOf(layout)) \ {g}

VARIABLES
  win,  \* the documents, the groups and their layout
  ask,  \* the question being asked, and what it is part of
  room  \* the bounds of this instance

windowVars == <<win, ask, room>>

-----------------------------------------------------------------------------
Doc == [open : BOOLEAN, path : Paths \cup {Nil}, dirty : BOOLEAN, preview : BOOLEAN]
NoDoc == [open |-> FALSE, path |-> Nil, dirty |-> FALSE, preview |-> FALSE]

\* A strip of tabs and which is selected.
Strip == [tabs : Seq(Docs), sel : Nat]
NoTabs == [tabs |-> <<>>, sel |-> 1]

\* strip: the groups, a later one with a greater number.
\* recent: every view, the most recently activated first.
\* shown: the document each group's editor holds; none for an image.
Groups(s) == DOMAIN s.strip
Views == Ids \X Docs

Window(groups) ==
  [docs : [Docs -> Doc], strip : [groups -> Strip], active : groups, recent : Seq(Views),
   tree : Layouts, shown : [groups -> Docs \cup {Nil}], made : Nat]

\* kind: "close" and "exit" wait for the user's answer; "delete" and "autosave"
\* are at work, and nothing else runs meanwhile; "gone": the window is closed.
\* doc: what is asked about, or is being deleted; the tab autosave comes back to.
\* changed: the document has another generation than the question's.
\* reviewed: the documents the exit has an answer for, at their generation.
\* left: the notes autosave has still to visit.
\* group: the one whose tabs are being closed one by one, or the one a deletion
\* comes back to.
Ask ==
  [kind : {"none", "close", "exit", "delete", "autosave", "gone"}, doc : Docs \cup {Nil},
   changed : BOOLEAN, reviewed : SUBSET Docs, left : SUBSET Docs, group : {0} \cup Ids]
NoAsk ==
  [kind |-> "none", doc |-> Nil, changed |-> FALSE, reviewed |-> {}, left |-> {}, group |-> 0]

\* Every part keeps its kind, and a group that has tabs selects one of them.
WindowTypeOK ==
  /\ Groups(win) \subseteq Ids
  /\ win \in Window(Groups(win))
  /\ \A g \in Groups(win) :
       win.strip[g].sel \in DOMAIN win.strip[g].tabs \/ win.strip[g] = NoTabs
  /\ ask \in Ask
  /\ room \in Rooms
  /\ ask.kind \in {"close", "exit", "delete"} => ask.doc # Nil

WindowInit ==
  /\ win = [docs |-> [d \in Docs |-> NoDoc], strip |-> [g \in {1} |-> NoTabs], active |-> 1,
            recent |-> <<>>, tree |-> OneGroup(1), shown |-> [g \in {1} |-> Nil], made |-> 1]
  /\ ask = NoAsk
  /\ room \in Rooms

-----------------------------------------------------------------------------
(* Tabs: the operations on the documents and the strips.                   *)

Least(m, n) == IF m < n THEN m ELSE n
IndexOf(d, tabs) == CHOOSE i \in DOMAIN tabs : tabs[i] = d

Selected(s, g) == IF s.strip[g].tabs = <<>> THEN Nil ELSE s.strip[g].tabs[s.strip[g].sel]
InGroup(s, g, d) == d \in Range(s.strip[g].tabs)
ViewsOf(s, d) == {g \in Groups(s) : InGroup(s, g, d)}
AllViews(s) == {v \in Groups(s) \X Docs : InGroup(s, v[1], v[2])}
Shared(s, d) == \E g, h \in ViewsOf(s, d) : g # h

\* A view is in `recent` once.
Without(recent, v) == IF v \in Range(recent) THEN RemoveAt(recent, IndexOf(v, recent)) ELSE recent
Forgotten(s, g, d) == [s EXCEPT !.recent = Without(@, <<g, d>>)]
Touched(s, g, d) == [Forgotten(s, g, d) EXCEPT !.recent = <<<<g, d>>>> \o @]

SelectAfterRemoval(tabs, removed) == IF tabs = <<>> THEN 1 ELSE Least(removed, Len(tabs))

\* Mutant: a preview moved to a group keeps the preview that is there.
ViewAddedAsIs(s, g, d, at) ==
  LET strip == s.strip[g]
      index == Least(at, Len(strip.tabs) + 1)
      placed == IF InGroup(s, g, d)
                THEN [strip EXCEPT !.sel = IndexOf(d, strip.tabs)]
                ELSE [tabs |-> InsertAt(strip.tabs, index, d), sel |-> index]
      t == Touched([s EXCEPT !.strip[g] = placed], g, d)
  IN IF Shared(t, d) THEN [t EXCEPT !.docs[d].preview = FALSE] ELSE t

\* The view goes in at strip place `at`, or is selected where it is.
ViewAdded(s, g, d, at) ==
  LET strip == s.strip[g]
      index == Least(at, Len(strip.tabs) + 1)
      placed == IF InGroup(s, g, d)
                THEN [strip EXCEPT !.sel = IndexOf(d, strip.tabs)]
                ELSE [tabs |-> InsertAt(strip.tabs, index, d), sel |-> index]
      otherPreview == \E e \in Range(strip.tabs) \ {d} : s.docs[e].preview
      t == Touched([s EXCEPT !.strip[g] = placed], g, d)
  IN IF Shared(t, d) \/ otherPreview
     THEN [t EXCEPT !.docs[d].preview = FALSE]
     ELSE t

\* Mutant: the moved view stays in the order it was used.
ViewMovedRemembered(s, from, d, to, at) ==
  LET strip == s.strip[from]
      p == IndexOf(d, strip.tabs)
      left == RemoveAt(strip.tabs, p)
      sel == IF p < strip.sel THEN strip.sel - 1 ELSE SelectAfterRemoval(left, p)
  IN ViewAdded([s EXCEPT !.strip[from] = [tabs |-> left, sel |-> sel]], to, d, at)

\* "When `to` already shows `id`, its view is selected and the moved one is dropped."
ViewMoved(s, from, d, to, at) ==
  LET strip == s.strip[from]
      p == IndexOf(d, strip.tabs)
      left == RemoveAt(strip.tabs, p)
      sel == IF p < strip.sel THEN strip.sel - 1 ELSE SelectAfterRemoval(left, p)
  IN ViewAdded(Forgotten([s EXCEPT !.strip[from] = [tabs |-> left, sel |-> sel]], from, d), to, d, at)

Reordered(s, g, from, to) ==
  LET strip == s.strip[g]
      tabs == InsertAt(RemoveAt(strip.tabs, from), to, strip.tabs[from])
  IN [s EXCEPT !.strip[g] = [tabs |-> tabs, sel |-> IndexOf(Selected(s, g), tabs)]]

\* Mutant: a document that another group still shows goes with this view.
TabRemovedWhole(s, g, d) ==
  LET p == IndexOf(d, s.strip[g].tabs)
      left == RemoveAt(s.strip[g].tabs, p)
      t == Forgotten([s EXCEPT !.strip[g] = [tabs |-> left, sel |-> SelectAfterRemoval(left, p)]], g, d)
  IN [t EXCEPT !.docs[d] = NoDoc]

\* A document leaves the store with its last view.
TabRemoved(s, g, d) ==
  LET p == IndexOf(d, s.strip[g].tabs)
      left == RemoveAt(s.strip[g].tabs, p)
      selected == s.strip[g].sel
      sel == IF p = selected THEN SelectAfterRemoval(left, p)
             ELSE IF p < selected THEN selected - 1 ELSE selected
      t == Forgotten([s EXCEPT !.strip[g] = [tabs |-> left, sel |-> sel]], g, d)
  IN IF ViewsOf(t, d) = {} THEN [t EXCEPT !.docs[d] = NoDoc] ELSE t

Pushed(s, d, doc) ==
  LET g == s.active
      tabs == Append(s.strip[g].tabs, d)
  IN Touched([s EXCEPT !.docs[d] = doc, !.strip[g] = [tabs |-> tabs, sel |-> Len(tabs)]], g, d)

\* The document takes the place of another in the active group, whose number
\* the code gives it in an untitled tab.
Replaced(s, old, d, doc) ==
  LET g == s.active
      p == IndexOf(old, s.strip[g].tabs)
  IN Touched(Forgotten([s EXCEPT !.docs[old] = NoDoc, !.docs[d] = doc,
                                 !.strip[g] = [tabs |-> ReplaceAt(@.tabs, p, d), sel |-> p]], g, old), g, d)

Preview(s, g) == {d \in Range(s.strip[g].tabs) : s.docs[d].preview}

\* A preview that has edits or is shown elsewhere becomes a normal tab instead.
PreviewReplaced(s, d, doc) ==
  LET previews == Preview(s, s.active)
      old == CHOOSE old \in previews : TRUE
  IN IF previews = {} THEN Pushed(s, d, doc)
     ELSE IF ~Shared(s, old) /\ ~s.docs[old].dirty THEN Replaced(s, old, d, doc)
     ELSE Pushed([s EXCEPT !.docs[old].preview = FALSE], d, doc)

ActivatedGroup(s, g) ==
  IF g \notin Groups(s) \/ g = s.active THEN s
  ELSE LET t == [s EXCEPT !.active = g]
       IN IF Selected(t, g) = Nil THEN t ELSE Touched(t, g, Selected(t, g))

-----------------------------------------------------------------------------
(* The window's part.                                                      *)

IsImage(s, d) == s.docs[d].path \in Images
Holds(s, d) == IF d = Nil \/ IsImage(s, d) THEN Nil ELSE d

\* show_group_view: the group's editor takes the document of its selected tab.
Shown(s, g) == IF g \in Groups(s) THEN [s EXCEPT !.shown[g] = Holds(s, Selected(s, g))] ELSE s

\* A note of a notebook is saved before its tab is left; a failed or paused
\* save leaves it dirty.
Autosaved(s, saves) ==
  LET d == Selected(s, s.active)
  IN IF saves /\ d # Nil /\ s.docs[d].path # Nil
     THEN [s EXCEPT !.docs[d].dirty = FALSE] ELSE s

Removable(s, g) == g \in Groups(s) /\ Groups(s) # {g} /\ s.strip[g] = NoTabs

\* Mutant: the closed group keeps its place in the layout.
EmptyRemovedLeafKept(s, g) ==
  IF ~Removable(s, g) THEN s
  ELSE LET order == LeavesOf(s.tree)
           i == IndexOf(g, order)
           t == ActivatedGroup(s, IF i < Len(order) THEN order[i + 1] ELSE order[i - 1])
           rest == Groups(s) \ {g}
       IN [t EXCEPT !.strip = Restrict(@, rest), !.shown = Restrict(@, rest)]

\* remove_empty_group: the next group of the layout becomes active, else the
\* one before.
EmptyRemoved(s, g) ==
  IF ~Removable(s, g) THEN s
  ELSE LET order == LeavesOf(s.tree)
           i == IndexOf(g, order)
           t == ActivatedGroup(s, IF i < Len(order) THEN order[i + 1] ELSE order[i - 1])
           rest == Groups(s) \ {g}
       IN [t EXCEPT !.tree = WithoutGroup(@, g), !.strip = Restrict(@, rest), !.shown = Restrict(@, rest)]

\* Whether the autosaves of a command save: either where there is a note with edits.
Saves == {b \in BOOLEAN : b => \E d \in Docs : win.docs[d].dirty /\ win.docs[d].path # Nil}

HasRoom(s) == s.made < room.groups

AndOf(f, new, x) == [g \in DOMAIN f \cup {new} |-> IF g = new THEN x ELSE f[g]]

\* split_group: an empty group beside the target.
SplitOff(s, target, direction) ==
  LET new == s.made + 1
  IN [s EXCEPT !.made = new, !.tree = SplitAt(@, target, direction, new),
               !.strip = AndOf(@, new, NoTabs), !.shown = AndOf(@, new, Nil)]

\* A new group, active, with a view of the active document.
SplitWithView(s, target, direction) ==
  LET d == Selected(s, s.active)
      new == s.made + 1
      t == SplitOff(s, target, direction)
      u == IF d = Nil THEN t ELSE ViewAdded(t, new, d, 1)
  IN Shown(ActivatedGroup(u, new), new)

\* Mutant: the group a tab left keeps showing it.
PlacedWithoutSource(s, from, d, to, at, copy) ==
  LET t == IF copy THEN ViewAdded(s, to, d, at) ELSE ViewMoved(s, from, d, to, at)
  IN EmptyRemoved(Shown(ActivatedGroup(t, to), to), from)

\* place_view: its group closes when that was its last tab.
Placed(s, from, d, to, at, copy) ==
  LET t == IF copy THEN ViewAdded(s, to, d, at) ELSE ViewMoved(s, from, d, to, at)
  IN EmptyRemoved(Shown(Shown(ActivatedGroup(t, to), from), to), from)

ActivatedIn(s, g, d, saves) ==
  LET leaving == Selected(s, g) # d
      t == IF leaving /\ s.active = g THEN Autosaved(s, saves) ELSE s
  IN Shown(Touched([t EXCEPT !.strip[g].sel = IndexOf(d, t.strip[g].tabs)], g, d), g)

ViewFocused(s, g, d, saves) ==
  LET t == ActivatedGroup(s, g)
  IN IF Selected(t, g) = d THEN t ELSE ActivatedIn(t, g, d, saves)

\* activate_document_by_id: its view in the active group, else in the first
\* group of the layout that has one.
GroupOf(s, d) ==
  IF InGroup(s, s.active, d) THEN s.active
  ELSE LET order == LeavesOf(s.tree)
       IN order[CHOOSE i \in DOMAIN order :
                  /\ InGroup(s, order[i], d)
                  /\ \A j \in 1..(i - 1) : ~InGroup(s, order[j], d)]
ActivatedById(s, d, saves) == ViewFocused(s, GroupOf(s, d), d, saves)

\* close_reviewed_document, of the selected tab of the active group.
ClosedReviewed(s) ==
  LET g == s.active
      t == TabRemoved(s, g, Selected(s, g))
      next == Selected(t, g)
  IN EmptyRemoved(Shown(IF next = Nil THEN t ELSE Touched(t, g, next), g), g)

-----------------------------------------------------------------------------
(* Questions.                                                              *)

Free == ask.kind = "none" /\ ask.group = 0
Asking == ask.kind \in {"close", "exit"}
Listening == Free \/ Asking

\* A save or an edit gives a document a new generation; neither the question
\* nor the exit's answers are about that one.
Regenerated(s, d) == s.docs[d].dirty # win.docs[d].dirty
Noticed(s) ==
  [ask EXCEPT !.changed = @ \/ (Asking /\ Regenerated(s, ask.doc)),
              !.reviewed = {d \in @ : ~Regenerated(s, d)}]

\* documents: the groups as they were made, each in strip order.
First(s, pending) ==
  LET In(g) == Range(s.strip[g].tabs) \cap pending # {}
      tabs == s.strip[CHOOSE g \in Groups(s) : In(g) /\ \A h \in Groups(s) : In(h) => g <= h].tabs
  IN tabs[CHOOSE i \in DOMAIN tabs : tabs[i] \in pending /\ \A j \in 1..(i - 1) : tabs[j] \notin pending]

\* Mutant: the tabs of the active group only.
UnsavedInActive(s) == {d \in Range(s.strip[s.active].tabs) : s.docs[d].dirty}
Unsaved(s) == {d \in UNION {Range(s.strip[g].tabs) : g \in Groups(s)} : s.docs[d].dirty}

\* next_dirty_review, or the window closes.
NextReview(s, reviewed) ==
  LET pending == Unsaved(s) \ reviewed
  IN IF pending = {}
     THEN [NoAsk EXCEPT !.kind = "gone", !.reviewed = reviewed]
     ELSE [NoAsk EXCEPT !.kind = "exit", !.doc = First(s, pending), !.reviewed = reviewed]

-----------------------------------------------------------------------------
(* The user's commands.                                                    *)

Fits == Cardinality(AllViews(win)) < MaxViews
IsFree(d) == ~win.docs[d].open /\ Cardinality({e \in Docs : win.docs[e].open}) < room.docs

NewDocument(d, saves) ==
  /\ Free /\ Fits /\ IsFree(d)
  /\ win' = Shown(Pushed(Autosaved(win, saves), d, [NoDoc EXCEPT !.open = TRUE]), win.active)
  /\ UNCHANGED ask

\* A file already open is shown in the active group.
OpenAgain(d, p, saves) ==
  /\ Free /\ Fits
  /\ win.docs[d].open /\ win.docs[d].path = p
  /\ win' = IF InGroup(win, win.active, d) THEN ActivatedIn(win, win.active, d, saves)
            ELSE Shown(ViewAdded(Autosaved(win, saves), win.active, d, MaxViews), win.active)
  /\ UNCHANGED ask

\* An empty untitled tab is reused, one that another group shows too only for
\* an image, which then fails to open.
Reusable(s, p) ==
  LET d == Selected(s, s.active)
  IN /\ d # Nil /\ s.docs[d].path = Nil /\ ~s.docs[d].dirty
     /\ p \in Images \/ ~Shared(s, d)

Opened(s, d, p, preview) ==
  LET doc == [open |-> TRUE, path |-> p, dirty |-> FALSE, preview |-> preview]
      old == Selected(s, s.active)
  IN IF preview /\ Preview(s, s.active) # {} THEN Shown(PreviewReplaced(s, d, doc), s.active)
     ELSE IF ~Reusable(s, p) THEN Shown(Pushed(s, d, doc), s.active)
     ELSE IF ~Shared(s, old) THEN Shown(Replaced(s, old, d, doc), s.active)
     ELSE s

OpenFile(d, p, preview, saves) ==
  /\ Free /\ Fits /\ IsFree(d)
  /\ \A e \in Docs : win.docs[e].path # p
  /\ win' = Opened(Autosaved(win, saves), d, p, preview)
  /\ UNCHANGED ask

Promote(d) ==
  /\ Free /\ win.docs[d].preview
  /\ win' = [win EXCEPT !.docs[d].preview = FALSE]
  /\ UNCHANGED ask

\* The text typed in the active group's editor is the text of the document it
\* holds; the change is recorded on the document of the selected tab.
Type ==
  LET d == Selected(win, win.active)
  IN /\ Free
     /\ d # Nil /\ ~IsImage(win, d)
     /\ win' = [win EXCEPT !.docs[d] = [@ EXCEPT !.dirty = TRUE, !.preview = FALSE]]
     /\ UNCHANGED ask

\* Save, or for an untitled tab Save As under a name no tab has.
SavedAs(s, d, p) ==
  /\ ~IsImage(s, d)
  /\ IF s.docs[d].path = Nil THEN p \notin Images /\ \A e \in Docs : s.docs[e].path # p
     ELSE s.docs[d].path = p

Saved(s, d, p) == [s EXCEPT !.docs[d].path = p, !.docs[d].dirty = FALSE]

SaveTab(p) ==
  LET d == Selected(win, win.active)
  IN /\ Free
     /\ d # Nil /\ win.docs[d].dirty /\ SavedAs(win, d, p)
     /\ win' = Saved(win, d, p)
     /\ UNCHANGED ask

ClickGroup(g) ==
  /\ Free
  /\ win' = ActivatedGroup(win, g)
  /\ UNCHANGED ask

FocusView(g, d, saves) ==
  /\ Free /\ InGroup(win, g, d)
  /\ win' = ViewFocused(win, g, d, saves)
  /\ UNCHANGED ask

SplitActiveGroup(direction) ==
  /\ Free /\ Fits /\ HasRoom(win)
  /\ win' = SplitWithView(win, win.active, direction)
  /\ UNCHANGED ask

\* Ctrl+1 to Ctrl+8 for a group that is not there: one to the right of the last.
FocusNewGroup ==
  /\ Free /\ Fits /\ HasRoom(win)
  /\ win' = SplitWithView(win, Last(LeavesOf(win.tree)), "right")
  /\ UNCHANGED ask

\* Move Tab to Next or Previous Group; past the last one, to a new group.
MoveActiveView(forward) ==
  LET d == Selected(win, win.active)
      order == LeavesOf(win.tree)
      i == IndexOf(win.active, order)
      next == IF forward THEN i + 1 ELSE i - 1
  IN /\ Free /\ d # Nil
     /\ next > 0
     /\ next > Len(order) => HasRoom(win)
     /\ win' = IF next \in DOMAIN order
               THEN Placed(win, win.active, d, order[next], MaxViews, FALSE)
               ELSE Placed(SplitOff(win, win.active, "right"), win.active, d, win.made + 1, MaxViews, FALSE)
     /\ UNCHANGED ask

\* A tab is dropped on another group, or at its strip place in its own.
DropOnGroup(from, d, to, at, copy) ==
  /\ Free /\ InGroup(win, from, d)
  /\ from # to /\ at <= Len(win.strip[to].tabs) + 1
  /\ copy => Fits
  /\ win' = Placed(win, from, d, to, at, copy)
  /\ UNCHANGED ask

DropOnEdge(from, d, target, direction, copy) ==
  /\ Free /\ InGroup(win, from, d) /\ HasRoom(win)
  /\ target = from /\ Len(win.strip[from].tabs) = 1 => copy
  /\ copy => Fits
  /\ win' = Placed(SplitOff(win, target, direction), from, d, win.made + 1, MaxViews, copy)
  /\ UNCHANGED ask

Reorder(g, d, to) ==
  LET s == Reordered(win, g, IndexOf(d, win.strip[g].tabs), to)
  IN /\ Free /\ InGroup(win, g, d)
     /\ to \in DOMAIN win.strip[g].tabs
     /\ \E saves \in Saves : win' = ViewFocused(s, g, d, saves)
     /\ UNCHANGED ask

-----------------------------------------------------------------------------
(* Closing.                                                                *)

\* A tab whose document another group shows closes unasked, as a clean one does.
CloseActive(saves) ==
  LET shared == Shared(win, Selected(win, win.active))
      s == IF shared THEN win ELSE Autosaved(win, saves)
      d == Selected(s, s.active)
  IN IF ~shared /\ s.docs[d].dirty
     THEN win' = s /\ ask' = [ask EXCEPT !.kind = "close", !.doc = d, !.changed = FALSE]
     ELSE win' = ClosedReviewed(s) /\ UNCHANGED ask

CloseTab(saves) ==
  /\ Free /\ Selected(win, win.active) # Nil
  /\ CloseActive(saves)

\* A clean tab that isn't the selected one closes where it is.
CloseBackground(d) ==
  /\ Free /\ InGroup(win, win.active, d)
  /\ d # Selected(win, win.active) /\ ~win.docs[d].dirty
  /\ win' = TabRemoved(win, win.active, d)
  /\ UNCHANGED ask

CloseGroup ==
  /\ Free /\ Selected(win, win.active) # Nil
  /\ ask' = [ask EXCEPT !.group = win.active]
  /\ UNCHANGED win

\* The loop of close_group.
CloseNext(saves) ==
  /\ ask.kind = "none" /\ ask.group # 0
  /\ IF ask.group \in Groups(win) /\ Selected(win, ask.group) # Nil
     THEN CloseActive(saves)
     ELSE win' = EmptyRemoved(win, ask.group) /\ ask' = NoAsk

\* Its file was deleted: every view of it closes, whatever is unsaved, and the
\* group that was active is active again.
DeleteNote(d) ==
  /\ Free /\ win.docs[d].open /\ win.docs[d].path # Nil
  /\ ask' = [ask EXCEPT !.kind = "delete", !.doc = d, !.group = win.active]
  /\ UNCHANGED win

\* The loop of close_every_view.
DeleteNext(saves) ==
  /\ ask.kind = "delete"
  /\ IF ViewsOf(win, ask.doc) # {}
     THEN win' = ClosedReviewed(ActivatedById(win, ask.doc, saves)) /\ UNCHANGED ask
     ELSE win' = ActivatedGroup(win, ask.group) /\ ask' = NoAsk

AnswerCancel ==
  /\ Asking
  /\ ask' = NoAsk
  /\ UNCHANGED win

\* Mutant: the answer closes the tab that is selected by then.
CloseDiscardSelected ==
  /\ ask.kind = "close"
  /\ win' = ClosedReviewed(win)
  /\ ask' = [NoAsk EXCEPT !.group = ask.group]

\* close_reviewed: the answer is about the selected tab as it was asked about.
CloseDiscard ==
  /\ ask.kind = "close"
  /\ IF Selected(win, win.active) = ask.doc /\ ~ask.changed
     THEN win' = ClosedReviewed(win) /\ ask' = [NoAsk EXCEPT !.group = ask.group]
     ELSE ask' = NoAsk /\ UNCHANGED win

\* save_reviewed_document: the tab asked about is activated and saved, which may
\* fail.
CloseSave(p, saves) ==
  LET s == ActivatedById(win, ask.doc, saves)
  IN /\ ask.kind = "close"
     /\ \/ SavedAs(s, ask.doc, p)
           /\ win' = ClosedReviewed(Saved(s, ask.doc, p))
           /\ ask' = [NoAsk EXCEPT !.group = ask.group]
        \/ win' = s /\ ask' = NoAsk

\* The window is asked to close, with no session to keep the text: autosave_all
\* activates each unsaved note in turn, and then the tab that was.
Exit ==
  /\ Free
  /\ ask' = [ask EXCEPT !.kind = "autosave", !.doc = Selected(win, win.active),
                        !.left = {d \in Unsaved(win) : win.docs[d].path # Nil}]
  /\ UNCHANGED win

AutosaveNext(leaving, saves) ==
  /\ ask.kind = "autosave" /\ ask.left # {}
  /\ LET d == First(win, ask.left)
     IN /\ win' = Autosaved(ActivatedById(win, d, leaving), saves)
        /\ ask' = [ask EXCEPT !.left = @ \ {d}]

AutosaveDone(leaving) ==
  LET s == IF ask.doc = Nil THEN win ELSE ActivatedById(win, ask.doc, leaving)
  IN /\ ask.kind = "autosave" /\ ask.left = {}
     /\ win' = s
     /\ ask' = NextReview(s, {})

ExitDiscard ==
  /\ ask.kind = "exit"
  /\ ask' = NextReview(win, IF win.docs[ask.doc].dirty /\ ~ask.changed
                            THEN ask.reviewed \cup {ask.doc} ELSE ask.reviewed)
  /\ UNCHANGED win

ExitSave(p, saves) ==
  LET s == ActivatedById(win, ask.doc, saves)
  IN /\ ask.kind = "exit"
     /\ \/ /\ SavedAs(s, ask.doc, p)
           /\ win' = Saved(s, ask.doc, p)
           /\ ask' = NextReview(win', {d \in ask.reviewed : ~Regenerated(win', d)})
        \/ win' = s /\ ask' = NoAsk

-----------------------------------------------------------------------------
(* What happens at any time, while a question is asked too.                *)

\* A screen reader selects a tab of any group.
AccessibleSelect(g, d, saves) ==
  LET s == ActivatedIn(win, g, d, saves)
  IN /\ Listening /\ InGroup(win, g, d)
     /\ win' = s
     /\ ask' = Noticed(s)

AutosaveTimer ==
  LET s == Autosaved(win, TRUE)
  IN /\ Listening
     /\ s # win
     /\ win' = s
     /\ ask' = Noticed(s)

-----------------------------------------------------------------------------
Commands ==
  \/ \E g \in Groups(win) : ClickGroup(g)
  \/ \E direction \in {"right", "down"} : SplitActiveGroup(direction)
  \/ FocusNewGroup
  \/ \E forward \in BOOLEAN : MoveActiveView(forward)
  \/ \E d \in Docs : Promote(d)
  \/ Type
  \/ \E p \in room.paths : SaveTab(p)

WindowStep ==
  \/ Commands
  \/ \E d \in Docs, saves \in Saves : NewDocument(d, saves)
  \/ \E d \in Docs, p \in room.paths, saves \in Saves : OpenAgain(d, p, saves)
  \/ \E d \in Docs, p \in room.paths, preview \in BOOLEAN, saves \in Saves : OpenFile(d, p, preview, saves)
  \/ \E g \in Groups(win), d \in Docs, saves \in Saves : FocusView(g, d, saves)
  \/ \E from, to \in Groups(win), d \in Docs, at \in 1..MaxViews, copy \in BOOLEAN :
       DropOnGroup(from, d, to, at, copy)
  \/ \E from, target \in Groups(win), d \in Docs, direction \in Edges, copy \in BOOLEAN :
       DropOnEdge(from, d, target, direction, copy)
  \/ \E g \in Groups(win), d \in Docs, to \in 1..MaxViews : Reorder(g, d, to)
  \/ \E saves \in Saves : CloseTab(saves)
  \/ \E d \in Docs : CloseBackground(d)
  \/ CloseGroup
  \/ \E saves \in Saves : CloseNext(saves)
  \/ \E d \in Docs : DeleteNote(d)
  \/ \E saves \in Saves : DeleteNext(saves)
  \/ AnswerCancel
  \/ CloseDiscard
  \/ \E p \in room.paths, saves \in Saves : CloseSave(p, saves)
  \/ Exit
  \/ \E leaving \in Saves, saves \in BOOLEAN : AutosaveNext(leaving, saves)
  \/ \E leaving \in Saves : AutosaveDone(leaving)
  \/ ExitDiscard
  \/ \E p \in room.paths, saves \in Saves : ExitSave(p, saves)
  \/ \E g \in Groups(win), d \in Docs, saves \in Saves : AccessibleSelect(g, d, saves)
  \/ AutosaveTimer

WindowNext == WindowStep /\ UNCHANGED room

WindowSpec == WindowInit /\ [][WindowNext]_windowVars

-----------------------------------------------------------------------------
(* Properties.                                                             *)

\* A document is in the store exactly while a group shows it, at most once in
\* a group: closing one view of several, moving the last one, and taking over
\* an untitled tab leave neither a view of nothing nor text no tab shows. And
\* `recent`, which quick open lists, has every one of these views once.
StoreIsTheViews ==
  /\ \A g \in Groups(win) : IsInjective(win.strip[g].tabs)
  /\ {d \in Docs : win.docs[d].open} = UNION {Range(win.strip[g].tabs) : g \in Groups(win)}
  /\ IsInjective(win.recent)
  /\ Range(win.recent) = AllViews(win)

\* What is typed goes into the document the tab strip says: every group's
\* editor holds the document of its selected tab, whichever group a command
\* or a screen reader changed.
EditorsShowSelected ==
  \A g \in Groups(win) : win.shown[g] = Holds(win, Selected(win, g))

\* The next file takes a preview's place without asking, so a group has one
\* preview, without unsaved text and in no other group.
PreviewsAreDisposable ==
  \A g \in Groups(win) :
    /\ \A d, e \in Preview(win, g) : d = e
    /\ \A d \in Preview(win, g) : ViewsOf(win, d) = {g} /\ ~win.docs[d].dirty

\* The layout is one that splits and removals can give, and shows every group
\* once, through drops on edges and groups that close with their last tab.
LayoutIsTheGroups ==
  win.tree \in Layouts /\ Range(LeavesOf(win.tree)) = Groups(win)

\* The note of the tab being left is saved first.
SavedOnLeaving(d) == ask.kind = "none" /\ ~Autosaved(win, TRUE).docs[d].dirty

\* Unsaved text leaves the store only as the note that was deleted, or once
\* the user was asked about that very tab, and not about one a screen reader
\* has selected meanwhile.
ClosedOnlyAsAgreed ==
  [][\A d \in Docs : win.docs[d].dirty /\ ~win'.docs[d].open =>
       \/ ask.kind = "close" /\ ask.doc = d /\ ~ask.changed
       \/ SavedOnLeaving(d)
       \/ ask.kind = "delete" /\ ask.doc = d]_windowVars

\* The window closes without a session only over text the user chose to
\* discard, of tabs in any group, as it was when they were asked.
ExitIsReviewed ==
  ask.kind = "gone" => \A d \in Docs : win.docs[d].dirty => d \in ask.reviewed

\* "The source group closes when that was its last tab; the focus goes to
\* `to`" (place_view): a tab dropped on a group makes that group active.
FocusFollowsTheTab ==
  [][\A from, to \in Groups(win), d \in Docs, at \in 1..MaxViews, copy \in BOOLEAN :
       DropOnGroup(from, d, to, at, copy) => win'.active = to]_windowVars
================================================================================
