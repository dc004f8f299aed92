---------------------------- MODULE NotebookProofs ----------------------------
(***************************************************************************)
(* Theorems about Notebook, for any generations and bounds: its type       *)
(* invariant and the two invariants its run checks.                        *)
(***************************************************************************)
EXTENDS Notebook, TLAPS

-----------------------------------------------------------------------------
(* The inductive invariant.                                                *)

\* No two loads have one generation, and the slot scans while one has its own;
\* a closed slot has none.
OneLoadEach(w) ==
  /\ w.slot.open \/ w.slot.gen = None
  /\ \A l, m \in w.loads : l.gen = m.gen => l = m
  /\ w.slot.open => (w.slot.scanning <=> \E l \in w.loads : l.gen = w.slot.gen)

\* A watcher says once that it failed, with its last words.
Runs(g) == watch.running /\ watch.batch.gen = g
FailureIsLast ==
  /\ ~watch.batch.failed
  /\ \A i \in 1..Len(posts) : posts[i].failed =>
       /\ ~Runs(posts[i].gen)
       /\ \A j \in 1..Len(posts) : posts[j].failed /\ posts[j].gen = posts[i].gen => i = j

SlotIsWatched == slot.open => (slot.watching <=> Runs(slot.watchGen) \/ Waits(slot.watchGen))

\* Nothing known of the note is newer than its last change.
NothingIsNewer ==
  /\ disk <= clock
  /\ slot.list <= clock
  /\ \A l \in loads : l.list <= clock
  /\ job.stamp <= clock

\* What nobody has seen is of the loaded notebook, and no load that lands will
\* take it for FastPad's own.
UnseenIsLoaded ==
  /\ slot.loaded => slot.open
  /\ unseen => slot.loaded /\ ~shown /\ (own \/ ~slot.touched)

\* The report of a replace is for a later opening, or its writes are still known.
ReportIsOwn ==
  job.phase # "idle" => job.id <= opens /\ (job.id = opens /\ slot.open => own)

Inv ==
  /\ TypeOK
  /\ OneLoadEach(World)
  /\ FailureIsLast
  /\ SlotIsWatched
  /\ NothingIsNewer
  /\ UnseenIsLoaded
  /\ ReportIsOwn
  /\ UnseenChangesAreMarked

-----------------------------------------------------------------------------
(* The slot and its loads after a load begins.                             *)

Typed(w) == w \in [slot : Slot, loads : SUBSET Load]

\* What the begin of a load leaves of a slot.
SlotKept(s, t) ==
  /\ t.open = s.open
  /\ t.loaded = s.loaded
  /\ t.list = s.list
  /\ t.mark = s.mark
  /\ t.watchGen = s.watchGen
  /\ t.watching = s.watching
  /\ t.touched => s.touched

\* No listing is newer than the last change.
ListsAreOld(w) == w.slot.list <= clock /\ \A l \in w.loads : l.list <= clock

\* A step from one slot with its loads to another that may begin a load.
Goes(w, v) ==
  /\ Typed(v)
  /\ OneLoadEach(v)
  /\ SlotKept(w.slot, v.slot)
  /\ ListsAreOld(v)

LEMMA Fresh ==
  ASSUME Room
  PROVE  /\ FreshLoad \in Gens /\ FreshLoad \notin LoadGens
         /\ FreshWatch \in Gens /\ FreshWatch \notin WatchGens
BY DEF Room, FreshLoad, FreshWatch

LEMMA BegunFields ==
  ASSUME NEW w, Typed(w), FreshLoad \in Gens
  PROVE  LET v == LoadBegun(w)
             new == [gen |-> FreshLoad, phase |-> "started", list |-> 0]
         IN  /\ Typed(v)
             /\ v.loads = w.loads \cup {new}
             /\ new \in Load /\ new.gen = FreshLoad /\ new.list = 0
             /\ v.slot.gen = FreshLoad /\ v.slot.scanning
             /\ SlotKept(w.slot, v.slot)
<1> DEFINE new == [gen |-> FreshLoad, phase |-> "started", list |-> 0]
           slotNow == [w.slot EXCEPT !.gen = FreshLoad, !.scanning = TRUE, !.again = FALSE, !.failed = FALSE,
                                     !.touched = FALSE]
<1>1. w.slot \in Slot /\ w.loads \subseteq Load /\ FreshLoad \in Gen
  BY DEF Typed, Gen
<1>2. new \in Load /\ new.gen = FreshLoad /\ new.list = 0
  BY DEF Load
<1>3. slotNow \in Slot /\ slotNow.gen = FreshLoad /\ slotNow.scanning
  BY <1>1 DEF Slot
<1>4. SlotKept(w.slot, slotNow)
  BY <1>1 DEF Slot, SlotKept
<1> HIDE DEF slotNow
<1>5. LoadBegun(w) = [w EXCEPT !.slot = slotNow, !.loads = w.loads \cup {new}]
  BY DEF LoadBegun, Typed, slotNow
<1> HIDE DEF new
<1>6. LoadBegun(w).slot = slotNow /\ LoadBegun(w).loads = w.loads \cup {new}
  BY <1>5 DEF Typed
<1>7. Typed(LoadBegun(w))
  BY <1>1, <1>2, <1>3, <1>5 DEF Typed
<1> QED
  BY <1>2, <1>3, <1>4, <1>6, <1>7 DEF new

LEMMA BegunStep ==
  ASSUME TypeOK, Room, NEW w, Typed(w), \A l, m \in w.loads : l.gen = m.gen => l = m, ListsAreOld(w),
         w.slot.open, \A l \in w.loads : l.gen \in LoadGens
  PROVE  Goes(w, LoadBegun(w))
<1> DEFINE v == LoadBegun(w)
<1>1. PICK new \in Load :
        /\ Typed(v)
        /\ v.loads = w.loads \cup {new}
        /\ new.gen = FreshLoad /\ new.list = 0
        /\ v.slot.gen = FreshLoad /\ v.slot.scanning
        /\ SlotKept(w.slot, v.slot)
  BY Fresh, BegunFields
<1> HIDE DEF v
<1>2. \A l \in w.loads : l.gen # new.gen
  BY <1>1, Fresh
<1>3. OneLoadEach(v)
  BY <1>1, <1>2 DEF OneLoadEach, SlotKept
<1>4. ListsAreOld(v)
  <2>1. 0 <= clock
    BY DEF TypeOK
  <2> QED
    BY <1>1, <2>1 DEF ListsAreOld, SlotKept
<1> QED
  BY <1>1, <1>3, <1>4 DEF Goes, v

LEMMA StaysStep ==
  ASSUME NEW w, Typed(w), OneLoadEach(w), ListsAreOld(w)
  PROVE  Goes(w, w)
BY DEF Goes, SlotKept

LEMMA AskedStep ==
  ASSUME TypeOK, Room, NEW w, Typed(w), OneLoadEach(w), ListsAreOld(w), w.loads \subseteq loads
  PROVE  Goes(w, RescanAsked(w))
<1>1. CASE ~w.slot.open
  BY <1>1, StaysStep DEF RescanAsked
<1>2. CASE w.slot.open /\ w.slot.scanning
  <2> DEFINE s == [w.slot EXCEPT !.again = TRUE]
             v == [w EXCEPT !.slot = s]
  <2>1. w.slot \in Slot
    BY DEF Typed
  <2>2. s \in Slot /\ SlotKept(w.slot, s) /\ s.gen = w.slot.gen /\ s.scanning = w.slot.scanning
    BY <2>1 DEF Slot, SlotKept
  <2>3. RescanAsked(w) = v
    BY <1>2 DEF RescanAsked, Typed
  <2> HIDE DEF s
  <2>4. v.slot = s /\ v.loads = w.loads /\ Typed(v)
    BY <2>2 DEF Typed
  <2> HIDE DEF v
  <2> QED
    BY <2>2, <2>3, <2>4 DEF Goes, OneLoadEach, ListsAreOld, SlotKept
<1>3. CASE w.slot.open /\ ~w.slot.scanning
  <2>1. \A l \in w.loads : l.gen \in LoadGens
    BY DEF LoadGens
  <2> QED
    BY <1>3, <2>1, BegunStep DEF RescanAsked, OneLoadEach
<1> QED
  BY <1>1, <1>2, <1>3

\* library_ready ends with the rescan it owes.
LEMMA OwedStep ==
  ASSUME TypeOK, Room, NEW w, Typed(w), OneLoadEach(w), ListsAreOld(w), w.loads \subseteq loads,
         w.slot.open
  PROVE  Goes(w, Owed(w))
<1>1. \A l \in w.loads : l.gen \in LoadGens
  BY DEF LoadGens
<1> QED
  BY <1>1, BegunStep, StaysStep DEF Owed, OneLoadEach

LEMMA WorldTyped == ASSUME TypeOK PROVE Typed(World)
BY DEF TypeOK, Typed, World

LEMMA WorldFields == World.slot = slot /\ World.loads = loads
BY DEF World

\* The slot of the world is changed before a load is asked for.
LEMMA SlotSet ==
  ASSUME NEW w, Typed(w), NEW s \in Slot
  PROVE  LET v == [w EXCEPT !.slot = s] IN Typed(v) /\ v.slot = s /\ v.loads = w.loads
BY DEF Typed

-----------------------------------------------------------------------------
(* The parts of the invariant that a step leaves alone.                    *)

\* The slot, seen by what does not concern its loads.
LEMMA WatchedKept ==
  ASSUME SlotIsWatched, UNCHANGED <<watch, posts>>,
         slot'.open = slot.open, slot'.watchGen = slot.watchGen, slot'.watching = slot.watching
  PROVE  SlotIsWatched'
BY DEF SlotIsWatched, Runs, Waits

LEMMA FailureKept ==
  ASSUME FailureIsLast, UNCHANGED <<watch, posts>>
  PROVE  FailureIsLast'
BY DEF FailureIsLast, Runs

LEMMA SeenKept ==
  ASSUME UnseenIsLoaded, UnseenChangesAreMarked, UNCHANGED <<disk, own, shown, unseen>>,
         slot'.open = slot.open, slot'.loaded = slot.loaded, slot'.list = slot.list,
         slot'.mark = slot.mark, slot'.touched => slot.touched
  PROVE  UnseenIsLoaded' /\ UnseenChangesAreMarked'
BY DEF UnseenIsLoaded, UnseenChangesAreMarked

-----------------------------------------------------------------------------
(* Other programs and the watcher.                                         *)

LEMMA BatchTypes ==
  /\ \A g \in Gen : NoBatch(g) \in Batch /\ NoBatch(g).gen = g /\ ~NoBatch(g).failed
  /\ None \in Gen
BY DEF NoBatch, Batch, Gen

LEMMA FailedBatch ==
  ASSUME NEW g \in Gen
  PROVE  LET b == [NoBatch(g) EXCEPT !.failed = TRUE] IN b \in Batch /\ b.gen = g /\ b.failed
BY DEF NoBatch, Batch

LEMMA WatcherTypes ==
  ASSUME NEW g \in Gen
  PROVE  /\ Started(g) \in [running : BOOLEAN, batch : Batch]
         /\ Started(g).running /\ Started(g).batch.gen = g /\ ~Started(g).batch.failed
         /\ Stopped \in [running : BOOLEAN, batch : Batch]
         /\ ~Stopped.running /\ ~Stopped.batch.failed
BY BatchTypes DEF Started, Stopped

\* The watcher, but for what its batch holds, and what waits for the window stay.
Hears ==
  /\ watch' \in [running : BOOLEAN, batch : Batch]
  /\ watch'.running = watch.running
  /\ watch'.batch.gen = watch.batch.gen
  /\ ~watch'.batch.failed
  /\ UNCHANGED posts

SameWatching ==
  slot'.open = slot.open /\ slot'.watchGen = slot.watchGen /\ slot'.watching = slot.watching

LEMMA HeardKept ==
  ASSUME FailureIsLast, SlotIsWatched, Hears, SameWatching
  PROVE  FailureIsLast' /\ SlotIsWatched'
<1>1. \A g : Runs(g)' <=> Runs(g)
  BY DEF Hears, Runs
<1>2. FailureIsLast'
  BY <1>1 DEF Hears, FailureIsLast
<1>3. SlotIsWatched'
  BY <1>1 DEF Hears, SameWatching, SlotIsWatched, Waits
<1> QED
  BY <1>2, <1>3

LEMMA ReportStep ==
  ASSUME TypeOK, FailureIsLast, NEW other \in BOOLEAN, NEW names \in BOOLEAN,
         Report(other, names), UNCHANGED posts
  PROVE  Hears
<1>1. watch \in [running : BOOLEAN, batch : Batch] /\ watch.batch \in Batch /\ ~watch.batch.failed
  BY DEF TypeOK, FailureIsLast
<1>2. CASE ~watch.running
  BY <1>1, <1>2 DEF Report, Hears
<1>3. CASE watch.running
  <2>1. PICK b \in Reported(watch.batch, other, names) : watch' = [watch EXCEPT !.batch = b]
    BY <1>3 DEF Report
  <2>2. b \in Batch /\ b.gen = watch.batch.gen /\ ~b.failed
    <3>1. CASE b = watch.batch
      BY <1>1, <3>1
    <3>2. CASE b = [watch.batch EXCEPT !.note = TRUE, !.other = watch.batch.other \/ other,
                                       !.names = watch.batch.names \/ names]
      <4>1. (watch.batch.other \/ other) \in BOOLEAN /\ (watch.batch.names \/ names) \in BOOLEAN
        OBVIOUS
      <4> QED
        BY <1>1, <3>2, <4>1 DEF Batch
    <3>3. CASE b = [NoBatch(watch.batch.gen) EXCEPT !.overflow = TRUE]
      <4>1. watch.batch.gen \in Gen
        BY <1>1 DEF Batch
      <4> QED
        BY <3>3, <4>1 DEF NoBatch, Batch
    <3>4. b \in {watch.batch,
                 [watch.batch EXCEPT !.note = TRUE, !.other = watch.batch.other \/ other,
                                     !.names = watch.batch.names \/ names],
                 [NoBatch(watch.batch.gen) EXCEPT !.overflow = TRUE]}
      BY <1>1, <2>1 DEF Reported, Batch
    <3> QED
      BY <3>1, <3>2, <3>3, <3>4
  <2>3. watch' \in [running : BOOLEAN, batch : Batch] /\ watch'.running = watch.running /\ watch'.batch = b
    BY <1>1, <2>1, <2>2
  <2> QED
    BY <2>2, <2>3 DEF Hears
<1> QED
  BY <1>2, <1>3

LEMMA SameWorld ==
  ASSUME OneLoadEach(World), UNCHANGED <<slot, loads>>
  PROVE  OneLoadEach(World)'
BY DEF OneLoadEach, World

LEMMA ForeignStep == ASSUME Inv, Foreign PROVE Inv'
<1>1. /\ TypeOK /\ FailureIsLast /\ clock \in Nat
      /\ UNCHANGED <<slot, loads, posts, shown, job, own, opens>>
  BY DEF Inv, TypeOK, Foreign
<1>2. clock' = clock + 1 /\ clock' \in Nat
  BY <1>1 DEF Foreign
<1>3. PICK time \in {0, clock + 1} : disk' = time /\ Report(FALSE, (time = 0) # (disk = 0))
  BY DEF Foreign
<1>4. Hears
  <2>1. ((time = 0) # (disk = 0)) \in BOOLEAN
    OBVIOUS
  <2> QED
    BY <1>1, <1>3, <2>1, ReportStep
<1>5. FailureIsLast' /\ SlotIsWatched'
  BY <1>1, <1>4, HeardKept DEF Inv, SameWatching
<1>6. slot \in Slot /\ disk' \in Nat /\ disk' <= clock' /\ (disk' # 0 => disk' = clock + 1)
  BY <1>1, <1>2, <1>3 DEF TypeOK
<1>7. slot.list \in Nat /\ slot.list <= clock
  BY <1>6 DEF Slot, Inv, NothingIsNewer
<1>8. NothingIsNewer'
  <2>1. \A n \in Nat : n <= clock => n <= clock'
    BY <1>1, <1>2
  <2>2. job.stamp \in Nat /\ \A l \in loads : l.list \in Nat
    BY <1>1 DEF TypeOK, Job, Load
  <2> QED
    BY <1>1, <1>6, <1>7, <2>1, <2>2 DEF Inv, NothingIsNewer
<1>9. unseen' = (slot.loaded /\ ~shown /\ ~slot.touched)
  BY DEF Foreign
<1>10. UnseenIsLoaded' /\ UnseenChangesAreMarked'
  <2>1. slot.list = disk' => disk' = 0
    BY <1>1, <1>6, <1>7
  <2> QED
    BY <1>1, <1>9, <2>1 DEF Inv, UnseenIsLoaded, UnseenChangesAreMarked
<1>11. TypeOK'
  <2>1. unseen' \in BOOLEAN
    BY <1>9
  <2> QED
    BY <1>1, <1>2, <1>4, <1>6, <2>1 DEF TypeOK, Hears
<1> QED
  BY <1>1, <1>5, <1>8, <1>10, <1>11, SameWorld DEF Inv, ReportIsOwn

LEMMA Appended ==
  ASSUME TypeOK, NEW b \in Batch, posts' = Append(posts, b)
  PROVE  /\ posts' \in Seq(Batch)
         /\ Len(posts) \in Nat /\ Len(posts') = Len(posts) + 1
         /\ \A i \in 1..Len(posts) : posts'[i] = posts[i]
         /\ posts'[Len(posts) + 1] = b
BY DEF TypeOK

\* The window's and the worker's state stays.
WindowKept == UNCHANGED <<disk, clock, slot, loads, shown, job, own, opens, unseen>>

LEMMA WindowStep ==
  ASSUME Inv, WindowKept, watch' \in [running : BOOLEAN, batch : Batch], posts' \in Seq(Batch),
         FailureIsLast', SlotIsWatched'
  PROVE  Inv'
<1>1. TypeOK'
  BY DEF Inv, TypeOK, WindowKept
<1> QED
  BY <1>1, SameWorld, SeenKept DEF Inv, WindowKept, NothingIsNewer, ReportIsOwn

LEMMA PostStep == ASSUME Inv, Post PROVE Inv'
<1>1. /\ TypeOK /\ watch.running /\ watch.batch \in Batch /\ watch.batch.gen \in Gen
      /\ posts' = Append(posts, watch.batch) /\ watch' = Started(watch.batch.gen)
  BY DEF Inv, TypeOK, Post, Batch
<1>2. /\ posts' \in Seq(Batch)
      /\ Len(posts) \in Nat /\ Len(posts') = Len(posts) + 1
      /\ \A i \in 1..Len(posts) : posts'[i] = posts[i]
      /\ posts'[Len(posts) + 1] = watch.batch
  BY <1>1, Appended
<1>3. ~watch.batch.failed
  BY DEF Inv, FailureIsLast
<1>4. \A i \in 1..Len(posts') : posts'[i].failed => i \in 1..Len(posts) /\ posts'[i] = posts[i]
  BY <1>2, <1>3
<1>5. \A i \in 1..Len(posts) : i \in 1..Len(posts')
  BY <1>2
<1>6. \A g : Runs(g)' <=> Runs(g)
  BY <1>1, WatcherTypes DEF Runs
<1>7. FailureIsLast'
  BY <1>1, <1>4, <1>6, WatcherTypes DEF Inv, FailureIsLast
<1>8. SlotIsWatched'
  <2>1. \A g : Waits(g)' <=> Waits(g)
    BY <1>2, <1>4, <1>5 DEF Waits
  <2> QED
    BY <1>6, <2>1 DEF Inv, SlotIsWatched, Post
<1> QED
  BY <1>1, <1>2, <1>7, <1>8, WatcherTypes, WindowStep DEF Post, WindowKept

LEMMA WatchFailsStep == ASSUME Inv, WatchFails PROVE Inv'
<1> DEFINE b == [NoBatch(watch.batch.gen) EXCEPT !.failed = TRUE]
<1>1. /\ TypeOK /\ watch.running /\ watch.batch.gen \in Gen
      /\ posts' = Append(posts, b) /\ watch' = Stopped
  BY DEF Inv, TypeOK, WatchFails, Batch
<1>2. b \in Batch /\ b.gen = watch.batch.gen /\ b.failed
  BY <1>1, FailedBatch
<1> HIDE DEF b
<1>3. /\ posts' \in Seq(Batch)
      /\ Len(posts) \in Nat /\ Len(posts') = Len(posts) + 1
      /\ \A i \in 1..Len(posts) : posts'[i] = posts[i]
      /\ posts'[Len(posts) + 1] = b
  BY <1>1, <1>2, Appended
<1>4. \A i \in 1..Len(posts') : i = Len(posts) + 1 \/ (i \in 1..Len(posts) /\ posts'[i] = posts[i])
  BY <1>3
<1>5. Len(posts) + 1 \in 1..Len(posts') /\ \A i \in 1..Len(posts) : i \in 1..Len(posts')
  BY <1>3
<1>6. /\ watch' \in [running : BOOLEAN, batch : Batch] /\ ~watch'.running /\ ~watch'.batch.failed
  BY <1>1, WatcherTypes
<1>7. Runs(watch.batch.gen)
  BY <1>1 DEF Runs
<1>8. \A i \in 1..Len(posts) : posts[i].failed => posts[i].gen # b.gen
  BY <1>2, <1>7 DEF Inv, FailureIsLast
<1>9. FailureIsLast'
  BY <1>2, <1>3, <1>4, <1>6, <1>8 DEF Inv, FailureIsLast, Runs
<1>10. \A g : Runs(g) \/ Waits(g) <=> Waits(g)'
  BY <1>1, <1>2, <1>3, <1>4, <1>5 DEF Runs, Waits
<1>11. SlotIsWatched'
  BY <1>6, <1>10 DEF Inv, SlotIsWatched, WatchFails, Runs
<1> QED
  BY <1>3, <1>6, <1>9, <1>11, WindowStep DEF WatchFails, WindowKept

-----------------------------------------------------------------------------
(* Opening, closing, loads and rescans.                                    *)

LEMMA BecomesStep ==
  ASSUME NEW w, NEW v, Goes(w, v), Becomes(v)
  PROVE  /\ slot' \in Slot /\ loads' \subseteq Load
         /\ OneLoadEach(World)'
         /\ SlotKept(w.slot, slot')
         /\ slot'.list <= clock /\ \A l \in loads' : l.list <= clock
BY DEF Goes, Becomes, Typed, OneLoadEach, World, ListsAreOld

LEMMA WorldIsGood ==
  ASSUME Inv
  PROVE  /\ Typed(World) /\ OneLoadEach(World) /\ ListsAreOld(World)
         /\ World.slot = slot /\ World.loads = loads
BY WorldTyped, WorldFields DEF Inv, ListsAreOld, NothingIsNewer

\* A load is asked for, or not: nothing else changes.
LEMMA AskingStep ==
  ASSUME Inv, NEW v, Goes(World, v), Becomes(v),
         UNCHANGED <<disk, clock, watch, posts, shown, job, own, opens, unseen>>
  PROVE  Inv'
<1>1. /\ slot' \in Slot /\ loads' \subseteq Load
      /\ OneLoadEach(World)'
      /\ SlotKept(slot, slot')
      /\ slot'.list <= clock /\ \A l \in loads' : l.list <= clock
  BY BecomesStep, WorldIsGood
<1>2. TypeOK'
  BY <1>1 DEF Inv, TypeOK
<1>3. FailureIsLast' /\ SlotIsWatched'
  BY <1>1, WatchedKept, FailureKept DEF Inv, SlotKept
<1>4. UnseenIsLoaded' /\ UnseenChangesAreMarked'
  BY <1>1, SeenKept DEF Inv, SlotKept
<1> QED
  BY <1>1, <1>2, <1>3, <1>4 DEF Inv, NothingIsNewer, ReportIsOwn, SlotKept

LEMMA RefreshStep == ASSUME Inv, Refresh \/ Return PROVE Inv'
<1>1. Room /\ Becomes(RescanAsked(World)) /\ TypeOK
  BY DEF Refresh, Return, Inv
<1>2. Goes(World, RescanAsked(World))
  BY <1>1, AskedStep, WorldIsGood
<1> QED
  BY <1>1, <1>2, AskingStep DEF Refresh, Return

LEMMA ClosedType ==
  ASSUME NEW g \in Gen
  PROVE  LET s == [Closed EXCEPT !.open = TRUE, !.watchGen = g]
         IN  /\ Closed \in Slot /\ ~Closed.open /\ Closed.gen = None /\ ~Closed.loaded /\ Closed.list = 0 /\ ~Closed.mark
             /\ s \in Slot /\ s.open /\ ~s.loaded /\ s.list = 0 /\ s.watchGen = g /\ ~s.watching
BY DEF Closed, Slot, Gen

LEMMA OpenStep == ASSUME Inv, Open PROVE Inv'
<1> DEFINE s == [Closed EXCEPT !.open = TRUE, !.watchGen = FreshWatch]
           w == [World EXCEPT !.slot = s]
<1>1. /\ TypeOK /\ Room /\ Becomes(LoadBegun(w)) /\ ~slot.open /\ opens' = opens + 1
      /\ UNCHANGED <<disk, clock, watch, posts, shown, job, own, unseen>>
  BY DEF Open, Inv
<1>2. FreshWatch \in Gen /\ FreshWatch \notin WatchGens
  BY <1>1, Fresh DEF Gen
<1>3. s \in Slot /\ s.open /\ ~s.loaded /\ s.list = 0 /\ s.watchGen = FreshWatch /\ ~s.watching
  BY <1>2, ClosedType
<1> HIDE DEF s
<1>4. Typed(w) /\ w.slot = s /\ w.loads = loads
  BY <1>3, WorldIsGood, SlotSet
<1> HIDE DEF w
<1>5. ListsAreOld(w) /\ (\A l, m \in w.loads : l.gen = m.gen => l = m) /\ (\A l \in w.loads : l.gen \in LoadGens)
  <2>1. 0 <= clock
    BY <1>1 DEF TypeOK
  <2> QED
    BY <1>3, <1>4, <2>1, WorldIsGood DEF ListsAreOld, OneLoadEach, LoadGens
<1>6. /\ slot' \in Slot /\ loads' \subseteq Load
      /\ OneLoadEach(World)'
      /\ SlotKept(s, slot')
      /\ slot'.list <= clock /\ \A l \in loads' : l.list <= clock
  BY <1>1, <1>3, <1>4, <1>5, BegunStep, BecomesStep
<1>7. slot'.open /\ ~slot'.loaded /\ slot'.watchGen = FreshWatch /\ ~slot'.watching
  BY <1>3, <1>6 DEF SlotKept, Slot
<1>8. TypeOK'
  BY <1>1, <1>6 DEF TypeOK
<1>9. SlotIsWatched'
  <2>1. ~Runs(FreshWatch) /\ ~Waits(FreshWatch)
    BY <1>2 DEF WatchGens, Runs, Waits
  <2> QED
    BY <1>1, <1>7, <2>1 DEF SlotIsWatched, Runs, Waits
<1>10. ~unseen
  BY <1>1 DEF Inv, UnseenIsLoaded
<1>11. UnseenIsLoaded' /\ UnseenChangesAreMarked'
  BY <1>1, <1>7, <1>10 DEF UnseenIsLoaded, UnseenChangesAreMarked
<1>12. ReportIsOwn'
  <2>1. job.id \in Nat /\ opens \in Nat
    BY <1>1 DEF TypeOK, Job
  <2> QED
    BY <1>1, <2>1 DEF Inv, ReportIsOwn
<1>13. NothingIsNewer'
  BY <1>1, <1>6 DEF Inv, NothingIsNewer
<1> QED
  BY <1>1, <1>6, <1>8, <1>9, <1>11, <1>12, <1>13, FailureKept DEF Inv

LEMMA CloseStep == ASSUME Inv, Close PROVE Inv'
<1>1. /\ TypeOK /\ slot' = Closed /\ watch' = Stopped /\ own' = FALSE /\ unseen' = FALSE
      /\ UNCHANGED <<disk, clock, loads, posts, shown, job, opens>>
  BY DEF Close, Inv
<1>2. /\ Closed \in Slot /\ ~Closed.open /\ Closed.gen = None /\ ~Closed.loaded /\ Closed.list = 0
      /\ Stopped \in [running : BOOLEAN, batch : Batch] /\ ~Stopped.running /\ ~Stopped.batch.failed
  BY ClosedType, WatcherTypes, BatchTypes
<1>3. TypeOK'
  BY <1>1, <1>2 DEF TypeOK
<1>4. OneLoadEach(World)'
  BY <1>1, <1>2 DEF Inv, OneLoadEach, World
<1>5. FailureIsLast' /\ SlotIsWatched'
  BY <1>1, <1>2 DEF Inv, FailureIsLast, SlotIsWatched, Runs
<1>6. NothingIsNewer'
  <2>1. 0 <= clock
    BY <1>1 DEF TypeOK
  <2> QED
    BY <1>1, <1>2, <2>1 DEF Inv, NothingIsNewer
<1>7. UnseenIsLoaded' /\ ReportIsOwn' /\ UnseenChangesAreMarked'
  BY <1>1, <1>2 DEF Inv, UnseenIsLoaded, ReportIsOwn, UnseenChangesAreMarked
<1> QED
  BY <1>3, <1>4, <1>5, <1>6, <1>7 DEF Inv

LEMMA LoadReadsStep == ASSUME Inv, NEW g \in Gens, LoadReads(g) PROVE Inv'
<1>1. PICK l \in loads : loads' = (loads \ {l}) \cup {[l EXCEPT !.phase = "read", !.list = disk]}
  BY DEF LoadReads
<1> DEFINE read == [l EXCEPT !.phase = "read", !.list = disk]
<1>2. TypeOK /\ l \in Load /\ disk \in Nat
  BY <1>1 DEF Inv, TypeOK
<1>3. read \in Load /\ read.gen = l.gen /\ read.list = disk
  BY <1>2 DEF Load
<1>4. loads' = (loads \ {l}) \cup {read}
  BY <1>1
<1> HIDE DEF read
<1>5. UNCHANGED <<disk, clock, slot, watch, posts, shown, job, own, opens, unseen>>
  BY DEF LoadReads
<1>6. TypeOK'
  BY <1>3, <1>4, <1>5 DEF Inv, TypeOK
<1>7. OneLoadEach(World)'
  <2>1. \A m \in loads \ {l} : m.gen # read.gen
    BY <1>3 DEF Inv, OneLoadEach, World
  <2>2. (\E m \in loads' : m.gen = slot.gen) <=> (\E m \in loads : m.gen = slot.gen)
    BY <1>3, <1>4
  <2> QED
    BY <1>4, <1>5, <2>1, <2>2 DEF Inv, OneLoadEach, World
<1>8. NothingIsNewer'
  BY <1>3, <1>4, <1>5 DEF Inv, NothingIsNewer
<1>9. FailureIsLast' /\ SlotIsWatched' /\ UnseenIsLoaded' /\ UnseenChangesAreMarked' /\ ReportIsOwn'
  BY <1>5, FailureKept, WatchedKept, SeenKept DEF Inv, ReportIsOwn
<1> QED
  BY <1>6, <1>7, <1>8, <1>9 DEF Inv

LEMMA TakenFields ==
  ASSUME Inv, NEW l \in loads
  PROVE  /\ Typed(Taken(l)) /\ Taken(l).slot = slot /\ Taken(l).loads = loads \ {l}
BY WorldIsGood DEF Taken, Typed

\* A load is late when no slot waits for it.
LEMMA LoadIsLateStep == ASSUME Inv, NEW g \in Gens, LoadIsLate(g) PROVE Inv'
<1>1. PICK l \in loads : l.gen = g /\ Becomes(Taken(l))
  BY DEF LoadIsLate
<1>2. Typed(Taken(l)) /\ Taken(l).slot = slot /\ Taken(l).loads = loads \ {l} /\ slot.gen # g
  BY TakenFields DEF LoadIsLate, AnswersSlot
<1>3. Goes(World, Taken(l))
  BY <1>1, <1>2, WorldIsGood DEF Goes, OneLoadEach, SlotKept, ListsAreOld
<1> QED
  BY <1>1, <1>3, AskingStep DEF LoadIsLate

\* The slot after its load answered, changed by nothing but what the load
\* brings: no load of its generation is left.
LEMMA AnsweredWith ==
  ASSUME Inv, NEW l \in loads, l.gen = slot.gen, NEW s \in Slot, s.scanning = FALSE, s.gen = slot.gen,
         s.list <= clock, s.open, Room
  PROVE  LET w == [slot |-> s, loads |-> loads \ {l}]
         IN  Typed(w) /\ w.slot = s /\ Goes(w, Owed(w))
<1> DEFINE w == [slot |-> s, loads |-> loads \ {l}]
<1>1. TypeOK /\ w.slot = s /\ w.loads = loads \ {l} /\ loads \subseteq Load
  BY DEF Inv, TypeOK
<1>2. Typed(w)
  BY <1>1 DEF Typed
<1> HIDE DEF w
<1>3. \A m \in w.loads : m.gen # s.gen
  BY <1>1, WorldIsGood DEF OneLoadEach
<1>4. OneLoadEach(w)
  BY <1>1, <1>3, WorldIsGood DEF OneLoadEach
<1>5. ListsAreOld(w)
  BY <1>1 DEF Inv, NothingIsNewer, ListsAreOld
<1> QED
  BY <1>1, <1>2, <1>4, <1>5, OwedStep DEF w

LEMMA SlotReplaced ==
  ASSUME NEW s, NEW t, NEW ls
  PROVE  [[slot |-> s, loads |-> ls] EXCEPT !.slot = t] = [slot |-> t, loads |-> ls]
OBVIOUS

LEMMA AnsweredFields ==
  ASSUME Inv, NEW l \in loads
  PROVE  LET s == [slot EXCEPT !.scanning = FALSE]
         IN  /\ s \in Slot /\ s.scanning = FALSE /\ s.gen = slot.gen
             /\ SlotKept(slot, s)
             /\ s.watchFailed = slot.watchFailed
             /\ Answered(l) = [slot |-> s, loads |-> loads \ {l}]
<1> DEFINE s == [slot EXCEPT !.scanning = FALSE]
<1>1. slot \in Slot
  BY DEF Inv, TypeOK
<1>2. s \in Slot /\ s.scanning = FALSE /\ s.gen = slot.gen /\ SlotKept(slot, s) /\ s.watchFailed = slot.watchFailed
  BY <1>1 DEF Slot, SlotKept
<1>3. Answered(l) = [slot |-> s, loads |-> loads \ {l}]
  <2>1. Taken(l) = [slot |-> slot, loads |-> loads \ {l}]
    BY DEF Taken, World
  <2>2. Answered(l) = [Taken(l) EXCEPT !.slot = s]
    BY <2>1 DEF Answered
  <2> HIDE DEF s
  <2> QED
    BY <2>1, <2>2, SlotReplaced
<1> QED
  BY <1>2, <1>3

LEMMA LoadFailsStep == ASSUME Inv, NEW g \in Gens, LoadFails(g) PROVE Inv'
<1>1. PICK l \in loads : /\ l.gen = g
                         /\ Becomes(Owed([Answered(l) EXCEPT !.slot = [@ EXCEPT !.failed = TRUE]]))
  BY DEF LoadFails
<1>2. Room /\ slot.gen = g
  BY DEF LoadFails, AnswersSlot
<1> DEFINE t == [slot EXCEPT !.scanning = FALSE]
           s == [t EXCEPT !.failed = TRUE]
           w == [slot |-> s, loads |-> loads \ {l}]
<1>3. t \in Slot /\ t.scanning = FALSE /\ t.gen = slot.gen /\ SlotKept(slot, t)
      /\ Answered(l) = [slot |-> t, loads |-> loads \ {l}]
  BY AnsweredFields
<1> HIDE DEF t
<1>4. s \in Slot /\ s.scanning = FALSE /\ s.gen = slot.gen /\ SlotKept(slot, s)
  BY <1>3 DEF Slot, SlotKept
<1>5. [Answered(l) EXCEPT !.slot = [@ EXCEPT !.failed = TRUE]] = w
  <2>1. [Answered(l) EXCEPT !.slot = [@ EXCEPT !.failed = TRUE]] = [Answered(l) EXCEPT !.slot = s]
    BY <1>3
  <2> HIDE DEF s
  <2> QED
    BY <1>3, <2>1, SlotReplaced
<1> HIDE DEF s
<1>6. s.list <= clock /\ s.open
  <2>1. slot.open
    BY <1>2, WorldIsGood, NotebookAssumption DEF OneLoadEach
  <2> QED
    BY <1>4, <2>1 DEF SlotKept, Inv, NothingIsNewer
<1>7. w.slot = s /\ Goes(w, Owed(w)) /\ Becomes(Owed(w))
  BY <1>1, <1>2, <1>4, <1>5, <1>6, AnsweredWith
<1> HIDE DEF w
<1>8. Goes(World, Owed(w))
  BY <1>4, <1>7, WorldIsGood DEF Goes, SlotKept
<1> QED
  BY <1>7, <1>8, AskingStep DEF LoadFails

\* What a load brings to the slot it was for.
\* What install_of leaves of the slot, and what it makes of the list and the mark.
IsMerged(t, s, list, first) ==
  LET now == IF s.touched THEN disk ELSE list
  IN  /\ t \in Slot
      /\ t.loaded /\ t.list = now
      /\ t.mark <=> /\ now # 0 /\ ~shown
                    /\ IF s.loaded THEN s.mark \/ (~s.touched /\ now # s.list) ELSE first
      /\ t.open = s.open /\ t.gen = s.gen /\ t.scanning = s.scanning /\ t.touched = s.touched
      /\ t.watchGen = s.watchGen /\ t.watching = s.watching /\ t.watchFailed = s.watchFailed

LEMMA MergedFields ==
  ASSUME TypeOK, NEW s \in Slot, NEW list \in Nat, NEW first \in BOOLEAN
  PROVE  IsMerged(Merged(s, list, first), s, list, first)
<1> DEFINE now == IF s.touched THEN disk ELSE list
           mark == /\ now # 0
                   /\ ~shown
                   /\ IF s.loaded THEN s.mark \/ (~s.touched /\ now # s.list) ELSE first
<1>1. Merged(s, list, first) = [s EXCEPT !.loaded = TRUE, !.list = now, !.mark = mark]
  BY DEF Merged
<1>2. now \in Nat /\ mark \in BOOLEAN
  <2>1. s.loaded \in BOOLEAN /\ s.mark \in BOOLEAN
    BY DEF Slot
  <2>2. mark \in BOOLEAN
    OBVIOUS
  <2>3. now \in Nat
    BY DEF TypeOK
  <2> QED
    BY <2>2, <2>3
<1> DEFINE t == [s EXCEPT !.loaded = TRUE, !.list = now, !.mark = mark]
<1>3. (mark <=> /\ now # 0 /\ ~shown
                /\ IF s.loaded THEN s.mark \/ (~s.touched /\ now # s.list) ELSE first)
  OBVIOUS
<1> HIDE DEF now, mark
<1>4. /\ t \in Slot
      /\ t.loaded /\ t.list = now /\ t.mark = mark
      /\ t.open = s.open /\ t.gen = s.gen /\ t.scanning = s.scanning /\ t.touched = s.touched
      /\ t.watchGen = s.watchGen /\ t.watching = s.watching /\ t.watchFailed = s.watchFailed
  BY <1>2 DEF Slot
<1> HIDE DEF t
<1>5. Merged(s, list, first) = t
  BY <1>1 DEF t
<1> QED
  BY <1>3, <1>4, <1>5 DEF now, IsMerged

\* What ensure_watcher_of leaves of the slot.
IsEnsured(t, s, ok) ==
  /\ t \in Slot
  /\ t.open = s.open /\ t.gen = s.gen /\ t.scanning = s.scanning /\ t.touched = s.touched
  /\ t.loaded = s.loaded /\ t.list = s.list /\ t.mark = s.mark
  /\ IF s.watching \/ s.watchFailed
     THEN t.watching = s.watching /\ t.watchGen = s.watchGen
     ELSE t.watching = ok /\ t.watchGen = FreshWatch

LEMMA EnsuredFields ==
  ASSUME NEW s \in Slot, NEW ok \in BOOLEAN, FreshWatch \in Gens
  PROVE  IsEnsured(WatcherEnsured(s, ok), s, ok)
<1>1. CASE s.watching \/ s.watchFailed
  BY <1>1 DEF WatcherEnsured, IsEnsured
<1>2. CASE ~(s.watching \/ s.watchFailed)
  <2> DEFINE t == [s EXCEPT !.watchGen = FreshWatch, !.watching = ok, !.watchFailed = ~ok]
  <2>1. WatcherEnsured(s, ok) = t
    BY <1>2 DEF WatcherEnsured
  <2>2. (~ok) \in BOOLEAN
    OBVIOUS
  <2>3. /\ t \in Slot
        /\ t.open = s.open /\ t.gen = s.gen /\ t.scanning = s.scanning /\ t.touched = s.touched
        /\ t.loaded = s.loaded /\ t.list = s.list /\ t.mark = s.mark
        /\ t.watching = ok /\ t.watchGen = FreshWatch
    BY <2>2 DEF Slot, Gen
  <2> HIDE DEF t
  <2> QED
    BY <1>2, <2>1, <2>3 DEF IsEnsured
<1> QED
  BY <1>1, <1>2

LEMMA LoadLandsStep == ASSUME Inv, NEW g \in Gens, LoadLands(g) PROVE Inv'
<1>1. PICK l \in loads, first \in BOOLEAN, ok \in BOOLEAN :
        /\ l.gen = g
        /\ Becomes(Owed([Answered(l) EXCEPT !.slot = WatcherEnsured(Merged(@, l.list, first), ok)]))
        /\ watch' = IF ok /\ ~slot.watching /\ ~slot.watchFailed THEN Started(FreshWatch) ELSE watch
  BY DEF LoadLands
<1>2. /\ TypeOK /\ Room /\ slot.gen = g /\ slot.open
      /\ UNCHANGED <<disk, clock, posts, shown, job, own, opens, unseen>>
  BY WorldIsGood, NotebookAssumption DEF LoadLands, AnswersSlot, Inv, OneLoadEach
<1>3. FreshWatch \in Gens /\ FreshWatch \notin WatchGens
  BY <1>2, Fresh
<1>4. l.list \in Nat /\ l.list <= clock /\ disk <= clock
  BY <1>2 DEF TypeOK, Load, Inv, NothingIsNewer
<1> DEFINE t == [slot EXCEPT !.scanning = FALSE]
           now == IF t.touched THEN disk ELSE l.list
           m == Merged(t, l.list, first)
           s == WatcherEnsured(m, ok)
           w == [slot |-> s, loads |-> loads \ {l}]
<1>5. /\ t \in Slot /\ t.scanning = FALSE /\ t.gen = slot.gen
      /\ t.open = slot.open /\ t.loaded = slot.loaded /\ t.list = slot.list /\ t.mark = slot.mark
      /\ t.watchGen = slot.watchGen /\ t.watching = slot.watching /\ t.watchFailed = slot.watchFailed
      /\ t.touched = slot.touched
      /\ Answered(l) = [slot |-> t, loads |-> loads \ {l}]
  <2>1. t.touched = slot.touched
    BY <1>2 DEF TypeOK, Slot
  <2> HIDE DEF t
  <2>2. /\ t \in Slot /\ t.scanning = FALSE /\ t.gen = slot.gen
        /\ SlotKept(slot, t) /\ t.watchFailed = slot.watchFailed
        /\ Answered(l) = [slot |-> t, loads |-> loads \ {l}]
    BY AnsweredFields DEF t
  <2> QED
    BY <2>1, <2>2 DEF SlotKept
<1> HIDE DEF t
<1>6. /\ m \in Slot
      /\ m.loaded /\ m.list = now
      /\ m.mark <=> /\ now # 0 /\ ~shown
                    /\ IF t.loaded THEN t.mark \/ (~t.touched /\ now # t.list) ELSE first
      /\ m.open = t.open /\ m.gen = t.gen /\ m.scanning = t.scanning /\ m.touched = t.touched
      /\ m.watchGen = t.watchGen /\ m.watching = t.watching /\ m.watchFailed = t.watchFailed
  <2>1. IsMerged(m, t, l.list, first)
    BY <1>2, <1>4, <1>5, MergedFields
  <2> HIDE DEF m
  <2> QED
    BY <2>1 DEF IsMerged
<1> HIDE DEF m
<1>7. /\ s \in Slot
      /\ s.open = m.open /\ s.gen = m.gen /\ s.scanning = m.scanning /\ s.touched = m.touched
      /\ s.loaded = m.loaded /\ s.list = m.list /\ s.mark = m.mark
      /\ IF m.watching \/ m.watchFailed
         THEN s.watching = m.watching /\ s.watchGen = m.watchGen
         ELSE s.watching = ok /\ s.watchGen = FreshWatch
  <2>1. IsEnsured(s, m, ok)
    BY <1>3, <1>6, EnsuredFields
  <2> HIDE DEF s
  <2> QED
    BY <2>1 DEF IsEnsured
<1>8. [Answered(l) EXCEPT !.slot = WatcherEnsured(Merged(@, l.list, first), ok)] = w
  <2>1. [Answered(l) EXCEPT !.slot = WatcherEnsured(Merged(@, l.list, first), ok)]
          = [Answered(l) EXCEPT !.slot = s]
    BY <1>5 DEF m
  <2> HIDE DEF s
  <2> QED
    BY <1>5, <2>1, SlotReplaced
<1> HIDE DEF s
<1>9. now <= clock
  BY <1>4
<1>10. w.slot = s /\ Goes(w, Owed(w)) /\ Becomes(Owed(w))
  <2>1. s.scanning = FALSE /\ s.gen = slot.gen /\ s.list <= clock /\ s.open
    BY <1>2, <1>5, <1>6, <1>7, <1>9
  <2> HIDE DEF w
  <2>2. Becomes(Owed(w))
    BY <1>1, <1>8
  <2> QED
    BY <1>1, <1>2, <1>7, <2>1, <2>2, AnsweredWith DEF w
<1> HIDE DEF w
<1>11. /\ slot' \in Slot /\ loads' \subseteq Load
       /\ OneLoadEach(World)'
       /\ SlotKept(s, slot')
       /\ slot'.list <= clock /\ \A k \in loads' : k.list <= clock
  BY <1>10, BecomesStep
<1>12. /\ slot'.open /\ slot'.loaded /\ slot'.list = now
       /\ slot'.touched => slot.touched
       /\ slot'.mark <=> /\ now # 0 /\ ~shown
                         /\ IF slot.loaded THEN slot.mark \/ (~slot.touched /\ now # slot.list) ELSE first
  <2>1. slot'.open /\ slot'.loaded /\ slot'.list = now
    BY <1>2, <1>5, <1>6, <1>7, <1>11 DEF SlotKept
  <2>2. slot'.touched => slot.touched
    BY <1>5, <1>6, <1>7, <1>11 DEF SlotKept
  <2>3. slot'.mark = m.mark
    BY <1>7, <1>11 DEF SlotKept
  <2> HIDE DEF now
  <2> QED
    BY <1>5, <1>6, <2>1, <2>2, <2>3
<1>13. IF slot.watching \/ slot.watchFailed
       THEN slot'.watching = slot.watching /\ slot'.watchGen = slot.watchGen
       ELSE slot'.watching = ok /\ slot'.watchGen = FreshWatch
  BY <1>5, <1>6, <1>7, <1>11 DEF SlotKept
<1>14. now = IF slot.touched THEN disk ELSE l.list
  BY <1>5
<1> HIDE DEF now
<1>15. watch' \in [running : BOOLEAN, batch : Batch]
  BY <1>1, <1>2, <1>3, WatcherTypes DEF TypeOK, Gen
<1>16. TypeOK'
  BY <1>2, <1>11, <1>15 DEF TypeOK
<1>17. FailureIsLast' /\ SlotIsWatched'
  <2>1. CASE ok /\ ~slot.watching /\ ~slot.watchFailed
    <3>1. /\ watch'.running /\ watch'.batch.gen = FreshWatch /\ ~watch'.batch.failed
      BY <1>1, <1>3, <2>1, WatcherTypes DEF Gen
    <3>2. \A i \in 1..Len(posts) : posts[i].gen # FreshWatch
      BY <1>3 DEF WatchGens
    <3>3. FailureIsLast'
      BY <1>2, <3>1, <3>2 DEF Inv, FailureIsLast, Runs
    <3>4. SlotIsWatched'
      BY <1>13, <2>1, <3>1 DEF SlotIsWatched, Runs
    <3> QED
      BY <3>3, <3>4
  <2>2. CASE ~ok /\ ~slot.watching /\ ~slot.watchFailed
    <3>1. UNCHANGED <<watch, posts>>
      BY <1>1, <1>2, <2>2
    <3>2. ~Runs(FreshWatch) /\ ~Waits(FreshWatch)
      BY <1>3 DEF WatchGens, Runs, Waits
    <3>3. SlotIsWatched'
      BY <1>13, <2>2, <3>1, <3>2 DEF SlotIsWatched, Runs, Waits
    <3> QED
      BY <3>1, <3>3, FailureKept DEF Inv
  <2>3. CASE slot.watching \/ slot.watchFailed
    <3>1. UNCHANGED <<watch, posts>>
      BY <1>1, <1>2, <2>3
    <3>2. slot'.watching = slot.watching /\ slot'.watchGen = slot.watchGen /\ slot'.open = slot.open
      BY <1>2, <1>12, <1>13, <2>3, <1>11, <1>5, <1>6, <1>7 DEF SlotKept
    <3> QED
      BY <3>1, <3>2, FailureKept, WatchedKept DEF Inv
  <2> QED
    BY <2>1, <2>2, <2>3
<1>18. UnseenIsLoaded' /\ UnseenChangesAreMarked'
  <2>1. UnseenIsLoaded'
    BY <1>2, <1>12 DEF Inv, UnseenIsLoaded
  <2>2. ASSUME unseen, ~own, ~shown, now = disk, disk # 0
        PROVE  slot'.mark
    <3>1. slot.loaded /\ ~slot.touched
      BY <2>2 DEF Inv, UnseenIsLoaded
    <3>2. slot.list = disk => slot.mark
      BY <2>2, <3>1 DEF Inv, UnseenChangesAreMarked
    <3> QED
      BY <1>12, <2>2, <3>1, <3>2
  <2> QED
    BY <1>2, <1>12, <2>1, <2>2 DEF UnseenChangesAreMarked
<1> QED
  BY <1>2, <1>11, <1>16, <1>17, <1>18, <1>12 DEF Inv, NothingIsNewer, ReportIsOwn

-----------------------------------------------------------------------------
(* What the watcher reports.                                               *)

LEMMA Taking ==
  ASSUME TypeOK, posts # <<>>, posts' = Tail(posts)
  PROVE  /\ posts' \in Seq(Batch)
         /\ Head(posts) = posts[1] /\ Head(posts) \in Batch
         /\ Len(posts) \in Nat /\ Len(posts') = Len(posts) - 1 /\ 1 \in 1..Len(posts)
         /\ \A i \in 1..Len(posts') : posts'[i] = posts[i + 1]
BY DEF TypeOK

LEMMA TakingKeeps ==
  ASSUME TypeOK, FailureIsLast, posts # <<>>, posts' = Tail(posts), UNCHANGED watch
  PROVE  /\ FailureIsLast'
         /\ \A g : Runs(g)' <=> Runs(g)
         /\ \A g : g # Head(posts).gen \/ ~Head(posts).failed => (Waits(g)' <=> Waits(g))
         /\ \A g : g = Head(posts).gen /\ Head(posts).failed => ~Waits(g)' /\ ~Runs(g)'
<1>1. /\ Head(posts) = posts[1]
      /\ Len(posts) \in Nat /\ Len(posts') = Len(posts) - 1 /\ 1 \in 1..Len(posts)
      /\ \A i \in 1..Len(posts') : posts'[i] = posts[i + 1]
  BY Taking
<1>2. \A i \in 1..Len(posts') : i + 1 \in 1..Len(posts) /\ i + 1 # 1 /\ \A j \in 1..Len(posts') : i + 1 = j + 1 => i = j
  BY <1>1
<1>3. \A i \in 1..Len(posts) : i # 1 => i - 1 \in 1..Len(posts') /\ (i - 1) + 1 = i
  BY <1>1
<1>4. \A g : Runs(g)' <=> Runs(g)
  BY DEF Runs
<1>5. FailureIsLast'
  <2>1. ASSUME NEW i \in 1..Len(posts'), posts'[i].failed
        PROVE  /\ ~Runs(posts[i].gen)'
               /\ \A j \in 1..Len(posts') : posts'[j].failed /\ posts'[j].gen = posts'[i].gen => i = j
    <3>1. i + 1 \in 1..Len(posts) /\ posts'[i] = posts[i + 1]
      BY <1>1, <1>2
    <3>2. ~Runs(posts[i].gen)'
      BY <2>1, <3>1 DEF FailureIsLast, Runs
    <3>3. ASSUME NEW j \in 1..Len(posts'), posts'[j].failed, posts'[j].gen = posts'[i].gen
          PROVE  i = j
      <4>1. j + 1 \in 1..Len(posts) /\ posts'[j] = posts[j + 1]
        BY <1>1, <1>2
      <4>2. i + 1 = j + 1
        BY <2>1, <3>1, <3>3, <4>1 DEF FailureIsLast
      <4> QED
        BY <1>2, <4>2
    <3> QED
      BY <3>2, <3>3
  <2> QED
    BY <2>1 DEF FailureIsLast
<1>6. ASSUME NEW g PROVE Waits(g)' => Waits(g)
  BY <1>1, <1>2 DEF Waits
<1>7. ASSUME NEW g, g # Head(posts).gen \/ ~Head(posts).failed, Waits(g) PROVE Waits(g)'
  <2>1. PICK i \in 1..Len(posts) : posts[i].gen = g /\ posts[i].failed
    BY <1>7 DEF Waits
  <2>2. i # 1
    BY <1>1, <1>7, <2>1
  <2>3. i - 1 \in 1..Len(posts') /\ posts'[i - 1] = posts[i]
    BY <1>1, <1>3, <2>2
  <2> QED
    BY <2>1, <2>3 DEF Waits
<1>8. ASSUME NEW g, g = Head(posts).gen, Head(posts).failed PROVE ~Waits(g)' /\ ~Runs(g)'
  <2>1. ASSUME NEW i \in 1..Len(posts'), posts'[i].failed, posts'[i].gen = g PROVE FALSE
    <3>1. i + 1 \in 1..Len(posts) /\ i + 1 # 1 /\ posts'[i] = posts[i + 1]
      BY <1>1, <1>2
    <3> QED
      BY <1>1, <1>8, <2>1, <3>1 DEF FailureIsLast
  <2> QED
    BY <1>1, <1>4, <1>8, <2>1 DEF FailureIsLast, Waits
<1> QED
  BY <1>4, <1>5, <1>6, <1>7, <1>8

\* A batch changes the slot, and may ask for a load.
LEMMA ReportedStep ==
  ASSUME Inv, NEW s \in Slot, NEW v, Goes([slot |-> s, loads |-> loads], v), Becomes(v),
         posts' \in Seq(Batch), FailureIsLast', SlotIsWatched',
         s.open = slot.open, s.loaded = slot.loaded, s.touched => slot.touched,
         unseen /\ ~own /\ ~shown /\ s.list = disk /\ disk # 0 => s.mark,
         UNCHANGED <<disk, clock, watch, shown, job, own, opens, unseen>>
  PROVE  Inv'
<1> DEFINE w == [slot |-> s, loads |-> loads]
<1>1. w.slot = s
  OBVIOUS
<1> HIDE DEF w
<1>2. Goes(w, v)
  BY DEF w
<1>3. /\ slot' \in Slot /\ loads' \subseteq Load
      /\ OneLoadEach(World)'
      /\ SlotKept(s, slot')
      /\ slot'.list <= clock /\ \A l \in loads' : l.list <= clock
  BY <1>1, <1>2, BecomesStep
<1>4. TypeOK'
  BY <1>3 DEF Inv, TypeOK
<1>5. UnseenIsLoaded' /\ UnseenChangesAreMarked'
  BY <1>3 DEF Inv, SlotKept, UnseenIsLoaded, UnseenChangesAreMarked
<1> QED
  BY <1>3, <1>4, <1>5 DEF Inv, NothingIsNewer, ReportIsOwn, SlotKept

LEMMA WorldWith ==
  ASSUME Inv, NEW s \in Slot, s.open = slot.open, s.gen = slot.gen, s.scanning = slot.scanning, s.list <= clock
  PROVE  LET w == [slot |-> s, loads |-> loads]
         IN  Typed(w) /\ OneLoadEach(w) /\ ListsAreOld(w) /\ w.loads = loads /\ w.slot = s
<1> DEFINE w == [slot |-> s, loads |-> loads]
<1>1. w.slot = s /\ w.loads = loads /\ Typed(w)
  BY DEF Inv, TypeOK, Typed
<1> HIDE DEF w
<1>2. OneLoadEach(w) /\ ListsAreOld(w)
  BY <1>1, WorldIsGood DEF OneLoadEach, ListsAreOld
<1> QED
  BY <1>1, <1>2 DEF w

\* mark_outside_changes_of marks what it finds changed.
IsStamped(t, s) ==
  /\ t \in Slot
  /\ t.open = s.open /\ t.gen = s.gen /\ t.scanning = s.scanning /\ t.touched = s.touched /\ t.loaded = s.loaded
  /\ t.watchGen = s.watchGen /\ t.watching = s.watching
  /\ t.list \in {s.list, disk}
  /\ t.mark <=> s.mark \/ (t.list # s.list /\ ~shown)

LEMMA StampedFields ==
  ASSUME TypeOK, NEW s \in Slot, NEW b
  PROVE  IsStamped(OutsideStampTaken(s, b), s)
<1> DEFINE mark == s.mark \/ (s.list # disk /\ ~shown)
           t == [s EXCEPT !.list = disk, !.mark = mark]
<1>1. CASE s.loaded /\ s.list # 0 /\ disk # 0
  <2>1. OutsideStampTaken(s, b) = t
    BY <1>1 DEF OutsideStampTaken
  <2>2. mark \in BOOLEAN /\ (mark <=> s.mark \/ (disk # s.list /\ ~shown))
    BY DEF Slot
  <2>3. disk \in Nat
    BY DEF TypeOK
  <2> HIDE DEF mark
  <2>4. /\ t \in Slot
        /\ t.open = s.open /\ t.gen = s.gen /\ t.scanning = s.scanning /\ t.touched = s.touched /\ t.loaded = s.loaded
        /\ t.watchGen = s.watchGen /\ t.watching = s.watching /\ t.list = disk /\ t.mark = mark
    BY <2>2, <2>3 DEF Slot
  <2> HIDE DEF t
  <2> QED
    BY <2>1, <2>2, <2>4 DEF IsStamped
<1>2. CASE ~(s.loaded /\ s.list # 0 /\ disk # 0)
  BY <1>2 DEF OutsideStampTaken, IsStamped
<1> QED
  BY <1>1, <1>2

LEMMA FilesChangedStep == ASSUME Inv, FilesChanged PROVE Inv'
<1>1. PICK limit \in {FALSE, own} :
        LET b == Head(posts)
            note == b.note /\ ~limit
            taken == [World EXCEPT !.slot = IF note THEN OutsideStampTaken(@, b) ELSE @]
        IN  Becomes(IF ~ReportsToSlot(b) THEN World
                    ELSE IF b.failed THEN [World EXCEPT !.slot = [@ EXCEPT !.watching = FALSE, !.watchFailed = TRUE]]
                    ELSE IF b.overflow THEN RescanAsked(World)
                    ELSE IF ~note /\ ~b.other THEN World
                    ELSE IF b.names THEN RescanAsked(taken)
                    ELSE taken)
  BY DEF FilesChanged
<1>2. /\ TypeOK /\ Room /\ posts # <<>> /\ posts' = Tail(posts)
      /\ UNCHANGED <<disk, clock, watch, shown, job, own, opens, unseen>>
  BY DEF Inv, FilesChanged
<1> DEFINE b == Head(posts)
           note == b.note /\ ~limit
           s == IF note THEN OutsideStampTaken(slot, b) ELSE slot
           t == [slot EXCEPT !.watching = FALSE, !.watchFailed = TRUE]
           taken == [slot |-> s, loads |-> loads]
           failed == [slot |-> t, loads |-> loads]
<1>3. b \in Batch /\ posts' \in Seq(Batch)
  BY <1>2, Taking
<1>4. /\ FailureIsLast'
      /\ \A g : Runs(g)' <=> Runs(g)
      /\ \A g : g # b.gen \/ ~b.failed => (Waits(g)' <=> Waits(g))
      /\ \A g : g = b.gen /\ b.failed => ~Waits(g)' /\ ~Runs(g)'
  BY <1>2, TakingKeeps DEF Inv
<1>5. /\ [World EXCEPT !.slot = IF note THEN OutsideStampTaken(@, b) ELSE @] = taken
      /\ [World EXCEPT !.slot = [@ EXCEPT !.watching = FALSE, !.watchFailed = TRUE]] = failed
  <2>1. [World EXCEPT !.slot = IF note THEN OutsideStampTaken(@, b) ELSE @] = [World EXCEPT !.slot = s]
    BY DEF World
  <2>2. [World EXCEPT !.slot = [@ EXCEPT !.watching = FALSE, !.watchFailed = TRUE]] = [World EXCEPT !.slot = t]
    BY DEF World
  <2> HIDE DEF s, t
  <2> QED
    BY <2>1, <2>2, SlotReplaced DEF World
<1>6. slot \in Slot /\ slot.list <= clock /\ disk <= clock
  BY <1>2 DEF TypeOK, Inv, NothingIsNewer
<1>7. /\ s \in Slot
      /\ s.open = slot.open /\ s.gen = slot.gen /\ s.scanning = slot.scanning /\ s.touched = slot.touched
      /\ s.loaded = slot.loaded /\ s.watchGen = slot.watchGen /\ s.watching = slot.watching
      /\ s.list \in {slot.list, disk} /\ (s.mark <=> slot.mark \/ (s.list # slot.list /\ ~shown))
  <2>1. CASE note
    <3>1. IsStamped(s, slot)
      BY <1>2, <1>6, <2>1, StampedFields
    <3> HIDE DEF s
    <3> QED
      BY <3>1 DEF IsStamped
  <2>2. CASE ~note
    BY <1>6, <2>2
  <2> QED
    BY <2>1, <2>2
<1> HIDE DEF s
<1>8. unseen /\ ~own /\ ~shown /\ s.list = disk /\ disk # 0 => s.mark
  BY <1>7 DEF Inv, UnseenChangesAreMarked, UnseenIsLoaded
<1>9. Typed(taken) /\ OneLoadEach(taken) /\ ListsAreOld(taken) /\ taken.loads = loads
  BY <1>6, <1>7, WorldWith
<1>10. World = [slot |-> slot, loads |-> loads] /\ Goes(World, World) /\ Goes(World, RescanAsked(World))
  BY <1>2, WorldIsGood, StaysStep, AskedStep DEF World
<1> DEFINE quiet == unseen /\ ~own /\ ~shown /\ slot.list = disk /\ disk # 0 => slot.mark
<1>11. quiet
  BY DEF Inv, UnseenChangesAreMarked, UnseenIsLoaded
<1> HIDE DEF b
<1>12. CASE ~ReportsToSlot(b)
  <2>1. Becomes(World)
    BY <1>1, <1>12 DEF b
  <2>2. SlotIsWatched'
    BY <1>4, <1>12, <2>1 DEF Inv, SlotIsWatched, ReportsToSlot, Becomes, World
  <2> QED
    BY <1>2, <1>3, <1>4, <1>6, <1>10, <1>11, <2>1, <2>2, ReportedStep
<1>13. CASE ReportsToSlot(b) /\ b.failed
  <2>1. Becomes(failed)
    BY <1>1, <1>5, <1>13 DEF b
  <2>2. /\ t \in Slot /\ t.open = slot.open /\ t.gen = slot.gen /\ t.scanning = slot.scanning
        /\ t.touched = slot.touched /\ t.loaded = slot.loaded /\ t.list = slot.list /\ t.mark = slot.mark
        /\ t.watchGen = slot.watchGen /\ ~t.watching
    BY <1>6 DEF Slot
  <2> HIDE DEF t
  <2>3. Typed(failed) /\ OneLoadEach(failed) /\ ListsAreOld(failed) /\ failed.slot = t
    BY <1>6, <2>2, WorldWith
  <2>4. Goes(failed, failed)
    BY <2>3, StaysStep
  <2>5. slot'.open = slot.open /\ ~slot'.watching /\ slot'.watchGen = slot.watchGen
    BY <2>1, <2>2, <2>3 DEF Becomes
  <2>6. SlotIsWatched'
    BY <1>4, <1>13, <2>5 DEF SlotIsWatched, ReportsToSlot
  <2> QED
    BY <1>2, <1>3, <1>4, <1>11, <2>1, <2>2, <2>4, <2>6, ReportedStep
<1>14. CASE ReportsToSlot(b) /\ ~b.failed
  <2>1. \A g : (Waits(g)' <=> Waits(g)) /\ (Runs(g)' <=> Runs(g))
    BY <1>4, <1>14
  <2>2. SameWatching => SlotIsWatched'
    BY <2>1 DEF Inv, SlotIsWatched, SameWatching
  <2>3. CASE Becomes(World) \/ Becomes(RescanAsked(World))
    <3>1. PICK v : Goes(World, v) /\ Becomes(v)
      BY <1>10, <2>3
    <3>2. SameWatching
      BY <3>1, WorldFields DEF Goes, SlotKept, Becomes, SameWatching
    <3> QED
      BY <1>2, <1>3, <1>4, <1>6, <1>10, <1>11, <2>2, <3>1, <3>2, ReportedStep
  <2>4. CASE Becomes(taken) \/ Becomes(RescanAsked(taken))
    <3>1. taken.slot = s /\ taken.loads \subseteq loads
      BY <1>9
    <3>2. Goes(taken, taken) /\ Goes(taken, RescanAsked(taken))
      BY <1>2, <1>9, <3>1, StaysStep, AskedStep
    <3>3. PICK v : Goes(taken, v) /\ Becomes(v)
      BY <2>4, <3>2
    <3>4. SameWatching
      BY <1>7, <3>1, <3>3 DEF Goes, SlotKept, Becomes, SameWatching
    <3> QED
      BY <1>2, <1>3, <1>4, <1>7, <1>8, <2>2, <3>3, <3>4, ReportedStep
  <2>5. Becomes(World) \/ Becomes(RescanAsked(World)) \/ Becomes(taken) \/ Becomes(RescanAsked(taken))
    BY <1>1, <1>5, <1>14 DEF b
  <2> QED
    BY <2>3, <2>4, <2>5
<1> QED
  BY <1>12, <1>13, <1>14

-----------------------------------------------------------------------------
(* FastPad's own writes.                                                   *)

\* A write of FastPad's own, which no listing has yet.
LEMMA OwnWrite ==
  ASSUME Inv, Report(TRUE, TRUE), UNCHANGED posts, clock' = clock + 1, disk' = clock + 1
  PROVE  /\ Hears /\ clock' \in Nat /\ disk' \in Nat /\ disk' <= clock' /\ clock \in Nat /\ disk' > clock
         /\ \A n \in Nat : n <= clock => n <= clock' /\ n # disk'
<1>1. Hears
  BY ReportStep DEF Inv
<1>2. clock \in Nat
  BY DEF Inv, TypeOK
<1> QED
  BY <1>1, <1>2

\* Only what the slot knows of the note changes: its loads still answer to it.
NoteOnly ==
  /\ slot' \in Slot
  /\ slot'.open = slot.open /\ slot'.gen = slot.gen /\ slot'.scanning = slot.scanning
  /\ slot'.loaded = slot.loaded /\ SameWatching
  /\ UNCHANGED loads

LEMMA LoadsStay == ASSUME OneLoadEach(World), NoteOnly PROVE OneLoadEach(World)'
BY DEF OneLoadEach, World, NoteOnly

LEMMA KnownTypes ==
  ASSUME TypeOK
  PROVE  slot \in Slot /\ slot.list \in Nat /\ job.stamp \in Nat /\ job.id \in Nat /\ \A l \in loads : l.list \in Nat
BY DEF TypeOK, Slot, Job, Load

LEMMA SaveStep == ASSUME Inv, Save PROVE Inv'
<1>1. /\ Report(TRUE, TRUE) /\ clock' = clock + 1 /\ disk' = clock + 1 /\ unseen' = FALSE
      /\ slot' = IF slot.loaded THEN [slot EXCEPT !.list = clock + 1, !.touched = TRUE] ELSE slot
      /\ UNCHANGED <<loads, posts, shown, job, own, opens>>
  BY DEF Save
<1>2. /\ Hears /\ clock' \in Nat /\ disk' \in Nat /\ disk' <= clock' /\ clock \in Nat
      /\ \A n \in Nat : n <= clock => n <= clock'
  BY <1>1, OwnWrite
<1>3. TypeOK
  BY DEF Inv
<1>4. NoteOnly /\ slot'.list \in {slot.list, clock'}
  BY <1>1, <1>2, <1>3, KnownTypes DEF Slot, NoteOnly, SameWatching
<1>5. FailureIsLast' /\ SlotIsWatched'
  BY <1>2, <1>4, HeardKept DEF Inv, NoteOnly
<1>6. NothingIsNewer'
  BY <1>1, <1>2, <1>3, <1>4, KnownTypes DEF Inv, NothingIsNewer
<1>7. TypeOK'
  BY <1>1, <1>2, <1>3, <1>4 DEF TypeOK, Hears, NoteOnly
<1>8. UnseenIsLoaded' /\ UnseenChangesAreMarked' /\ ReportIsOwn'
  BY <1>1, <1>4 DEF Inv, NoteOnly, UnseenIsLoaded, UnseenChangesAreMarked, ReportIsOwn
<1> QED
  BY <1>4, <1>5, <1>6, <1>7, <1>8, LoadsStay DEF Inv

LEMMA AskReplaceStep == ASSUME Inv, AskReplace PROVE Inv'
<1>1. /\ job' = [phase |-> "asked", id |-> opens, stamp |-> slot.list] /\ own' = TRUE
      /\ UNCHANGED <<disk, clock, slot, loads, watch, posts, shown, opens, unseen>>
  BY DEF AskReplace
<1>2. TypeOK /\ slot.list \in Nat
  BY KnownTypes DEF Inv
<1>3. job'.id = opens /\ job'.stamp = slot.list /\ job' \in Job
  BY <1>1, <1>2 DEF Job, TypeOK
<1>4. TypeOK'
  BY <1>1, <1>2, <1>3 DEF TypeOK
<1>5. FailureIsLast' /\ SlotIsWatched'
  BY <1>1, FailureKept, WatchedKept DEF Inv
<1>6. NothingIsNewer' /\ ReportIsOwn'
  <2>1. opens <= opens
    BY <1>2 DEF TypeOK
  <2> QED
    BY <1>1, <1>3, <2>1 DEF Inv, NothingIsNewer, ReportIsOwn
<1>7. UnseenIsLoaded' /\ UnseenChangesAreMarked'
  BY <1>1 DEF Inv, UnseenIsLoaded, UnseenChangesAreMarked
<1> QED
  BY <1>1, <1>4, <1>5, <1>6, <1>7, SameWorld DEF Inv

LEMMA ReplaceWritesStep == ASSUME Inv, ReplaceWrites PROVE Inv'
<1>1. /\ Report(TRUE, TRUE) /\ clock' = clock + 1 /\ disk' = clock + 1
      /\ job.phase = "asked" /\ job' = [job EXCEPT !.phase = "written", !.stamp = clock + 1]
      /\ UNCHANGED <<slot, loads, posts, shown, own, opens, unseen>>
  BY DEF ReplaceWrites
<1>2. /\ Hears /\ clock' \in Nat /\ disk' \in Nat /\ disk' <= clock' /\ clock \in Nat
      /\ \A n \in Nat : n <= clock => n <= clock' /\ n # disk'
  BY <1>1, OwnWrite
<1>3. TypeOK /\ job \in Job
  BY DEF Inv, TypeOK
<1>4. job' \in Job /\ job'.id = job.id /\ job'.stamp = clock'
  BY <1>1, <1>2, <1>3 DEF Job
<1>5. FailureIsLast' /\ SlotIsWatched'
  BY <1>1, <1>2, HeardKept DEF Inv, SameWatching
<1>6. NothingIsNewer'
  BY <1>1, <1>2, <1>3, <1>4, KnownTypes DEF Inv, NothingIsNewer
<1>7. TypeOK'
  BY <1>1, <1>2, <1>3, <1>4 DEF TypeOK, Hears
<1>8. ReportIsOwn'
  BY <1>1, <1>4 DEF Inv, ReportIsOwn
<1>9. UnseenIsLoaded' /\ UnseenChangesAreMarked'
  <2>1. slot'.list # disk'
    BY <1>1, <1>2, <1>3, KnownTypes DEF Inv, NothingIsNewer
  <2> QED
    BY <1>1, <2>1 DEF Inv, UnseenIsLoaded, UnseenChangesAreMarked
<1> QED
  BY <1>1, <1>5, <1>6, <1>7, <1>8, <1>9, SameWorld DEF Inv

LEMMA ReplaceLandsStep == ASSUME Inv, ReplaceLands PROVE Inv'
<1>1. /\ job.phase # "idle" /\ job' = Idle
      /\ UNCHANGED <<disk, clock, loads, watch, posts, shown, own, opens, unseen>>
  BY DEF ReplaceLands
<1>2. TypeOK /\ clock \in Nat
  BY DEF Inv, TypeOK
<1>3. Idle \in Job /\ Idle.phase = "idle" /\ Idle.stamp = 0
  BY DEF Idle, Job
<1>4. FailureIsLast'
  BY <1>1, FailureKept DEF Inv
<1>5. CASE UNCHANGED slot
  <2>1. TypeOK' /\ SlotIsWatched' /\ NothingIsNewer' /\ ReportIsOwn'
    BY <1>1, <1>2, <1>3, <1>5, WatchedKept DEF Inv, TypeOK, NothingIsNewer, ReportIsOwn
  <2> QED
    BY <1>1, <1>4, <1>5, <2>1, SameWorld, SeenKept DEF Inv
<1>6. CASE slot.loaded /\ opens = job.id /\ slot' = [slot EXCEPT !.list = job.stamp, !.touched = TRUE]
  <2>1. NoteOnly /\ slot'.list = job.stamp /\ job.stamp <= clock
    BY <1>1, <1>2, <1>6, KnownTypes DEF Slot, NoteOnly, SameWatching, Inv, NothingIsNewer
  <2>2. own
    BY <1>1, <1>6 DEF Inv, ReportIsOwn, UnseenIsLoaded
  <2>3. TypeOK'
    BY <1>1, <1>2, <1>3, <2>1 DEF TypeOK, NoteOnly
  <2>4. SlotIsWatched'
    BY <1>1, <2>1, WatchedKept DEF Inv, NoteOnly, SameWatching
  <2>5. NothingIsNewer' /\ ReportIsOwn'
    BY <1>1, <1>2, <1>3, <2>1 DEF Inv, NothingIsNewer, ReportIsOwn
  <2>6. UnseenIsLoaded' /\ UnseenChangesAreMarked'
    BY <1>1, <2>1, <2>2 DEF Inv, NoteOnly, UnseenIsLoaded, UnseenChangesAreMarked
  <2> QED
    BY <1>4, <2>1, <2>3, <2>4, <2>5, <2>6, LoadsStay DEF Inv
<1> QED
  BY <1>5, <1>6 DEF ReplaceLands

-----------------------------------------------------------------------------
(* What the user looks at.                                                 *)

LEMMA UnmarkedFields ==
  ASSUME TypeOK, slot' = Unmarked, UNCHANGED loads
  PROVE  NoteOnly /\ slot'.list = slot.list /\ slot'.touched = slot.touched
BY KnownTypes DEF Unmarked, Slot, NoteOnly, SameWatching

LEMMA LookStep == ASSUME Inv, Show \/ Hide \/ ClearMarks PROVE Inv'
<1>1. /\ UNCHANGED <<disk, clock, loads, watch, posts, job, own, opens>>
      /\ shown' \in BOOLEAN
      /\ \/ slot' = Unmarked /\ unseen' = FALSE
         \/ UNCHANGED <<slot, unseen>> /\ ~shown'
  BY DEF Show, Hide, ClearMarks, Inv, TypeOK
<1>2. TypeOK
  BY DEF Inv
<1>3. NoteOnly /\ slot'.list = slot.list /\ slot'.touched = slot.touched
  <2>1. CASE slot' = Unmarked
    BY <1>1, <1>2, <2>1, UnmarkedFields
  <2>2. CASE UNCHANGED slot
    BY <1>1, <1>2, <2>2, KnownTypes DEF NoteOnly, SameWatching
  <2> QED
    BY <1>1, <2>1, <2>2
<1>4. TypeOK'
  <2>1. unseen' \in BOOLEAN
    BY <1>1, <1>2 DEF TypeOK
  <2> QED
    BY <1>1, <1>2, <1>3, <2>1 DEF TypeOK, NoteOnly
<1>5. FailureIsLast' /\ SlotIsWatched'
  BY <1>1, <1>3, FailureKept, WatchedKept DEF Inv, NoteOnly, SameWatching
<1>6. NothingIsNewer' /\ ReportIsOwn'
  BY <1>1, <1>3 DEF Inv, NoteOnly, NothingIsNewer, ReportIsOwn
<1>7. UnseenIsLoaded' /\ UnseenChangesAreMarked'
  <2>1. CASE unseen' = FALSE
    BY <1>3, <2>1 DEF Inv, NoteOnly, UnseenIsLoaded, UnseenChangesAreMarked
  <2>2. CASE UNCHANGED <<slot, unseen>> /\ ~shown'
    BY <1>1, <2>2 DEF Inv, UnseenIsLoaded, UnseenChangesAreMarked
  <2> QED
    BY <1>1, <2>1, <2>2
<1> QED
  BY <1>3, <1>4, <1>5, <1>6, <1>7, LoadsStay DEF Inv

-----------------------------------------------------------------------------
(* The theorems.                                                           *)

\* What an earlier opening leaves on its way does no harm.
LEMMA LeftFields ==
  ASSUME NEW left \in Left
  PROVE  /\ left.loads \subseteq Load /\ left.posts \in Seq(Batch)
         /\ \A l, m \in left.loads : l.gen = m.gen => l = m
         /\ \A l \in left.loads : l.list = 0
         /\ Len(left.posts) <= 1
<1> DEFINE g == CHOOSE g \in Gens : TRUE
           load == [gen |-> g, phase |-> "started", list |-> 0]
           batch == [NoBatch(g) EXCEPT !.failed = TRUE]
<1>1. g \in Gens /\ g \in Gen
  BY NotebookAssumption DEF Gen
<1>2. left \in {[loads |-> {load}, posts |-> <<>>], [loads |-> {}, posts |-> <<batch>>]}
  BY DEF Left
<1> HIDE DEF g
<1>3. load \in Load /\ load.list = 0 /\ batch \in Batch
  BY <1>1, FailedBatch DEF Load
<1> HIDE DEF load, batch
<1>4. CASE left = [loads |-> {load}, posts |-> <<>>]
  BY <1>3, <1>4
<1>5. CASE left = [loads |-> {}, posts |-> <<batch>>]
  BY <1>3, <1>5
<1> QED
  BY <1>2, <1>4, <1>5

LEMMA InitInv == Init => Inv
<1> SUFFICES ASSUME Init PROVE Inv
  OBVIOUS
<1>1. PICK left \in Left : loads = left.loads /\ posts = left.posts
  BY DEF Init
<1>2. /\ loads \subseteq Load /\ posts \in Seq(Batch)
      /\ \A l, m \in loads : l.gen = m.gen => l = m
      /\ \A l \in loads : l.list = 0
      /\ Len(posts) <= 1 /\ Len(posts) \in Nat
  BY <1>1, LeftFields
<1>3. /\ slot \in Slot /\ ~slot.open /\ slot.gen = None /\ ~slot.loaded /\ slot.list = 0
  BY ClosedType DEF Init, Gen
<1>4. /\ watch \in [running : BOOLEAN, batch : Batch] /\ ~watch.running /\ ~watch.batch.failed
  BY WatcherTypes DEF Init, Gen
<1>5. job \in Job /\ job.phase = "idle" /\ job.stamp = 0
  BY DEF Init, Idle, Job
<1>6. /\ disk \in Nat /\ clock \in Nat /\ disk <= clock /\ 0 <= clock /\ opens \in Nat
      /\ shown = FALSE /\ own = FALSE /\ unseen = FALSE
  BY DEF Init
<1>7. TypeOK
  BY <1>2, <1>3, <1>4, <1>5, <1>6 DEF TypeOK
<1>8. OneLoadEach(World)
  BY <1>2, <1>3 DEF OneLoadEach, World
<1>9. FailureIsLast /\ SlotIsWatched
  <2>1. \A i, j \in 1..Len(posts) : i = j
    BY <1>2
  <2> QED
    BY <1>3, <1>4, <2>1 DEF FailureIsLast, SlotIsWatched, Runs
<1>10. NothingIsNewer /\ UnseenIsLoaded /\ ReportIsOwn /\ UnseenChangesAreMarked
  BY <1>2, <1>3, <1>5, <1>6 DEF NothingIsNewer, UnseenIsLoaded, ReportIsOwn, UnseenChangesAreMarked
<1> QED
  BY <1>7, <1>8, <1>9, <1>10 DEF Inv

LEMMA StutterStep == ASSUME Inv, UNCHANGED vars PROVE Inv'
<1>1. /\ UNCHANGED <<disk, clock, slot, loads, watch, posts, shown, job, own, opens, unseen>>
  BY DEF vars
<1>2. TypeOK'
  BY <1>1 DEF Inv, TypeOK
<1> QED
  BY <1>1, <1>2, SameWorld, FailureKept, WatchedKept, SeenKept DEF Inv, NothingIsNewer, ReportIsOwn

LEMMA NextInv == Inv /\ [Next]_vars => Inv'
<1> SUFFICES ASSUME Inv, [Next]_vars PROVE Inv'
  OBVIOUS
<1>1. CASE Foreign
  BY <1>1, ForeignStep
<1>2. CASE Post
  BY <1>2, PostStep
<1>3. CASE WatchFails
  BY <1>3, WatchFailsStep
<1>4. CASE Open
  BY <1>4, OpenStep
<1>5. CASE Close
  BY <1>5, CloseStep
<1>6. ASSUME NEW g \in Gens, LoadReads(g) PROVE Inv'
  BY <1>6, LoadReadsStep
<1>7. ASSUME NEW g \in Gens, LoadIsLate(g) PROVE Inv'
  BY <1>7, LoadIsLateStep
<1>8. ASSUME NEW g \in Gens, LoadFails(g) PROVE Inv'
  BY <1>8, LoadFailsStep
<1>9. ASSUME NEW g \in Gens, LoadLands(g) PROVE Inv'
  BY <1>9, LoadLandsStep
<1>10. CASE Refresh \/ Return
  BY <1>10, RefreshStep
<1>11. CASE FilesChanged
  BY <1>11, FilesChangedStep
<1>12. CASE Save
  BY <1>12, SaveStep
<1>13. CASE AskReplace
  BY <1>13, AskReplaceStep
<1>14. CASE ReplaceWrites
  BY <1>14, ReplaceWritesStep
<1>15. CASE ReplaceLands
  BY <1>15, ReplaceLandsStep
<1>16. CASE Show \/ Hide \/ ClearMarks
  BY <1>16, LookStep
<1>17. CASE UNCHANGED vars
  BY <1>17, StutterStep
<1> QED
  BY <1>1, <1>2, <1>3, <1>4, <1>5, <1>6, <1>7, <1>8, <1>9, <1>10, <1>11, <1>12, <1>13, <1>14, <1>15, <1>16,
     <1>17 DEF Next

LEMMA InvAlways == Spec => []Inv
BY InitInv, NextInv, PTL DEF Spec

\* The slot, its loads, the watcher and what waits for the window have their
\* types: no handler leaves the slot a generation or a mark that is none.
THEOREM TypeCorrect == Spec => []TypeOK
<1>1. Inv => TypeOK
  BY DEF Inv
<1> QED
  BY <1>1, InvAlways, PTL

\* Whatever is opened, closed, rescanned or late, a slot says it is loading
\* exactly while one load will answer to it (library_ready), and that it is
\* watched exactly while a watcher will report to it (files_changed).
THEOREM OneWorker == Spec => []OneWorkerEach
<1>1. Inv => OneWorkerEach
  BY DEF Inv, OneLoadEach, World, SlotIsWatched, Runs, OneWorkerEach
<1> QED
  BY <1>1, InvAlways, PTL

\* A note another program changed is marked once the list has the change,
\* whichever of a scan, a batch or a save brought it there (merge_rescan,
\* mark_outside_changes_of), for any number of changes and openings.
THEOREM ChangesAreMarked == Spec => []UnseenChangesAreMarked
<1>1. Inv => UnseenChangesAreMarked
  BY DEF Inv
<1> QED
  BY <1>1, InvAlways, PTL

================================================================================
