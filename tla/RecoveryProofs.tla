--------------------------- MODULE RecoveryProofs ---------------------------
(***************************************************************************)
(* Theorems about Recovery, for any number of processes and documents,     *)
(* with other processes running or not.                                    *)
(***************************************************************************)
EXTENDS Recovery, FiniteSetTheorems, WellFoundedInduction, TLAPS

\* The snapshots a process with fields c and documents t acts on.
Held(c, t) ==
  c.doomed \cup c.todo \cup {f.id : f \in c.found}
    \cup ({t[n].origin : n \in {m \in Slot : t[m] # None}} \ {None})

Mine(p, id) == Owner(id) = p \/ proc[Owner(id)].state \in {"leaving", "gone"}

\* A process whose snapshots the manifest may name: one past its prompts, which
\* opens and removes nothing the manifest names any more.
HandsOver(c) == c.state \in {"leaving", "gone"} \/ (c.primary /\ c.state \in {"cleaning", "exiting"})

Adopting(c, t) == c.busy = "adopt" => c.used \in Slot /\ t[c.used] # None /\ t[c.used].origin # None

\* Why no process touches the snapshots of one with documents: what it holds is
\* its own or was let go by its writer, and the manifest, which only the one
\* primary takes, names files of processes on their way out.
OwnerInv ==
  /\ TypeOK
  /\ \A p \in Process : /\ Adopting(proc[p], tabs[p])
                        /\ proc[p].state \in {"saving", "cleaning"} => proc[p].primary
                        /\ ~HasDocuments(p) => Idle(p)
                        /\ \A id \in Held(proc[p], tabs[p]) : Mine(p, id)
  /\ \A p, q \in Process :
       HasDocuments(p) /\ HasDocuments(q) /\ proc[p].primary /\ proc[q].primary => p = q
  /\ \A id \in manifest : HandsOver(proc[Owner(id)])
  /\ \A id \in Id : snaps[id] # None => proc[Owner(id)].state # "off"

LEMMA IdFacts ==
  /\ None \notin Id
  /\ None \notin Text
  /\ \A id \in Id : Owner(id) \in Process
  /\ \A p \in Process, n \in Slot : <<p, n>> \in Id /\ Owner(<<p, n>>) = p
BY RecoveryAssumption DEF Id, Slot, Text, Owner

LEMMA NoneIsNoTab == None \notin Tab
BY RecoveryAssumption DEF Tab

LEMMA NotStartedType == NotStarted \in Proc
<1>1. 0 \in 0..MaxTabs
  BY RecoveryAssumption
<1> QED
  BY <1>1 DEF NotStarted, Proc

LEMMA OwnerInit == Init => OwnerInv
<1> SUFFICES ASSUME Init PROVE OwnerInv
  OBVIOUS
<1>1. TypeOK
  BY RecoveryAssumption, NotStartedType DEF Init, TypeOK
<1>2. ASSUME NEW p \in Process
      PROVE  /\ proc[p] = NotStarted
             /\ \A n \in Slot : tabs[p][n] = None
  BY DEF Init
<1>3. ASSUME NEW p \in Process
      PROVE  /\ Adopting(proc[p], tabs[p])
             /\ proc[p].state = "off" /\ Idle(p)
             /\ Held(proc[p], tabs[p]) = {}
  BY <1>2 DEF NotStarted, Adopting, Held, Idle
<1> QED
  BY <1>1, <1>3 DEF OwnerInv, HasDocuments, Init

\* A step of one process, c and t being its fields and documents afterwards.
LEMMA ProcessMoves ==
  ASSUME OwnerInv, NEW p \in Process, NEW c \in Proc, NEW t \in [Slot -> Tab \cup {None}],
         proc' = [proc EXCEPT ![p] = c],
         tabs' = [tabs EXCEPT ![p] = t],
         snaps' \in [Id -> Text \cup {None}],
         manifest' \in SUBSET Id,
         kept' \in [Id -> 0..MaxVersion],
         proc[p].state \in {"leaving", "gone"} => c.state \in {"leaving", "gone"},
         c.state # "off",
         c.state \in {"leaving", "gone"} => c.busy = "no" /\ c.doomed = {},
         Adopting(c, t),
         c.state \in {"saving", "cleaning"} => c.primary,
         \/ c.primary => proc[p].primary /\ HasDocuments(p)
         \/ \A q \in Process : ~(HasDocuments(q) /\ proc[q].primary),
         \A id \in Held(c, t) : Mine(p, id),
         HandsOver(proc[p]) => HandsOver(c),
         \A id \in manifest' : id \in manifest \/ (Mine(p, id) /\ HandsOver(c)),
         \A id \in Id : snaps'[id] # None => snaps[id] # None \/ Owner(id) = p
  PROVE  OwnerInv'
<1>1. TypeOK'
  BY DEF OwnerInv, TypeOK
<1>2. /\ proc'[p] = c /\ tabs'[p] = t
      /\ \A q \in Process \ {p} : proc'[q] = proc[q] /\ tabs'[q] = tabs[q]
  BY DEF OwnerInv, TypeOK
<1>3. ASSUME NEW q \in Process, NEW id, Owner(id) \in Process, Mine(q, id)
      PROVE  Mine(q, id)'
  BY <1>2, <1>3 DEF Mine, Owner
<1>4. ASSUME NEW q \in Process
      PROVE  /\ Adopting(proc[q], tabs[q])'
             /\ (proc[q].state \in {"saving", "cleaning"} => proc[q].primary)'
             /\ (~HasDocuments(q) => Idle(q))'
             /\ (\A id \in Held(proc[q], tabs[q]) : Mine(q, id))'
  <2>1. Held(proc[q], tabs[q])' = Held(proc'[q], tabs'[q])
    BY DEF Held, Slot
  <2>2. Held(proc'[q], tabs'[q]) \subseteq Id
    <3>1. proc'[q] \in Proc /\ tabs'[q] \in [Slot -> Tab \cup {None}]
      BY <1>1 DEF TypeOK
    <3> QED
      BY <3>1 DEF Held, Proc, Tab, Found
  <2>3. \A id \in Held(proc'[q], tabs'[q]) : Mine(q, id)
    BY <1>2 DEF OwnerInv
  <2>4. \A id \in Held(proc'[q], tabs'[q]) : Mine(q, id)'
    BY <1>3, <2>2, <2>3, IdFacts
  <2>5. Adopting(proc'[q], tabs'[q])
    BY <1>2 DEF OwnerInv
  <2>6. proc'[q].state \in {"saving", "cleaning"} => proc'[q].primary
    BY <1>2 DEF OwnerInv
  <2>7. (~HasDocuments(q) => Idle(q))'
    BY <1>2 DEF OwnerInv, HasDocuments, Idle
  <2> QED
    BY <2>1, <2>4, <2>5, <2>6, <2>7 DEF Adopting, Slot
<1>5. (\A r, q \in Process :
         HasDocuments(r) /\ HasDocuments(q) /\ proc[r].primary /\ proc[q].primary => r = q)'
  <2>1. \A q \in Process \ {p} : (HasDocuments(q) /\ proc[q].primary)' => HasDocuments(q) /\ proc[q].primary
    BY <1>2 DEF HasDocuments
  <2>2. ASSUME proc'[p].primary, NEW q \in Process \ {p}, HasDocuments(q), proc[q].primary
        PROVE  FALSE
    <3>1. c.primary
      BY <1>2, <2>2
    <3>2. HasDocuments(p) /\ proc[p].primary
      BY <2>2, <3>1, Zenon
    <3>3. p = q
      BY <2>2, <3>2 DEF OwnerInv
    <3> QED
      BY <3>3
  <2> QED
    BY <1>2, <2>1, <2>2 DEF OwnerInv
<1>6. (\A id \in manifest : HandsOver(proc[Owner(id)]))'
  <2> SUFFICES ASSUME NEW id \in manifest' PROVE HandsOver(proc'[Owner(id)])
    BY DEF HandsOver, Owner
  <2>1. Owner(id) \in Process
    BY IdFacts
  <2>2. CASE id \in manifest
    BY <1>2, <2>1, <2>2 DEF OwnerInv
  <2>3. CASE Mine(p, id) /\ HandsOver(c)
    BY <1>2, <2>1, <2>3 DEF Mine, HandsOver
  <2> QED
    BY <2>2, <2>3
<1>7. (\A id \in Id : snaps[id] # None => proc[Owner(id)].state # "off")'
  <2> SUFFICES ASSUME NEW id \in Id, snaps'[id] # None PROVE proc'[Owner(id)].state # "off"
    BY DEF Owner, Id, Slot
  <2>1. Owner(id) \in Process
    BY IdFacts
  <2> QED
    BY <1>2, <2>1 DEF OwnerInv
<1> QED
  BY <1>1, <1>4, <1>5, <1>6, <1>7 DEF OwnerInv

LEMMA LeastNumber ==
  ASSUME NEW S \in SUBSET Nat, S # {}
  PROVE  \E a \in S : \A m \in S : a <= m
<1>1. PICK a \in S : \A m \in S : <<m, a>> \notin OpToRel(<, Nat)
  BY NatLessThanWellFounded, WFMin, Zenon
<1>2. \A m \in S : ~(m < a)
  BY <1>1 DEF OpToRel
<1> QED
  BY <1>2

\* A step that only changes the fields of p.
LEMMA FieldsMove ==
  ASSUME OwnerInv, NEW p \in Process, NEW c \in Proc,
         proc' = [proc EXCEPT ![p] = c],
         UNCHANGED <<snaps, tabs, kept>>,
         manifest' \in SUBSET manifest,
         proc[p].state \notin {"leaving", "gone"},
         c.state \notin {"off", "leaving", "gone"},
         Adopting(c, tabs[p]),
         c.state \in {"saving", "cleaning"} => c.primary,
         \/ c.primary => proc[p].primary /\ HasDocuments(p)
         \/ \A q \in Process : ~(HasDocuments(q) /\ proc[q].primary),
         \A id \in c.doomed \cup c.todo \cup {f.id : f \in c.found} :
           id \in Held(proc[p], tabs[p]) \/ Mine(p, id),
         HandsOver(proc[p]) => HandsOver(c)
  PROVE  OwnerInv'
<1>1. /\ tabs[p] \in [Slot -> Tab \cup {None}]
      /\ tabs' = [tabs EXCEPT ![p] = tabs[p]]
      /\ snaps' \in [Id -> Text \cup {None}]
      /\ manifest' \in SUBSET Id
      /\ kept' \in [Id -> 0..MaxVersion]
  BY DEF OwnerInv, TypeOK
<1>2. \A id \in Held(c, tabs[p]) : Mine(p, id)
  BY DEF OwnerInv, Held
<1>3. \A id \in manifest' : id \in manifest
  OBVIOUS
<1>4. \A id \in Id : snaps'[id] # None => snaps[id] # None
  OBVIOUS
<1> QED
  BY <1>1, <1>2, <1>3, <1>4, ProcessMoves

\* The facts every step starts from.
LEMMA ProcType ==
  ASSUME OwnerInv, NEW p \in Process
  PROVE  /\ proc[p] \in Proc
         /\ tabs[p] \in [Slot -> Tab \cup {None}]
         /\ Held(proc[p], tabs[p]) \subseteq Id
         /\ \A id \in Held(proc[p], tabs[p]) : Mine(p, id)
         /\ Adopting(proc[p], tabs[p])
         /\ proc[p].state \in {"saving", "cleaning"} => proc[p].primary
<1>1. proc[p] \in Proc /\ tabs[p] \in [Slot -> Tab \cup {None}]
  BY DEF OwnerInv, TypeOK
<1>2. Held(proc[p], tabs[p]) \subseteq Id
  BY <1>1 DEF Held, Proc, Tab, Found
<1> QED
  BY <1>1, <1>2 DEF OwnerInv

LEMMA OwnedFilesAreMine ==
  ASSUME OwnerInv, NEW p \in Process, NEW n \in Slot, IsOpen(p, n)
  PROVE  OwnedFiles(p, n) \subseteq Id /\ \A id \in OwnedFiles(p, n) : Mine(p, id)
<1>1. <<p, n>> \in Id /\ Mine(p, <<p, n>>)
  BY IdFacts DEF Mine
<1>2. {tabs[p][n].origin} \ {None} \subseteq Held(proc[p], tabs[p])
  BY DEF Held, IsOpen
<1> QED
  BY <1>1, <1>2, ProcType DEF OwnedFiles

LEMMA StartKeeps == ASSUME OwnerInv, NEW p \in Process, Start(p) PROVE OwnerInv'
<1>1. PICK on \in Settings :
        proc' = [proc EXCEPT ![p] =
                   [proc[p] EXCEPT !.state = "boot", !.restore = on,
                                   !.primary = \A q \in Process : ~(Alive(q) /\ proc[q].primary)]]
  BY DEF Start, Set
<1> DEFINE c == [proc[p] EXCEPT !.state = "boot", !.restore = on,
                                !.primary = \A q \in Process : ~(Alive(q) /\ proc[q].primary)]
<1>2. proc[p] \in Proc /\ on \in BOOLEAN
  BY ProcType, RecoveryAssumption
<1>3. /\ c \in Proc /\ c.state = "boot" /\ c.busy = proc[p].busy /\ c.used = proc[p].used
      /\ c.doomed = proc[p].doomed /\ c.todo = proc[p].todo /\ c.found = proc[p].found
      /\ c.primary = \A q \in Process : ~(Alive(q) /\ proc[q].primary)
  BY <1>2 DEF Proc
<1>4. proc[p].state = "off" /\ UNCHANGED <<snaps, manifest, tabs, kept>>
  BY DEF Start
<1>5. proc' = [proc EXCEPT ![p] = c]
  BY <1>1
<1> HIDE DEF c
<1>6. Adopting(c, tabs[p])
  BY <1>3, ProcType DEF Adopting
<1>7. \A id \in c.doomed \cup c.todo \cup {f.id : f \in c.found} : id \in Held(proc[p], tabs[p])
  BY <1>3 DEF Held
<1>8. ~HandsOver(proc[p])
  BY <1>4 DEF HandsOver
<1>9. ~c.primary \/ \A q \in Process : ~(HasDocuments(q) /\ proc[q].primary)
  BY <1>3 DEF HasDocuments, Alive
<1> QED
  BY <1>3, <1>4, <1>5, <1>6, <1>7, <1>8, <1>9, FieldsMove

LEMMA BeginRestoreKeeps == ASSUME OwnerInv, NEW p \in Process, BeginRestore(p) PROVE OwnerInv'
<1>1. proc[p] \in Proc /\ proc[p].state = "boot" /\ manifest \in SUBSET Id
  BY ProcType DEF BeginRestore, OwnerInv, TypeOK
<1>2. ~HandsOver(proc[p])
  BY <1>1 DEF HandsOver
<1>3. CASE proc[p].primary
  <2> DEFINE c == [proc[p] EXCEPT !.state = "up",
                                  !.todo = IF proc[p].restore THEN manifest ELSE {},
                                  !.restoring = proc[p].restore /\ manifest # {}]
  <2>1. /\ c \in Proc /\ c.state = "up" /\ c.busy = proc[p].busy /\ c.used = proc[p].used
        /\ c.doomed = proc[p].doomed /\ c.todo \subseteq manifest /\ c.found = proc[p].found
        /\ c.primary
    BY <1>1, <1>3 DEF Proc
  <2>2. proc' = [proc EXCEPT ![p] = c] /\ manifest' = {} /\ UNCHANGED <<snaps, tabs, kept>>
    BY <1>3 DEF BeginRestore, Set
  <2> HIDE DEF c
  <2>3. ASSUME NEW id \in manifest PROVE Mine(p, id)
    <3>1. Owner(id) \in Process /\ HandsOver(proc[Owner(id)])
      BY <1>1, IdFacts DEF OwnerInv
    <3>2. CASE proc[Owner(id)].state \in {"leaving", "gone"}
      BY <3>2 DEF Mine
    <3>3. CASE proc[Owner(id)].primary /\ proc[Owner(id)].state \in {"cleaning", "exiting"}
      BY <1>1, <1>3, <3>1, <3>3 DEF OwnerInv, HasDocuments, Mine
    <3> QED
      BY <3>1, <3>2, <3>3 DEF HandsOver
  <2>4. Adopting(c, tabs[p])
    BY <2>1, ProcType DEF Adopting
  <2>5. \A id \in c.doomed \cup c.todo \cup {f.id : f \in c.found} :
          id \in Held(proc[p], tabs[p]) \/ Mine(p, id)
    BY <2>1, <2>3 DEF Held
  <2>6. HasDocuments(p)
    BY <1>1 DEF HasDocuments
  <2> QED
    BY <1>1, <1>2, <1>3, <2>1, <2>2, <2>4, <2>5, <2>6, FieldsMove
<1>4. CASE ~proc[p].primary
  <2> DEFINE c == [proc[p] EXCEPT !.state = "up"]
  <2>1. /\ c \in Proc /\ c.state = "up" /\ c.busy = proc[p].busy /\ c.used = proc[p].used
        /\ c.doomed = proc[p].doomed /\ c.todo = proc[p].todo /\ c.found = proc[p].found
        /\ ~c.primary
    BY <1>1, <1>4 DEF Proc
  <2>2. proc' = [proc EXCEPT ![p] = c] /\ UNCHANGED <<snaps, manifest, tabs, kept>>
    BY <1>4 DEF BeginRestore, Set
  <2> HIDE DEF c
  <2>3. Adopting(c, tabs[p])
    BY <2>1, ProcType DEF Adopting
  <2>4. \A id \in c.doomed \cup c.todo \cup {f.id : f \in c.found} : id \in Held(proc[p], tabs[p])
    BY <2>1 DEF Held
  <2> QED
    BY <1>1, <1>2, <2>1, <2>2, <2>3, <2>4, FieldsMove
<1> QED
  BY <1>3, <1>4

\* A step that also replaces document n of p by x.
LEMMA TabMove ==
  ASSUME OwnerInv, NEW p \in Process, NEW n \in Slot, NEW c \in Proc, NEW x \in Tab \cup {None},
         proc' = [proc EXCEPT ![p] = c],
         SetTab(p, n, x),
         snaps' \in [Id -> Text \cup {None}],
         kept' \in [Id -> 0..MaxVersion],
         UNCHANGED manifest,
         HasDocuments(p),
         c.state = proc[p].state,
         c.primary = proc[p].primary,
         c.busy = "adopt" => c.used = n /\ x # None /\ x.origin # None,
         x # None /\ x.origin # None => Mine(p, x.origin),
         \A id \in c.doomed \cup c.todo \cup {f.id : f \in c.found} :
           id \in Held(proc[p], tabs[p]) \/ Mine(p, id),
         \A id \in Id : snaps'[id] # None => snaps[id] # None \/ Owner(id) = p
  PROVE  OwnerInv'
<1> DEFINE t == [tabs[p] EXCEPT ![n] = x]
<1>1. proc[p] \in Proc /\ tabs[p] \in [Slot -> Tab \cup {None}] /\ manifest' \in SUBSET Id
  BY ProcType DEF OwnerInv, TypeOK
<1>2. /\ t \in [Slot -> Tab \cup {None}]
      /\ tabs' = [tabs EXCEPT ![p] = t]
      /\ t[n] = x
      /\ \A m \in Slot \ {n} : t[m] = tabs[p][m]
  BY <1>1 DEF SetTab
<1> HIDE DEF t
<1>3. Adopting(c, t)
  BY <1>2 DEF Adopting
<1>4. \A id \in Held(c, t) : Mine(p, id)
  <2> SUFFICES ASSUME NEW id \in Held(c, t) PROVE Mine(p, id)
    OBVIOUS
  <2>1. CASE id \in c.doomed \cup c.todo \cup {f.id : f \in c.found}
    BY <2>1, ProcType
  <2>2. ASSUME NEW m \in Slot, t[m] # None, id = t[m].origin, id # None
        PROVE  Mine(p, id)
    <3>1. CASE m = n
      BY <1>2, <2>2, <3>1
    <3>2. CASE m # n
      <4>1. id \in Held(proc[p], tabs[p])
        BY <1>2, <2>2, <3>2 DEF Held
      <4> QED
        BY <4>1, ProcType
    <3> QED
      BY <3>1, <3>2
  <2> QED
    BY <2>1, <2>2 DEF Held
<1>5. proc[p].state \notin {"leaving", "gone"} /\ proc[p].state # "off"
  BY DEF HasDocuments
<1>6. c.state \in {"saving", "cleaning"} => c.primary
  BY ProcType
<1>7. HandsOver(proc[p]) => HandsOver(c)
  BY DEF HandsOver
<1>8. \A id \in manifest' : id \in manifest
  OBVIOUS
<1> QED
  BY <1>1, <1>2, <1>3, <1>4, <1>5, <1>6, <1>7, <1>8, ProcessMoves

LEMMA FromSnapshotFacts ==
  ASSUME NEW id \in Id, NEW text \in Text
  PROVE  /\ FromSnapshot(id, text) \in Tab
         /\ FromSnapshot(id, text) # None
         /\ FromSnapshot(id, text).origin = id
<1>1. FromSnapshot(id, text) \in Tab /\ FromSnapshot(id, text).origin = id
  BY DEF FromSnapshot, Tab
<1> QED
  BY <1>1, NoneIsNoTab

LEMMA RestoreEntryKeeps ==
  ASSUME OwnerInv, NEW p \in Process, NEW id \in Id, RestoreEntry(p, id)
  PROVE  OwnerInv'
<1>1. /\ proc[p] \in Proc /\ HasDocuments(p) /\ proc[p].state = "up" /\ proc[p].busy = "no"
      /\ id \in proc[p].todo /\ UNCHANGED <<snaps, manifest, kept>>
  BY ProcType DEF RestoreEntry, Running, Idle, HasDocuments
<1>2. id \in Held(proc[p], tabs[p])
  BY <1>1 DEF Held
<1>3. CASE snaps[id] = None
  <2> DEFINE c == [proc[p] EXCEPT !.todo = proc[p].todo \ {id}]
  <2>1. /\ c \in Proc /\ c.state = "up" /\ c.busy = "no" /\ c.primary = proc[p].primary
        /\ c.doomed = proc[p].doomed /\ c.todo \subseteq proc[p].todo /\ c.found = proc[p].found
    BY <1>1 DEF Proc
  <2>2. proc' = [proc EXCEPT ![p] = c] /\ UNCHANGED tabs
    BY <1>3 DEF RestoreEntry, Set
  <2> HIDE DEF c
  <2>3. \A i \in c.doomed \cup c.todo \cup {f.id : f \in c.found} : i \in Held(proc[p], tabs[p])
    BY <2>1 DEF Held
  <2> QED
    BY <1>1, <2>1, <2>2, <2>3, FieldsMove DEF Adopting, HandsOver
<1>4. CASE snaps[id] # None
  <2> DEFINE c == [proc[p] EXCEPT !.todo = proc[p].todo \ {id}, !.used = proc[p].used + 1, !.busy = "adopt"]
  <2>1. proc[p].used + 1 \in Slot /\ proc[p].used + 1 \in 0..MaxTabs
    BY <1>1, <1>4, RecoveryAssumption DEF RestoreEntry, Slot, Proc
  <2>2. /\ c \in Proc /\ c.state = "up" /\ c.busy = "adopt" /\ c.primary = proc[p].primary
        /\ c.used = proc[p].used + 1
        /\ c.doomed = proc[p].doomed /\ c.todo \subseteq proc[p].todo /\ c.found = proc[p].found
    BY <1>1, <2>1 DEF Proc
  <2>3. /\ proc' = [proc EXCEPT ![p] = c]
        /\ SetTab(p, proc[p].used + 1, FromSnapshot(id, snaps[id]))
    BY <1>4 DEF RestoreEntry, Set, OpenTab
  <2> HIDE DEF c
  <2>4. snaps[id] \in Text /\ snaps \in [Id -> Text \cup {None}] /\ kept \in [Id -> 0..MaxVersion]
    BY <1>4 DEF OwnerInv, TypeOK
  <2>5. \A i \in c.doomed \cup c.todo \cup {f.id : f \in c.found} : i \in Held(proc[p], tabs[p])
    BY <2>2 DEF Held
  <2>6. Mine(p, id)
    BY <1>2, ProcType
  <2> DEFINE x == FromSnapshot(id, snaps[id])
  <2>7. x \in Tab /\ x # None /\ x.origin = id /\ id # None
    BY <2>4, FromSnapshotFacts, IdFacts
  <2>8. SetTab(p, proc[p].used + 1, x)
    BY <2>3
  <2>9. /\ snaps' \in [Id -> Text \cup {None}]
        /\ kept' \in [Id -> 0..MaxVersion]
        /\ \A i \in Id : snaps'[i] # None => snaps[i] # None \/ Owner(i) = p
    BY <1>1, <2>4
  <2> HIDE DEF x
  <2> QED
    BY <1>1, <2>1, <2>2, <2>3, <2>5, <2>6, <2>7, <2>8, <2>9, TabMove
<1> QED
  BY <1>3, <1>4

\* The documents that take a place in the sequence of recovery ids.
LEMMA OpenTabKeeps ==
  ASSUME OwnerInv, NEW p \in Process, NEW c \in Proc, NEW x \in Tab,
         HasDocuments(p),
         proc[p].used < MaxTabs,
         OpenTab(p, x),
         proc' = [proc EXCEPT ![p] = c],
         UNCHANGED <<snaps, manifest, kept>>,
         c.state = proc[p].state,
         c.primary = proc[p].primary,
         c.busy # "adopt",
         x.origin # None => Mine(p, x.origin),
         \A id \in c.doomed \cup c.todo \cup {f.id : f \in c.found} : id \in Held(proc[p], tabs[p])
  PROVE  OwnerInv'
<1>1. proc[p].used + 1 \in Slot
  BY ProcType, RecoveryAssumption DEF Slot, Proc
<1>2. SetTab(p, proc[p].used + 1, x)
  BY DEF OpenTab
<1>3. snaps' \in [Id -> Text \cup {None}] /\ kept' \in [Id -> 0..MaxVersion]
  BY DEF OwnerInv, TypeOK
<1>4. \A i \in Id : snaps'[i] # None => snaps[i] # None \/ Owner(i) = p
  OBVIOUS
<1>5. UNCHANGED manifest
  OBVIOUS
<1> QED
  BY <1>1, <1>2, <1>3, <1>4, <1>5, TabMove

LEMMA OpenRecoveredKeeps ==
  ASSUME OwnerInv, NEW p \in Process, HasDocuments(p), OpenRecovered(p)
  PROVE  OwnerInv'
<1>1. proc[p] \in Proc /\ proc[p].busy = "open" /\ UNCHANGED <<snaps, manifest, kept>>
  BY ProcType DEF OpenRecovered
<1>2. CASE Set(p, [proc[p] EXCEPT !.busy = "no", !.found = {}]) /\ UNCHANGED tabs
  <2> DEFINE c == [proc[p] EXCEPT !.busy = "no", !.found = {}]
  <2>1. /\ c \in Proc /\ c.state = proc[p].state /\ c.busy = "no" /\ c.primary = proc[p].primary
        /\ c.doomed = proc[p].doomed /\ c.todo = proc[p].todo /\ c.found = {}
    BY <1>1 DEF Proc
  <2>2. proc' = [proc EXCEPT ![p] = c]
    BY <1>2 DEF Set
  <2> HIDE DEF c
  <2>3. \A i \in c.doomed \cup c.todo \cup {f.id : f \in c.found} : i \in Held(proc[p], tabs[p])
    BY <2>1 DEF Held
  <2>4. c.state \in {"saving", "cleaning"} => c.primary
    BY <2>1, ProcType
  <2> QED
    BY <1>1, <1>2, <2>1, <2>2, <2>3, <2>4, FieldsMove DEF Adopting, HandsOver, HasDocuments
<1>3. ASSUME NEW f \in proc[p].found,
             proc[p].used < MaxTabs,
             OpenTab(p, FromSnapshot(f.id, f.text)),
             Set(p, [proc[p] EXCEPT !.used = @ + 1, !.found = @ \ {f}])
      PROVE  OwnerInv'
  <2> DEFINE c == [proc[p] EXCEPT !.used = proc[p].used + 1, !.found = proc[p].found \ {f}]
             x == FromSnapshot(f.id, f.text)
  <2>1. /\ c \in Proc /\ c.state = proc[p].state /\ c.busy = "open" /\ c.primary = proc[p].primary
        /\ c.doomed = proc[p].doomed /\ c.todo = proc[p].todo /\ c.found \subseteq proc[p].found
    <3>1. proc[p].used + 1 \in 0..MaxTabs
      BY <1>1, <1>3, RecoveryAssumption DEF Proc
    <3> QED
      BY <1>1, <3>1 DEF Proc
  <2>2. proc' = [proc EXCEPT ![p] = c]
    BY <1>3 DEF Set
  <2>3. f.id \in Id /\ f.text \in Text /\ f.id \in Held(proc[p], tabs[p])
    BY <1>1, <1>3 DEF Proc, Found, Held
  <2>4. x \in Tab /\ x.origin = f.id /\ Mine(p, f.id)
    BY <2>3, FromSnapshotFacts, ProcType
  <2>5. OpenTab(p, x)
    BY <1>3
  <2> HIDE DEF c, x
  <2>6. \A i \in c.doomed \cup c.todo \cup {g.id : g \in c.found} : i \in Held(proc[p], tabs[p])
    BY <2>1 DEF Held
  <2> QED
    BY <1>1, <1>3, <2>1, <2>2, <2>4, <2>5, <2>6, OpenTabKeeps
<1> QED
  BY <1>2, <1>3 DEF OpenRecovered

LEMMA NewDocumentKeeps ==
  ASSUME OwnerInv, NEW p \in Process, NewDocument(p)
  PROVE  OwnerInv'
<1>1. /\ proc[p] \in Proc /\ HasDocuments(p) /\ proc[p].busy = "no" /\ proc[p].used < MaxTabs
      /\ UNCHANGED <<snaps, manifest, kept>>
  BY ProcType DEF NewDocument, Running, Idle, HasDocuments
<1> DEFINE c == [proc[p] EXCEPT !.used = proc[p].used + 1]
           x == [text |-> [work |-> <<p, proc[p].used + 1>>, version |-> 1], dirty |-> TRUE,
                 recorded |-> FALSE, origin |-> None]
<1>2. proc[p].used + 1 \in Slot /\ proc[p].used + 1 \in 0..MaxTabs /\ 1 \in 1..MaxVersion
  BY <1>1, RecoveryAssumption DEF Proc, Slot
<1>3. /\ c \in Proc /\ c.state = proc[p].state /\ c.busy = "no" /\ c.primary = proc[p].primary
      /\ c.doomed = proc[p].doomed /\ c.todo = proc[p].todo /\ c.found = proc[p].found
  BY <1>1, <1>2 DEF Proc
<1>4. proc' = [proc EXCEPT ![p] = c] /\ OpenTab(p, x)
  BY DEF NewDocument, Set
<1>5. x \in Tab /\ x.origin = None
  BY <1>2, IdFacts DEF Tab, Text
<1> HIDE DEF c, x
<1>6. \A i \in c.doomed \cup c.todo \cup {f.id : f \in c.found} : i \in Held(proc[p], tabs[p])
  BY <1>3 DEF Held
<1> QED
  BY <1>1, <1>3, <1>4, <1>5, <1>6, OpenTabKeeps

\* What the user does to a document: it keeps its origin or loses it, and its
\* files may go.
LEMMA UserStep ==
  ASSUME OwnerInv, NEW p \in Process, NEW n \in Slot, NEW x \in Tab \cup {None}, NEW d,
         HasDocuments(p), IsOpen(p, n), proc[p].busy = "no",
         SetTab(p, n, x),
         x # None => x.origin \in {None, tabs[p][n].origin},
         d = proc[p].doomed \/ d \subseteq OwnedFiles(p, n),
         proc' = [proc EXCEPT ![p] = [proc[p] EXCEPT !.doomed = d]],
         kept' \in [Id -> 0..MaxVersion],
         UNCHANGED <<snaps, manifest>>
  PROVE  OwnerInv'
<1> DEFINE c == [proc[p] EXCEPT !.doomed = d]
<1>1. proc[p] \in Proc
  BY ProcType
<1>2. d \subseteq Id /\ \A i \in d : i \in Held(proc[p], tabs[p]) \/ Mine(p, i)
  BY <1>1, OwnedFilesAreMine DEF Proc, Held
<1>3. /\ c \in Proc /\ c.state = proc[p].state /\ c.busy = "no" /\ c.primary = proc[p].primary
      /\ c.doomed = d /\ c.todo = proc[p].todo /\ c.found = proc[p].found
  BY <1>1, <1>2 DEF Proc
<1>4. proc' = [proc EXCEPT ![p] = c]
  OBVIOUS
<1> HIDE DEF c
<1>5. \A i \in c.doomed \cup c.todo \cup {f.id : f \in c.found} :
        i \in Held(proc[p], tabs[p]) \/ Mine(p, i)
  BY <1>2, <1>3 DEF Held
<1>6. x # None /\ x.origin # None => Mine(p, x.origin)
  BY OwnedFilesAreMine DEF OwnedFiles
<1>7. /\ snaps' \in [Id -> Text \cup {None}]
      /\ \A i \in Id : snaps'[i] # None => snaps[i] # None \/ Owner(i) = p
  BY DEF OwnerInv, TypeOK
<1> QED
  BY <1>3, <1>4, <1>5, <1>6, <1>7, TabMove

LEMMA OpenTabType ==
  ASSUME OwnerInv, NEW p \in Process, NEW n \in Slot, IsOpen(p, n)
  PROVE  tabs[p][n] \in Tab
BY ProcType DEF IsOpen

LEMMA SettledType ==
  ASSUME OwnerInv, NEW w
  PROVE  [kept EXCEPT ![w] = 0] \in [Id -> 0..MaxVersion]
<1>1. 0 \in 0..MaxVersion /\ kept \in [Id -> 0..MaxVersion]
  BY RecoveryAssumption DEF OwnerInv, TypeOK
<1> QED
  BY <1>1

LEMMA SameDoomed ==
  ASSUME OwnerInv, NEW p \in Process, UNCHANGED proc
  PROVE  proc' = [proc EXCEPT ![p] = [proc[p] EXCEPT !.doomed = proc[p].doomed]]
<1>1. proc[p] \in Proc /\ proc \in [Process -> Proc]
  BY ProcType DEF OwnerInv, TypeOK
<1>2. [proc[p] EXCEPT !.doomed = proc[p].doomed] = proc[p]
  BY <1>1 DEF Proc
<1> QED
  BY <1>1, <1>2

LEMMA UserKeeps ==
  ASSUME OwnerInv, NEW p \in Process, NEW n \in Slot,
         Edit(p, n) \/ UndoAll(p, n) \/ Save(p, n) \/ CloseTab(p, n)
  PROVE  OwnerInv'
<1>1. HasDocuments(p) /\ proc[p].busy = "no" /\ IsOpen(p, n)
  BY DEF Edit, UndoAll, MayGoClean, Save, CloseTab, Running, Idle, HasDocuments
<1>2. tabs[p][n] \in Tab /\ kept \in [Id -> 0..MaxVersion]
  BY <1>1, OpenTabType DEF OwnerInv, TypeOK
<1>3. CASE Edit(p, n)
  <2> DEFINE x == [tabs[p][n] EXCEPT !.text.version = @ + 1, !.dirty = TRUE, !.recorded = FALSE]
  <2>1. tabs[p][n].text \in Text /\ tabs[p][n].text.version + 1 \in 1..MaxVersion
    BY <1>2, <1>3, RecoveryAssumption DEF Edit, Tab, Text
  <2>2. [tabs[p][n].text EXCEPT !.version = tabs[p][n].text.version + 1] \in Text
    BY <2>1 DEF Text
  <2>3. x \in Tab /\ x.origin = tabs[p][n].origin
    BY <1>2, <2>2 DEF Tab
  <2>4. SetTab(p, n, x) /\ UNCHANGED <<snaps, manifest, proc, kept>>
    BY <1>3 DEF Edit
  <2> HIDE DEF x
  <2> QED
    BY <1>1, <1>2, <2>3, <2>4, SameDoomed, UserStep
<1>4. CASE UndoAll(p, n)
  <2> DEFINE x == [tabs[p][n] EXCEPT !.dirty = FALSE, !.recorded = FALSE]
  <2>1. x \in Tab /\ x.origin = tabs[p][n].origin
    BY <1>2 DEF Tab
  <2>2. /\ SetTab(p, n, x) /\ UNCHANGED <<snaps, manifest, proc>>
        /\ kept' = [kept EXCEPT ![tabs[p][n].text.work] = 0]
    BY <1>4 DEF UndoAll, Settled
  <2>3. kept' \in [Id -> 0..MaxVersion]
    BY <2>2, SettledType
  <2> HIDE DEF x
  <2> QED
    BY <1>1, <2>1, <2>2, <2>3, SameDoomed, UserStep
<1>5. CASE Save(p, n)
  <2> DEFINE x == [tabs[p][n] EXCEPT !.dirty = FALSE, !.recorded = FALSE, !.origin = None]
  <2>1. x \in Tab /\ x.origin = None
    BY <1>2 DEF Tab
  <2>2. /\ SetTab(p, n, x) /\ UNCHANGED <<snaps, manifest>>
        /\ proc' = [proc EXCEPT ![p] = [proc[p] EXCEPT !.doomed = OwnedFiles(p, n)]]
        /\ kept' = [kept EXCEPT ![tabs[p][n].text.work] = 0]
    BY <1>5 DEF Save, Settled, Set
  <2>3. kept' \in [Id -> 0..MaxVersion]
    BY <2>2, SettledType
  <2> HIDE DEF x
  <2> QED
    BY <1>1, <2>1, <2>2, <2>3, UserStep
<1>6. CASE CloseTab(p, n)
  <2>1. /\ SetTab(p, n, None) /\ UNCHANGED <<snaps, manifest>>
        /\ proc' = [proc EXCEPT ![p] = [proc[p] EXCEPT !.doomed = OwnedFiles(p, n)]]
        /\ kept' = [kept EXCEPT ![tabs[p][n].text.work] = 0] \/ kept' = kept
    BY <1>6 DEF CloseTab, Settled, Set
  <2>2. kept' \in [Id -> 0..MaxVersion]
    BY <1>2, <2>1, SettledType
  <2> QED
    BY <1>1, <2>1, <2>2, UserStep
<1> QED
  BY <1>3, <1>4, <1>5, <1>6

\* A document's text reaches the disk.
LEMMA WrittenFacts ==
  ASSUME OwnerInv, NEW p \in Process, NEW n \in Slot, IsOpen(p, n), Written(p, n)
  PROVE  \E x \in Tab : /\ SetTab(p, n, x)
                        /\ x.origin = tabs[p][n].origin
                        /\ snaps' \in [Id -> Text \cup {None}]
                        /\ kept' \in [Id -> 0..MaxVersion]
                        /\ \A i \in Id : snaps'[i] # None => snaps[i] # None \/ Owner(i) = p
<1> DEFINE x == [tabs[p][n] EXCEPT !.recorded = TRUE]
<1>1. /\ tabs[p][n] \in Tab /\ tabs[p][n].text \in Text
      /\ snaps \in [Id -> Text \cup {None}] /\ kept \in [Id -> 0..MaxVersion]
  BY OpenTabType DEF OwnerInv, TypeOK, Tab
<1>2. tabs[p][n].text.work \in Id /\ tabs[p][n].text.version \in 0..MaxVersion
  BY <1>1, RecoveryAssumption DEF Text
<1>3. x \in Tab /\ x.origin = tabs[p][n].origin
  BY <1>1 DEF Tab
<1>4. /\ snaps' = [snaps EXCEPT ![<<p, n>>] = tabs[p][n].text]
      /\ kept' = [kept EXCEPT ![tabs[p][n].text.work] = tabs[p][n].text.version]
      /\ SetTab(p, n, x)
  BY DEF Written
<1> HIDE DEF x
<1>5. snaps' \in [Id -> Text \cup {None}] /\ kept' \in [Id -> 0..MaxVersion]
  BY <1>1, <1>2, <1>4
<1>6. \A i \in Id : snaps'[i] # None => snaps[i] # None \/ Owner(i) = p
  <2>1. \A i \in Id : i # <<p, n>> => snaps'[i] = snaps[i]
    BY <1>1, <1>4
  <2> QED
    BY <2>1, IdFacts
<1> QED
  BY <1>3, <1>4, <1>5, <1>6

LEMMA AdoptKeeps == ASSUME OwnerInv, NEW p \in Process, HasDocuments(p), Adopt(p) PROVE OwnerInv'
<1> DEFINE n == proc[p].used
<1>1. /\ proc[p] \in Proc /\ n \in Slot /\ IsOpen(p, n) /\ UNCHANGED manifest
      /\ tabs[p][n].origin # None
  BY ProcType DEF Adopt, Adopting, IsOpen
<1>2. CASE /\ Written(p, n)
           /\ Set(p, [proc[p] EXCEPT !.busy = "no", !.doomed = {tabs[p][n].origin}])
  <2> DEFINE c == [proc[p] EXCEPT !.busy = "no", !.doomed = {tabs[p][n].origin}]
  <2>1. PICK x \in Tab : /\ SetTab(p, n, x)
                         /\ x.origin = tabs[p][n].origin
                         /\ snaps' \in [Id -> Text \cup {None}]
                         /\ kept' \in [Id -> 0..MaxVersion]
                         /\ \A i \in Id : snaps'[i] # None => snaps[i] # None \/ Owner(i) = p
    BY <1>1, <1>2, WrittenFacts
  <2>2. tabs[p][n].origin \in Id /\ tabs[p][n].origin \in Held(proc[p], tabs[p])
    BY <1>1, OpenTabType DEF Tab, Held, IsOpen
  <2>3. /\ c \in Proc /\ c.state = proc[p].state /\ c.busy = "no" /\ c.primary = proc[p].primary
        /\ c.doomed = {tabs[p][n].origin} /\ c.todo = proc[p].todo /\ c.found = proc[p].found
    BY <1>1, <2>2 DEF Proc
  <2>4. proc' = [proc EXCEPT ![p] = c]
    BY <1>2 DEF Set
  <2> HIDE DEF c, n
  <2>5. \A i \in c.doomed \cup c.todo \cup {f.id : f \in c.found} : i \in Held(proc[p], tabs[p])
    BY <2>2, <2>3 DEF Held
  <2>6. x.origin # None => Mine(p, x.origin)
    BY <2>1, <2>2, ProcType
  <2> QED
    BY <1>1, <2>1, <2>3, <2>4, <2>5, <2>6, TabMove
<1>3. CASE Set(p, [proc[p] EXCEPT !.busy = "no"]) /\ UNCHANGED <<snaps, tabs, kept>>
  <2> DEFINE c == [proc[p] EXCEPT !.busy = "no"]
  <2>1. /\ c \in Proc /\ c.state = proc[p].state /\ c.busy = "no" /\ c.primary = proc[p].primary
        /\ c.doomed = proc[p].doomed /\ c.todo = proc[p].todo /\ c.found = proc[p].found
    BY <1>1 DEF Proc
  <2>2. proc' = [proc EXCEPT ![p] = c]
    BY <1>3 DEF Set
  <2> HIDE DEF c
  <2>3. \A i \in c.doomed \cup c.todo \cup {f.id : f \in c.found} : i \in Held(proc[p], tabs[p])
    BY <2>1 DEF Held
  <2>4. c.state \in {"saving", "cleaning"} => c.primary
    BY <2>1, ProcType
  <2> QED
    BY <1>1, <1>3, <2>1, <2>2, <2>3, <2>4, FieldsMove DEF Adopting, HandsOver, HasDocuments
<1> QED
  BY <1>2, <1>3 DEF Adopt

\* A step of an idle process on nothing but its own flags and counters.
LEMMA FlagsMove ==
  ASSUME OwnerInv, NEW p \in Process, NEW c \in Proc,
         proc' = [proc EXCEPT ![p] = c],
         UNCHANGED <<snaps, tabs, kept>>,
         manifest' \in SUBSET manifest,
         HasDocuments(p), c.state \notin {"off", "leaving", "gone"},
         c.busy # "adopt", c.primary = proc[p].primary,
         c.state \in {"saving", "cleaning"} => c.primary,
         HandsOver(proc[p]) => HandsOver(c),
         c.doomed \subseteq proc[p].doomed \/ (\A id \in c.doomed : Mine(p, id)),
         c.todo = proc[p].todo,
         \A f \in c.found : f \in proc[p].found \/ Mine(p, f.id)
  PROVE  OwnerInv'
<1>1. \A id \in c.doomed \cup c.todo \cup {f.id : f \in c.found} :
        id \in Held(proc[p], tabs[p]) \/ Mine(p, id)
  BY DEF Held
<1>2. Adopting(c, tabs[p]) /\ proc[p].state \notin {"leaving", "gone"}
  BY DEF Adopting, HasDocuments
<1> QED
  BY <1>1, <1>2, FieldsMove

LEMMA FinishRestoreKeeps == ASSUME OwnerInv, NEW p \in Process, FinishRestore(p) PROVE OwnerInv'
<1> DEFINE c == [proc[p] EXCEPT !.restoring = FALSE]
<1>1. /\ proc[p] \in Proc /\ HasDocuments(p) /\ proc[p].busy = "no" /\ proc[p].state = "up"
      /\ UNCHANGED <<snaps, manifest, tabs, kept>>
  BY ProcType DEF FinishRestore, Running, Idle, HasDocuments
<1>2. /\ c \in Proc /\ c.state = "up" /\ c.busy = "no" /\ c.primary = proc[p].primary
      /\ c.doomed = proc[p].doomed /\ c.todo = proc[p].todo /\ c.found = proc[p].found
  BY <1>1 DEF Proc
<1>3. proc' = [proc EXCEPT ![p] = c]
  BY DEF FinishRestore, Set
<1> HIDE DEF c
<1> QED
  BY <1>1, <1>2, <1>3, FlagsMove DEF HandsOver

LEMMA ToggleRestoreKeeps == ASSUME OwnerInv, NEW p \in Process, ToggleRestore(p) PROVE OwnerInv'
<1>1. PICK on \in Settings : Set(p, [proc[p] EXCEPT !.restore = on])
  BY DEF ToggleRestore
<1> DEFINE c == [proc[p] EXCEPT !.restore = on]
<1>2. /\ proc[p] \in Proc /\ HasDocuments(p) /\ proc[p].busy = "no" /\ proc[p].state = "up"
      /\ UNCHANGED <<snaps, manifest, tabs, kept>>
  BY ProcType DEF ToggleRestore, Running, Idle, HasDocuments
<1>3. /\ c \in Proc /\ c.state = "up" /\ c.busy = "no" /\ c.primary = proc[p].primary
      /\ c.doomed = proc[p].doomed /\ c.todo = proc[p].todo /\ c.found = proc[p].found
  BY <1>2, RecoveryAssumption DEF Proc
<1>4. proc' = [proc EXCEPT ![p] = c]
  BY <1>1 DEF Set
<1> HIDE DEF c
<1> QED
  BY <1>2, <1>3, <1>4, FlagsMove DEF HandsOver

\* Candidates belong to dead processes: the live ones are skipped, and nothing
\* is written under the id of a process that has not started.
LEMMA DiscoverKeeps == ASSUME OwnerInv, NEW p \in Process, Discover(p) PROVE OwnerInv'
<1> DEFINE found == {[id |-> id, text |-> snaps[id]] : id \in {i \in Id : Foreign(p, i)}}
           c == [proc[p] EXCEPT !.busy = "open", !.found = found]
<1>1. /\ proc[p] \in Proc /\ HasDocuments(p) /\ proc[p].state = "up"
      /\ UNCHANGED <<snaps, manifest, tabs, kept>> /\ proc' = [proc EXCEPT ![p] = c]
  BY ProcType DEF Discover, Running, HasDocuments, Set
<1>2. \A i \in Id : Foreign(p, i) => snaps[i] \in Text /\ Mine(p, i)
  BY DEF Foreign, Mine, Alive, OwnerInv, TypeOK
<1>3. \A f \in found : f \in Found /\ Mine(p, f.id)
  BY <1>2 DEF Found
<1> HIDE DEF found
<1>4. /\ c \in Proc /\ c.state = "up" /\ c.busy = "open" /\ c.primary = proc[p].primary
      /\ c.doomed = proc[p].doomed /\ c.todo = proc[p].todo /\ c.found = found
  BY <1>1, <1>3 DEF Proc
<1> HIDE DEF c
<1> QED
  BY <1>1, <1>3, <1>4, FlagsMove DEF HandsOver

LEMMA SnapshotNextKeeps ==
  ASSUME OwnerInv, NEW p \in Process, NEW after \in Proc,
         HasDocuments(p), Idle(p), proc[p].state \in {"up", "saving"},
         after.state = proc[p].state, after.busy = "no", after.primary = proc[p].primary,
         after.todo = proc[p].todo, after.found = proc[p].found,
         \E n \in Slot : Needs(p, n),
         SnapshotNext(p, after)
  PROVE  OwnerInv'
<1> DEFINE n == NextSnapshot(p)
<1>1. n \in Slot /\ IsOpen(p, n)
  <2> DEFINE needing == {m \in Slot : Needs(p, m)}
             next == {m \in needing : m > proc[p].last}
  <2>1. \A S \in SUBSET Slot : S # {} => \E a \in S : \A m \in S : a <= m
    <3> SUFFICES ASSUME NEW S \in SUBSET Slot, S # {} PROVE \E a \in S : \A m \in S : a <= m
      OBVIOUS
    <3>1. S \subseteq Nat
      BY RecoveryAssumption DEF Slot
    <3> QED
      BY <3>1, LeastNumber
  <2>2. n = IF next # {} THEN CHOOSE a \in next : \A m \in next : a <= m
                         ELSE CHOOSE a \in needing : \A m \in needing : a <= m
    BY DEF NextSnapshot
  <2>3. n \in needing
    <3>1. CASE next # {}
      BY <2>1, <2>2, <3>1
    <3>2. CASE next = {}
      BY <2>1, <2>2, <3>2
    <3> QED
      BY <3>1, <3>2
  <2> QED
    BY <2>3 DEF Needs
<1> HIDE DEF n
<1>2. PICK written \in BOOLEAN :
        /\ IF written THEN Written(p, n) ELSE UNCHANGED <<snaps, tabs, kept>>
        /\ Set(p, [after EXCEPT !.last = n, !.doomed = SourceDone(p, n, written)])
        /\ UNCHANGED manifest
  BY DEF SnapshotNext, n
<1> DEFINE c == [after EXCEPT !.last = n, !.doomed = SourceDone(p, n, written)]
<1>3. SourceDone(p, n, written) \subseteq OwnedFiles(p, n)
  BY DEF SourceDone, OwnedFiles
<1>4. SourceDone(p, n, written) \subseteq Id /\ \A i \in SourceDone(p, n, written) : Mine(p, i)
  BY <1>1, <1>3, OwnedFilesAreMine
<1>5. /\ c \in Proc /\ c.state = proc[p].state /\ c.busy = "no" /\ c.primary = proc[p].primary
      /\ c.doomed = SourceDone(p, n, written) /\ c.todo = proc[p].todo /\ c.found = proc[p].found
  <2>1. n \in 0..MaxTabs
    BY <1>1, RecoveryAssumption DEF Slot
  <2> QED
    BY <1>4, <2>1 DEF Proc
<1>6. proc' = [proc EXCEPT ![p] = c]
  BY <1>2 DEF Set
<1> HIDE DEF c
<1>7. \A i \in c.doomed \cup c.todo \cup {f.id : f \in c.found} :
        i \in Held(proc[p], tabs[p]) \/ Mine(p, i)
  BY <1>4, <1>5 DEF Held
<1>8. CASE written
  <2>1. PICK x \in Tab : /\ SetTab(p, n, x)
                         /\ x.origin = tabs[p][n].origin
                         /\ snaps' \in [Id -> Text \cup {None}]
                         /\ kept' \in [Id -> 0..MaxVersion]
                         /\ \A i \in Id : snaps'[i] # None => snaps[i] # None \/ Owner(i) = p
    BY <1>1, <1>2, <1>8, WrittenFacts
  <2>2. x.origin # None => Mine(p, x.origin)
    BY <1>1, <2>1, OwnedFilesAreMine DEF OwnedFiles
  <2> QED
    BY <1>1, <1>2, <1>5, <1>6, <1>7, <2>1, <2>2, TabMove
<1>9. CASE ~written
  <2>1. c.state \in {"saving", "cleaning"} => c.primary
    BY <1>5, ProcType
  <2> QED
    BY <1>2, <1>4, <1>5, <1>6, <1>9, <2>1, FlagsMove DEF HandsOver, HasDocuments
<1> QED
  BY <1>8, <1>9

LEMMA RemoveFileKeeps ==
  ASSUME OwnerInv, NEW p \in Process, NEW id \in Id, HasDocuments(p), RemoveFile(p, id)
  PROVE  OwnerInv'
<1> DEFINE c == [proc[p] EXCEPT !.doomed = proc[p].doomed \ {id}]
<1>1. /\ proc[p] \in Proc /\ tabs[p] \in [Slot -> Tab \cup {None}]
      /\ snaps \in [Id -> Text \cup {None}] /\ manifest \in SUBSET Id
      /\ kept \in [Id -> 0..MaxVersion] /\ tabs \in [Process -> [Slot -> Tab \cup {None}]]
  BY ProcType DEF OwnerInv, TypeOK
<1>2. UNCHANGED <<manifest, tabs, kept>> /\ proc' = [proc EXCEPT ![p] = c]
  BY DEF RemoveFile, Set
<1>3. snaps' = snaps \/ snaps' = [snaps EXCEPT ![id] = None]
  BY DEF RemoveFile
<1>4. /\ c \in Proc /\ c.state = proc[p].state /\ c.primary = proc[p].primary
      /\ c.busy = proc[p].busy /\ c.used = proc[p].used
      /\ c.doomed \subseteq proc[p].doomed /\ c.todo = proc[p].todo /\ c.found = proc[p].found
  BY <1>1 DEF Proc
<1> HIDE DEF c
<1>5. tabs' = [tabs EXCEPT ![p] = tabs[p]]
  BY <1>1, <1>2
<1>6. Adopting(c, tabs[p]) /\ (c.state \in {"saving", "cleaning"} => c.primary)
  BY <1>4, ProcType DEF Adopting
<1>7. \A i \in Held(c, tabs[p]) : Mine(p, i)
  <2>1. Held(c, tabs[p]) \subseteq Held(proc[p], tabs[p])
    BY <1>4 DEF Held
  <2> QED
    BY <2>1, ProcType
<1>8. /\ snaps' \in [Id -> Text \cup {None}]
      /\ \A i \in Id : snaps'[i] # None => snaps[i] # None
  BY <1>1, <1>3
<1>9. /\ manifest' \in SUBSET Id /\ kept' \in [Id -> 0..MaxVersion]
      /\ \A i \in manifest' : i \in manifest
  BY <1>1, <1>2
<1>10. proc[p].state \notin {"leaving", "gone"} /\ c.state # "off" /\ (HandsOver(proc[p]) => HandsOver(c))
  BY <1>4 DEF HasDocuments, HandsOver
<1> QED
  BY <1>1, <1>2, <1>4, <1>5, <1>6, <1>7, <1>8, <1>9, <1>10, ProcessMoves

LEMMA CloseCallsType == \A p \in Process : CloseCalls(p) \in 0..MaxTabs
<1> SUFFICES ASSUME NEW p \in Process PROVE CloseCalls(p) \in 0..MaxTabs
  OBVIOUS
<1>1. IsFiniteSet(Slot) /\ Cardinality(Slot) = MaxTabs
  BY RecoveryAssumption, FS_Interval DEF Slot
<1>2. Cardinality({n \in Slot : Needs(p, n)}) \in Nat /\ Cardinality({n \in Slot : Needs(p, n)}) <= MaxTabs
  BY <1>1, FS_Subset, FS_CardinalityType
<1> QED
  BY <1>2, RecoveryAssumption DEF CloseCalls

LEMMA CloseKeeps == ASSUME OwnerInv, NEW p \in Process, Close(p) PROVE OwnerInv'
<1>1. /\ proc[p] \in Proc /\ HasDocuments(p) /\ proc[p].busy = "no" /\ proc[p].state = "up"
      /\ UNCHANGED <<snaps, tabs, kept>>
  BY ProcType DEF Close, Running, Idle, HasDocuments
<1>2. CASE proc[p].primary /\ proc[p].restore /\ ~proc[p].restoring
  <2> DEFINE c == [proc[p] EXCEPT !.state = "saving", !.left = CloseCalls(p)]
  <2>1. /\ c \in Proc /\ c.state = "saving" /\ c.busy = "no" /\ c.primary = proc[p].primary
        /\ c.doomed = proc[p].doomed /\ c.todo = proc[p].todo /\ c.found = proc[p].found
    BY <1>1, CloseCallsType DEF Proc
  <2>2. proc' = [proc EXCEPT ![p] = c] /\ UNCHANGED manifest
    BY <1>2 DEF Close, Set
  <2> HIDE DEF c
  <2> QED
    BY <1>1, <1>2, <2>1, <2>2, FlagsMove DEF HandsOver
<1>3. CASE ~(proc[p].primary /\ proc[p].restore /\ ~proc[p].restoring)
  <2> DEFINE c == [proc[p] EXCEPT !.state = "reviewing"]
  <2>1. /\ c \in Proc /\ c.state = "reviewing" /\ c.busy = "no" /\ c.primary = proc[p].primary
        /\ c.doomed = proc[p].doomed /\ c.todo = proc[p].todo /\ c.found = proc[p].found
    BY <1>1 DEF Proc
  <2>2. proc' = [proc EXCEPT ![p] = c] /\ manifest' \in SUBSET manifest
    BY <1>3 DEF Close, Set
  <2> HIDE DEF c
  <2> QED
    BY <1>1, <2>1, <2>2, FlagsMove DEF HandsOver
<1> QED
  BY <1>2, <1>3

LEMMA CloseSnapshotKeeps == ASSUME OwnerInv, NEW p \in Process, CloseSnapshot(p) PROVE OwnerInv'
<1> DEFINE after == [proc[p] EXCEPT !.left = proc[p].left - 1]
<1>1. /\ proc[p] \in Proc /\ HasDocuments(p) /\ Idle(p) /\ proc[p].busy = "no"
      /\ proc[p].state = "saving" /\ proc[p].left > 0
  BY ProcType DEF CloseSnapshot, Idle, HasDocuments
<1>2. proc[p].left - 1 \in 0..MaxTabs
  BY <1>1, RecoveryAssumption DEF Proc
<1>3. /\ after \in Proc /\ after.state = "saving" /\ after.busy = "no"
      /\ after.primary = proc[p].primary /\ after.doomed = proc[p].doomed
      /\ after.todo = proc[p].todo /\ after.found = proc[p].found
  BY <1>1, <1>2 DEF Proc
<1>4. \/ (\E n \in Slot : Needs(p, n)) /\ SnapshotNext(p, after)
      \/ proc' = [proc EXCEPT ![p] = after] /\ UNCHANGED <<snaps, manifest, tabs, kept>>
  BY DEF CloseSnapshot, Set
<1> HIDE DEF after
<1>5. CASE (\E n \in Slot : Needs(p, n)) /\ SnapshotNext(p, after)
  BY <1>1, <1>3, <1>5, SnapshotNextKeeps
<1>6. CASE proc' = [proc EXCEPT ![p] = after] /\ UNCHANGED <<snaps, manifest, tabs, kept>>
  BY <1>1, <1>3, <1>6, ProcType, FlagsMove DEF HandsOver
<1> QED
  BY <1>4, <1>5, <1>6

\* The manifest names own snapshots and sources of a process on its way out.
LEMMA WriteManifestKeeps == ASSUME OwnerInv, NEW p \in Process, WriteManifest(p) PROVE OwnerInv'
<1>1. /\ proc[p] \in Proc /\ HasDocuments(p) /\ proc[p].busy = "no" /\ proc[p].state = "saving"
      /\ proc[p].primary /\ UNCHANGED <<snaps, tabs, kept>>
  BY ProcType DEF WriteManifest, Idle, HasDocuments
<1>2. CASE /\ manifest' = SessionSnapshots(p)
           /\ Set(p, [proc[p] EXCEPT !.state = "cleaning"])
  <2> DEFINE c == [proc[p] EXCEPT !.state = "cleaning"]
  <2>1. /\ c \in Proc /\ c.state = "cleaning" /\ c.busy = "no" /\ c.primary
        /\ c.doomed = proc[p].doomed /\ c.todo = proc[p].todo /\ c.found = proc[p].found
    BY <1>1 DEF Proc
  <2>2. proc' = [proc EXCEPT ![p] = c]
    BY <1>2 DEF Set
  <2> HIDE DEF c
  <2>3. Adopting(c, tabs[p]) /\ HandsOver(c) /\ proc[p].state \notin {"leaving", "gone"}
    BY <1>1, <2>1 DEF Adopting, HandsOver
  <2>4. \A i \in Held(c, tabs[p]) : Mine(p, i)
    <3>1. Held(c, tabs[p]) = Held(proc[p], tabs[p])
      BY <2>1 DEF Held
    <3> QED
      BY <3>1, ProcType
  <2>5. \A n \in Slot : IsOpen(p, n) /\ Current(p, n) # None => Current(p, n) \in OwnedFiles(p, n)
    BY IdFacts DEF Current, OwnedFiles
  <2>6. \A i \in manifest' : i \in Id /\ Mine(p, i)
    <3> SUFFICES ASSUME NEW n \in Slot, IsOpen(p, n), Current(p, n) # None
                 PROVE  Current(p, n) \in Id /\ Mine(p, Current(p, n))
      BY <1>2 DEF SessionSnapshots
    <3> QED
      BY <2>5, OwnedFilesAreMine
  <2>7. /\ tabs[p] \in [Slot -> Tab \cup {None}] /\ tabs' = [tabs EXCEPT ![p] = tabs[p]]
        /\ snaps' \in [Id -> Text \cup {None}] /\ kept' \in [Id -> 0..MaxVersion]
        /\ manifest' \in SUBSET Id
    BY <1>1, <2>6 DEF OwnerInv, TypeOK
  <2>8. \A i \in Id : snaps'[i] # None => snaps[i] # None
    BY <1>1
  <2> QED
    BY <1>1, <2>1, <2>2, <2>3, <2>4, <2>6, <2>7, <2>8, ProcessMoves
<1>3. CASE Set(p, [proc[p] EXCEPT !.state = "reviewing"]) /\ UNCHANGED manifest
  <2> DEFINE c == [proc[p] EXCEPT !.state = "reviewing"]
  <2>1. /\ c \in Proc /\ c.state = "reviewing" /\ c.busy = "no" /\ c.primary = proc[p].primary
        /\ c.doomed = proc[p].doomed /\ c.todo = proc[p].todo /\ c.found = proc[p].found
    BY <1>1 DEF Proc
  <2>2. proc' = [proc EXCEPT ![p] = c]
    BY <1>3 DEF Set
  <2> HIDE DEF c
  <2> QED
    BY <1>1, <1>3, <2>1, <2>2, FlagsMove DEF HandsOver
<1> QED
  BY <1>2, <1>3 DEF WriteManifest

LEMMA CleanSessionKeeps == ASSUME OwnerInv, NEW p \in Process, CleanSession(p) PROVE OwnerInv'
<1> DEFINE d == UNION {Superseded(p, n) : n \in {m \in Slot : IsOpen(p, m)}}
           c == [proc[p] EXCEPT !.state = "exiting", !.doomed = d]
<1>1. /\ proc[p] \in Proc /\ HasDocuments(p) /\ proc[p].busy = "no" /\ proc[p].state = "cleaning"
      /\ proc[p].primary /\ UNCHANGED <<snaps, manifest, tabs, kept>>
  BY ProcType DEF CleanSession, Idle, HasDocuments
<1>2. \A n \in Slot : IsOpen(p, n) => Superseded(p, n) \subseteq OwnedFiles(p, n)
  BY DEF Superseded
<1>3. d \subseteq Id /\ \A i \in d : Mine(p, i)
  BY <1>2, OwnedFilesAreMine
<1>4. proc' = [proc EXCEPT ![p] = c]
  BY DEF CleanSession, Set
<1> HIDE DEF d
<1>5. /\ c \in Proc /\ c.state = "exiting" /\ c.busy = "no" /\ c.primary
      /\ c.doomed = d /\ c.todo = proc[p].todo /\ c.found = proc[p].found
  BY <1>1, <1>3 DEF Proc
<1> HIDE DEF c
<1> QED
  BY <1>1, <1>3, <1>4, <1>5, FlagsMove DEF HandsOver

LEMMA CancelReviewKeeps == ASSUME OwnerInv, NEW p \in Process, CancelReview(p) PROVE OwnerInv'
<1> DEFINE c == [proc[p] EXCEPT !.state = "up"]
<1>1. /\ proc[p] \in Proc /\ HasDocuments(p) /\ proc[p].busy = "no" /\ proc[p].state = "reviewing"
      /\ UNCHANGED <<snaps, manifest, tabs, kept>>
  BY ProcType DEF CancelReview, Idle, HasDocuments
<1>2. /\ c \in Proc /\ c.state = "up" /\ c.busy = "no" /\ c.primary = proc[p].primary
      /\ c.doomed = proc[p].doomed /\ c.todo = proc[p].todo /\ c.found = proc[p].found
  BY <1>1 DEF Proc
<1>3. proc' = [proc EXCEPT ![p] = c]
  BY DEF CancelReview, Set
<1> HIDE DEF c
<1> QED
  BY <1>1, <1>2, <1>3, FlagsMove DEF HandsOver

LEMMA FinishReviewKeeps == ASSUME OwnerInv, NEW p \in Process, FinishReview(p) PROVE OwnerInv'
<1> DEFINE d == UNION {OwnedFiles(p, n) : n \in {m \in Slot : IsOpen(p, m)}}
           c == [proc[p] EXCEPT !.state = "exiting", !.doomed = d]
<1>1. /\ proc[p] \in Proc /\ HasDocuments(p) /\ proc[p].busy = "no" /\ proc[p].state = "reviewing"
      /\ tabs[p] \in [Slot -> Tab \cup {None}] /\ kept \in [Id -> 0..MaxVersion]
      /\ UNCHANGED <<snaps, manifest, tabs>>
  BY ProcType DEF FinishReview, Idle, HasDocuments, OwnerInv, TypeOK
<1>2. d \subseteq Id /\ \A i \in d : Mine(p, i)
  BY OwnedFilesAreMine
<1>3. proc' = [proc EXCEPT ![p] = c]
  BY DEF FinishReview, Set
<1>4. kept' \in [Id -> 0..MaxVersion]
  <2>1. 0 \in 0..MaxVersion
    BY RecoveryAssumption
  <2> QED
    BY <1>1, <2>1 DEF FinishReview
<1> HIDE DEF d
<1>5. /\ c \in Proc /\ c.state = "exiting" /\ c.busy = "no" /\ c.primary = proc[p].primary
      /\ c.doomed = d /\ c.todo = proc[p].todo /\ c.found = proc[p].found
  BY <1>1, <1>2 DEF Proc
<1> HIDE DEF c
<1>6. \A i \in Held(c, tabs[p]) : Mine(p, i)
  <2>1. Held(c, tabs[p]) \subseteq Held(proc[p], tabs[p]) \cup d
    BY <1>5 DEF Held
  <2> QED
    BY <1>2, <2>1, ProcType
<1>7. /\ tabs' = [tabs EXCEPT ![p] = tabs[p]] /\ snaps' \in [Id -> Text \cup {None}]
      /\ manifest' \in SUBSET Id
  BY <1>1 DEF OwnerInv, TypeOK
<1>8. /\ Adopting(c, tabs[p]) /\ ~HandsOver(proc[p])
      /\ \A i \in manifest' : i \in manifest
      /\ \A i \in Id : snaps'[i] # None => snaps[i] # None
  BY <1>1, <1>5 DEF Adopting, HandsOver
<1> QED
  BY <1>1, <1>3, <1>4, <1>5, <1>6, <1>7, <1>8, ProcessMoves

\* A process that shuts down, exits or crashes.
LEMMA ReleasedKeeps ==
  ASSUME OwnerInv, NEW p \in Process, NEW state \in {"leaving", "gone"}, Released(p, state)
  PROVE  OwnerInv'
<1> DEFINE c == [NotStarted EXCEPT !.state = state, !.used = proc[p].used]
           t == [n \in Slot |-> None]
<1>1. proc[p] \in Proc /\ proc[p].used \in 0..MaxTabs
  BY ProcType DEF Proc
<1>2. /\ c \in Proc /\ c.state \in {"leaving", "gone"} /\ c.busy = "no" /\ ~c.primary
      /\ c.doomed = {} /\ c.todo = {} /\ c.found = {}
  BY <1>1, NotStartedType DEF Proc, NotStarted
<1>3. /\ proc' = [proc EXCEPT ![p] = c] /\ tabs' = [tabs EXCEPT ![p] = t]
      /\ UNCHANGED <<snaps, manifest, kept>>
  BY DEF Released, Set
<1> HIDE DEF c
<1>4. t \in [Slot -> Tab \cup {None}] /\ Held(c, t) = {}
  BY <1>2 DEF Held
<1>5. Adopting(c, t) /\ HandsOver(c)
  BY <1>2 DEF Adopting, HandsOver
<1>6. /\ snaps' \in [Id -> Text \cup {None}] /\ kept' \in [Id -> 0..MaxVersion]
      /\ manifest' \in SUBSET Id
      /\ \A i \in manifest' : i \in manifest
      /\ \A i \in Id : snaps'[i] # None => snaps[i] # None
  BY <1>3 DEF OwnerInv, TypeOK
<1> HIDE DEF t
<1> QED
  BY <1>2, <1>3, <1>4, <1>5, <1>6, ProcessMoves

LEMMA OwnerStep == OwnerInv /\ [Next]_vars => OwnerInv'
<1> SUFFICES ASSUME OwnerInv, [Next]_vars PROVE OwnerInv'
  OBVIOUS
<1>1. CASE UNCHANGED vars
  <2>1. UNCHANGED <<snaps, manifest, proc, tabs, kept>>
    BY <1>1 DEF vars
  <2> QED
    BY <2>1 DEF OwnerInv, TypeOK, Adopting, Held, Mine, HandsOver, HasDocuments, Idle
<1>2. ASSUME NEW p \in Process, proc[p].busy # "no" \/ proc[p].doomed # {} PROVE HasDocuments(p)
  BY <1>2 DEF OwnerInv, Idle
<1>3. ASSUME NEW p \in Process,
             \/ Start(p) \/ BeginRestore(p) \/ Adopt(p) \/ FinishRestore(p)
             \/ Discover(p) \/ OpenRecovered(p)
             \/ NewDocument(p) \/ ToggleRestore(p)
      PROVE  OwnerInv'
  <2>1. Adopt(p) \/ OpenRecovered(p) => HasDocuments(p)
    BY <1>2 DEF Adopt, OpenRecovered
  <2> QED
    BY <1>3, <2>1, StartKeeps, BeginRestoreKeeps, AdoptKeeps, FinishRestoreKeeps, DiscoverKeeps,
       OpenRecoveredKeeps, NewDocumentKeeps, ToggleRestoreKeeps
<1>4. ASSUME NEW p \in Process, SnapshotTick(p) PROVE OwnerInv'
  <2>1. /\ proc[p] \in Proc /\ HasDocuments(p) /\ Idle(p) /\ proc[p].state = "up" /\ proc[p].busy = "no"
        /\ SnapshotNext(p, proc[p]) /\ \E n \in Slot : Needs(p, n)
    BY <1>4, ProcType DEF SnapshotTick, Running, Idle, HasDocuments
  <2> QED
    BY <2>1, SnapshotNextKeeps
<1>5. ASSUME NEW p \in Process,
             \/ Close(p) \/ CloseSnapshot(p) \/ WriteManifest(p) \/ CleanSession(p)
             \/ CancelReview(p) \/ FinishReview(p)
      PROVE  OwnerInv'
  BY <1>5, CloseKeeps, CloseSnapshotKeeps, WriteManifestKeeps, CleanSessionKeeps,
     CancelReviewKeeps, FinishReviewKeeps
<1>6. ASSUME NEW p \in Process, ShutDown(p) \/ Exit(p) \/ Crash(p) PROVE OwnerInv'
  <2>1. Alive(p) /\ \E state \in {"leaving", "gone"} : Released(p, state)
    BY <1>6 DEF ShutDown, Exit, Crash, Alive
  <2> QED
    BY <2>1, ReleasedKeeps
<1>7. ASSUME NEW p \in Process, NEW n \in Slot,
             Edit(p, n) \/ UndoAll(p, n) \/ Save(p, n) \/ CloseTab(p, n)
      PROVE  OwnerInv'
  BY <1>7, UserKeeps
<1>8. ASSUME NEW p \in Process, NEW id \in Id, RestoreEntry(p, id) \/ RemoveFile(p, id)
      PROVE  OwnerInv'
  <2>1. RemoveFile(p, id) => HasDocuments(p)
    BY <1>2 DEF RemoveFile
  <2> QED
    BY <1>8, <2>1, RestoreEntryKeeps, RemoveFileKeeps
<1> QED
  BY <1>1, <1>3, <1>4, <1>5, <1>6, <1>7, <1>8 DEF Next

\* The inductive invariant of the processes and the files they share.
THEOREM OwnersHold == Spec => []OwnerInv
<1> QED
  BY OwnerInit, OwnerStep, PTL DEF Spec

\* Type correctness, for any number of processes and documents.
THEOREM TypeCorrect == Spec => []TypeOK
<1>1. OwnerInv => TypeOK
  BY DEF OwnerInv
<1> QED
  BY <1>1, OwnersHold, PTL

\* What crash recovery is about to open was left by processes that are gone, and
\* no process comes back.
CandidatesAreLeft == \A p \in Process : \A f \in proc[p].found : proc[Owner(f.id)].state = "gone"

LEMMA CandidatesMove ==
  ASSUME OwnerInv, CandidatesAreLeft, NEW p \in Process, NEW c, Set(p, c),
         proc[p].state = "gone" => c.state = "gone",
         \A f \in c.found : f \in proc[p].found \/ proc[Owner(f.id)].state = "gone",
         c.found \subseteq Found
  PROVE  CandidatesAreLeft'
<1>1. proc'[p] = c /\ \A q \in Process \ {p} : proc'[q] = proc[q]
  BY DEF Set, OwnerInv, TypeOK
<1> SUFFICES ASSUME NEW q \in Process, NEW f \in proc'[q].found
             PROVE  proc'[Owner(f.id)].state = "gone"
  BY DEF CandidatesAreLeft, Owner
<1>2. f.id \in Id
  <2>1. proc[q] \in Proc
    BY ProcType
  <2> QED
    BY <1>1, <2>1 DEF Found, Proc
<1>3. proc[Owner(f.id)].state = "gone"
  BY <1>1 DEF CandidatesAreLeft
<1> QED
  BY <1>1, <1>2, <1>3, IdFacts

LEMMA CandidatesStep == OwnerInv /\ CandidatesAreLeft /\ [Next]_vars => CandidatesAreLeft'
<1> SUFFICES ASSUME OwnerInv, CandidatesAreLeft, [Next]_vars PROVE CandidatesAreLeft'
  OBVIOUS
<1>1. ASSUME NEW p \in Process
      PROVE  proc[p] \in Proc /\ proc[p].found \subseteq Found
  BY ProcType DEF Proc
<1>2. CASE UNCHANGED proc
  BY <1>2 DEF CandidatesAreLeft, Owner
<1>3. ASSUME NEW p \in Process,
             \/ Start(p) \/ BeginRestore(p) \/ FinishRestore(p) \/ NewDocument(p) \/ ToggleRestore(p)
             \/ Close(p) \/ WriteManifest(p) \/ CleanSession(p) \/ CancelReview(p) \/ FinishReview(p)
      PROVE  CandidatesAreLeft'
  <2> DEFINE Same == \E c : Set(p, c) /\ proc[p].state # "gone" /\ c.found = proc[p].found
  <2>1. ASSUME Start(p) PROVE Same
    <3>1. PICK on : Set(p, [proc[p] EXCEPT !.state = "boot", !.restore = on,
                              !.primary = \A q \in Process : ~(Alive(q) /\ proc[q].primary)]) /\ proc[p].state # "gone"
      BY <2>1 DEF Start
    <3>2. [proc[p] EXCEPT !.state = "boot", !.restore = on,
                              !.primary = \A q \in Process : ~(Alive(q) /\ proc[q].primary)].found = proc[p].found
      BY <1>1 DEF Proc
    <3> QED
      BY <3>1, <3>2
  <2>2. ASSUME BeginRestore(p) PROVE Same
    <3>1. /\ proc[p].state # "gone"
          /\ \/ Set(p, [proc[p] EXCEPT !.state = "up",
                              !.todo = IF proc[p].restore THEN manifest ELSE {},
                              !.restoring = proc[p].restore /\ manifest # {}])
             \/ Set(p, [proc[p] EXCEPT !.state = "up"])
      BY <2>2 DEF BeginRestore
    <3>2. /\ [proc[p] EXCEPT !.state = "up",
                              !.todo = IF proc[p].restore THEN manifest ELSE {},
                              !.restoring = proc[p].restore /\ manifest # {}].found = proc[p].found
          /\ [proc[p] EXCEPT !.state = "up"].found = proc[p].found
      BY <1>1 DEF Proc
    <3> QED
      BY <3>1, <3>2
  <2>3. FinishRestore(p) => Same
    BY <1>1 DEF FinishRestore, Running, Proc
  <2>4. NewDocument(p) => Same
    BY <1>1 DEF NewDocument, Running, Proc
  <2>5. ToggleRestore(p) => Same
    BY <1>1 DEF ToggleRestore, Running, Proc
  <2>6. ASSUME Close(p) PROVE Same
    <3>1. /\ proc[p].state # "gone"
          /\ \/ Set(p, [proc[p] EXCEPT !.state = "saving", !.left = CloseCalls(p)])
             \/ Set(p, [proc[p] EXCEPT !.state = "reviewing"])
      BY <2>6 DEF Close, Running
    <3>2. /\ [proc[p] EXCEPT !.state = "saving", !.left = CloseCalls(p)].found = proc[p].found
          /\ [proc[p] EXCEPT !.state = "reviewing"].found = proc[p].found
      BY <1>1 DEF Proc
    <3> QED
      BY <3>1, <3>2
  <2>7. WriteManifest(p) => Same
    BY <1>1 DEF WriteManifest, Proc
  <2>8. ASSUME CleanSession(p) PROVE Same
    <3>1. Set(p, [proc[p] EXCEPT !.state = "exiting",
                              !.doomed = UNION {Superseded(p, n) : n \in {m \in Slot : IsOpen(p, m)}}]) /\ proc[p].state # "gone"
      BY <2>8 DEF CleanSession
    <3>2. [proc[p] EXCEPT !.state = "exiting",
                              !.doomed = UNION {Superseded(p, n) : n \in {m \in Slot : IsOpen(p, m)}}].found = proc[p].found
      BY <1>1 DEF Proc
    <3> QED
      BY <3>1, <3>2
  <2>9. CancelReview(p) => Same
    BY <1>1 DEF CancelReview, Proc
  <2>10. ASSUME FinishReview(p) PROVE Same
    <3>1. Set(p, [proc[p] EXCEPT !.state = "exiting",
                              !.doomed = UNION {OwnedFiles(p, n) : n \in {m \in Slot : IsOpen(p, m)}}]) /\ proc[p].state # "gone"
      BY <2>10 DEF FinishReview
    <3>2. [proc[p] EXCEPT !.state = "exiting",
                              !.doomed = UNION {OwnedFiles(p, n) : n \in {m \in Slot : IsOpen(p, m)}}].found = proc[p].found
      BY <1>1 DEF Proc
    <3> QED
      BY <3>1, <3>2
  <2>11. Same
    BY <1>3, <2>1, <2>2, <2>3, <2>4, <2>5, <2>6, <2>7, <2>8, <2>9, <2>10
  <2> QED
    BY <1>1, <2>11, CandidatesMove
<1>4. ASSUME NEW p \in Process, Adopt(p) \/ OpenRecovered(p) PROVE CandidatesAreLeft'
  <2>1. PICK c : Set(p, c) /\ c.found \subseteq proc[p].found /\ proc[p].state # "gone"
    BY <1>1, <1>4 DEF Adopt, OpenRecovered, OwnerInv, Idle, HasDocuments, Proc
  <2> QED
    BY <1>1, <2>1, CandidatesMove
<1>5. ASSUME NEW p \in Process, Discover(p) PROVE CandidatesAreLeft'
  <2> DEFINE found == {[id |-> id, text |-> snaps[id]] : id \in {i \in Id : Foreign(p, i)}}
             c == [proc[p] EXCEPT !.busy = "open", !.found = found]
  <2>1. Set(p, c) /\ proc[p].state = "up"
    BY <1>5 DEF Discover, Running
  <2>2. \A i \in Id : Foreign(p, i) => snaps[i] \in Text /\ proc[Owner(i)].state = "gone"
    BY DEF Foreign, Alive, OwnerInv, TypeOK
  <2>3. \A f \in found : f \in Found /\ proc[Owner(f.id)].state = "gone"
    BY <2>2 DEF Found
  <2> HIDE DEF found
  <2>4. c.found = found
    BY <1>1 DEF Proc
  <2> HIDE DEF c
  <2> QED
    BY <2>1, <2>3, <2>4, CandidatesMove
<1>6. ASSUME NEW p \in Process, ShutDown(p) \/ Exit(p) \/ Crash(p) PROVE CandidatesAreLeft'
  <2>1. Alive(p) /\ \E state \in {"leaving", "gone"} : Released(p, state)
    BY <1>6 DEF ShutDown, Exit, Crash, Alive
  <2>2. PICK state \in {"leaving", "gone"} : Released(p, state)
    BY <2>1
  <2> DEFINE c == [NotStarted EXCEPT !.state = state, !.used = proc[p].used]
  <2>3. Set(p, c) /\ c.found = {} /\ proc[p].state # "gone"
    BY <2>1, <2>2 DEF Released, NotStarted, Alive
  <2> HIDE DEF c
  <2> QED
    BY <2>3, CandidatesMove
<1>7. ASSUME NEW p \in Process, SnapshotTick(p) \/ CloseSnapshot(p) PROVE CandidatesAreLeft'
  <2>1. \A n, d : [proc[p] EXCEPT !.last = n, !.doomed = d].found = proc[p].found
    BY <1>1 DEF Proc
  <2>2. CASE SnapshotTick(p)
    <3>1. proc[p].state # "gone" /\ \E n, d : Set(p, [proc[p] EXCEPT !.last = n, !.doomed = d])
      BY <2>2 DEF SnapshotTick, SnapshotNext, Running
    <3> QED
      BY <1>1, <2>1, <3>1, CandidatesMove
  <2>3. CASE CloseSnapshot(p)
    <3> DEFINE after == [proc[p] EXCEPT !.left = proc[p].left - 1]
    <3>1. proc[p].state # "gone" /\ (SnapshotNext(p, after) \/ Set(p, after))
      BY <2>3 DEF CloseSnapshot
    <3>2. /\ after.found = proc[p].found
          /\ \A n, d : [after EXCEPT !.last = n, !.doomed = d].found = proc[p].found
      BY <1>1 DEF Proc
    <3> HIDE DEF after
    <3>3. Set(p, after) \/ \E n, d : Set(p, [after EXCEPT !.last = n, !.doomed = d])
      BY <3>1 DEF SnapshotNext
    <3> QED
      BY <1>1, <3>1, <3>2, <3>3, CandidatesMove
  <2> QED
    BY <1>7, <2>2, <2>3
<1>8. ASSUME NEW p \in Process, NEW n \in Slot, Save(p, n) \/ CloseTab(p, n)
      PROVE  CandidatesAreLeft'
  <2>1. PICK c : Set(p, c) /\ c.found = proc[p].found /\ proc[p].state # "gone"
    BY <1>1, <1>8 DEF Save, CloseTab, Running, Proc
  <2> QED
    BY <1>1, <2>1, CandidatesMove
<1>9. ASSUME NEW p \in Process, NEW id \in Id, RestoreEntry(p, id) \/ RemoveFile(p, id)
      PROVE  CandidatesAreLeft'
  <2>1. PICK c : Set(p, c) /\ c.found = proc[p].found /\ proc[p].state # "gone"
    BY <1>1, <1>9 DEF RestoreEntry, RemoveFile, Running, OwnerInv, Idle, HasDocuments, Proc
  <2> QED
    BY <1>1, <2>1, CandidatesMove
<1>10. \A p \in Process, n \in Slot : Edit(p, n) \/ UndoAll(p, n) => UNCHANGED proc
  BY DEF Edit, UndoAll
<1>11. UNCHANGED vars => UNCHANGED proc
  BY DEF vars
<1> QED
  BY <1>2, <1>3, <1>4, <1>5, <1>6, <1>7, <1>8, <1>9, <1>10, <1>11 DEF Next

\* However many processes run, start, close and crash, none of them opens,
\* restores or removes a snapshot of another one that still has documents: the
\* manifest is handed on only once its writer has closed them, and crash
\* recovery takes nothing while the owner mutex is held.
THEOREM LiveSnapshotsHold == Spec => []LiveSnapshotsArePrivate
<1>1. OwnerInv /\ CandidatesAreLeft => LiveSnapshotsArePrivate
  <2> SUFFICES ASSUME OwnerInv, CandidatesAreLeft, NEW p \in Process
               PROVE  /\ \A id \in HeldFiles(p) : Owner(id) = p \/ ~HasDocuments(Owner(id))
                      /\ \A f \in proc[p].found : ~Alive(Owner(f.id))
    BY DEF LiveSnapshotsArePrivate
  <2>1. HeldFiles(p) = Held(proc[p], tabs[p])
    BY DEF HeldFiles, Held, IsOpen
  <2>2. \A id \in HeldFiles(p) : Owner(id) = p \/ ~HasDocuments(Owner(id))
    BY <2>1, ProcType DEF Mine, HasDocuments
  <2>3. \A f \in proc[p].found : ~Alive(Owner(f.id))
    BY DEF CandidatesAreLeft, Alive
  <2> QED
    BY <2>2, <2>3
<1>2. Spec => []CandidatesAreLeft
  <2>1. Init => CandidatesAreLeft
    BY DEF Init, CandidatesAreLeft, NotStarted
  <2> QED
    BY <2>1, CandidatesStep, OwnersHold, PTL DEF Spec
<1> QED
  BY <1>1, <1>2, OwnersHold, PTL

-----------------------------------------------------------------------------
(* What is in the files, and that some file always keeps what was typed.   *)

\* The writer of `id` has closed its documents and reads and writes no file again.
LetGo(id) == proc[Owner(id)].state \in {"leaving", "gone"}

\* The file a document was recovered or restored from, while it is there: no
\* newer than the document, and the same text as long as it is the only file
\* the document has and nothing was typed.
SourceKept(p, n) ==
  tabs[p][n].origin # None =>
    /\ tabs[p][n].dirty
    /\ LetGo(tabs[p][n].origin)
    /\ snaps[tabs[p][n].origin] # None =>
         /\ snaps[tabs[p][n].origin].work = tabs[p][n].text.work
         /\ snaps[tabs[p][n].origin].version <= tabs[p][n].text.version
         /\ tabs[p][n].recorded /\ snaps[<<p, n>>] = None /\ proc[p].state # "exiting" =>
              snaps[tabs[p][n].origin] = tabs[p][n].text

\* The document's own snapshot, while it is there.
OwnKept(p, n) ==
  snaps[<<p, n>>] # None =>
    /\ snaps[<<p, n>>].work = tabs[p][n].text.work
    /\ tabs[p][n].recorded => snaps[<<p, n>>] = tabs[p][n].text

\* What a process is about to reopen was let go by its writers, and the
\* snapshot of a text that is recorded is removed only on the way out.
FieldsKept(p) ==
  /\ \A id \in proc[p].todo : LetGo(id)
  /\ \A f \in proc[p].found : LetGo(f.id) /\ snaps[f.id] \in {None, f.text}
  /\ proc[p].busy # "no" => proc[p].state = "up" /\ proc[p].doomed = {}
  /\ \A n \in Slot : n > proc[p].used => snaps[<<p, n>>] = None /\ ~IsOpen(p, n)
  /\ \A n \in Slot : IsOpen(p, n) => HasDocuments(p)
  /\ \A n \in Slot : IsOpen(p, n) /\ tabs[p][n].recorded /\ proc[p].state # "exiting" =>
       <<p, n>> \notin proc[p].doomed

\* <<r, m>> keeps the work w: it holds it, no older than what was last put in a
\* file, nobody is about to remove it, and its document, if it is open, is unsaved.
Keeper(r, m, w) ==
  /\ snaps[<<r, m>>] # None
  /\ snaps[<<r, m>>].work = w
  /\ snaps[<<r, m>>].version >= kept[w]
  /\ \A q \in Process : <<r, m>> \notin proc[q].doomed
  /\ IsOpen(r, m) => tabs[r][m].dirty

\* Why nothing is lost: a file is given up only after its text is in another
\* one, which nobody gives up, or after the work is saved or discarded.
KeptInv ==
  /\ \A p \in Process : FieldsKept(p)
  /\ \A p \in Process, n \in Slot : IsOpen(p, n) => SourceKept(p, n) /\ OwnKept(p, n)
  /\ \A w \in Id : kept[w] > 0 => \E r \in Process, m \in Slot : Keeper(r, m, w)

LEMMA KeptInit == Init => KeptInv
<1> SUFFICES ASSUME Init PROVE KeptInv
  OBVIOUS
<1>1. ASSUME NEW p \in Process
      PROVE  /\ proc[p].todo = {} /\ proc[p].found = {} /\ proc[p].busy = "no"
             /\ \A n \in Slot : ~IsOpen(p, n) /\ <<p, n>> \in Id
  BY IdFacts DEF Init, NotStarted, IsOpen
<1>2. \A id \in Id : snaps[id] = None /\ kept[id] = 0
  BY DEF Init
<1>3. \A p \in Process : FieldsKept(p)
  BY <1>1, <1>2 DEF FieldsKept
<1>4. \A w \in Id : ~(kept[w] > 0)
  BY <1>2
<1> QED
  BY <1>1, <1>3, <1>4 DEF KeptInv

LEMMA KeptType ==
  ASSUME OwnerInv
  PROVE  /\ \A id \in Id : kept[id] \in Nat
         /\ \A id \in Id : snaps[id] # None =>
              snaps[id] \in Text /\ snaps[id].work \in Id /\ snaps[id].version \in Nat
         /\ \A p \in Process, n \in Slot : IsOpen(p, n) =>
              /\ tabs[p][n] \in Tab /\ tabs[p][n].text \in Text
              /\ tabs[p][n].text.work \in Id /\ tabs[p][n].text.version \in Nat \ {0}
              /\ tabs[p][n].origin \in Id \cup {None}
<1>1. \A x \in Text : x.work \in Id /\ x.version \in Nat \ {0}
  BY RecoveryAssumption DEF Text
<1>2. \A id \in Id : kept[id] \in Nat
  BY RecoveryAssumption DEF OwnerInv, TypeOK
<1>3. \A id \in Id : snaps[id] # None => snaps[id] \in Text
  BY DEF OwnerInv, TypeOK
<1>4. ASSUME NEW p \in Process, NEW n \in Slot, IsOpen(p, n)
      PROVE  tabs[p][n] \in Tab /\ tabs[p][n].text \in Text /\ tabs[p][n].origin \in Id \cup {None}
  BY <1>4, OpenTabType DEF Tab
<1> QED
  BY <1>1, <1>2, <1>3, <1>4

\* A step of p leaves what holds of the other processes and their documents:
\* files of processes with documents are not touched, the others only lose files.
LEMMA OthersKept ==
  ASSUME OwnerInv, KeptInv, OwnerInv', NEW p \in Process,
         proc[p].state \in {"leaving", "gone"} => proc'[p].state \in {"leaving", "gone"},
         \A q \in Process \ {p} : proc'[q] = proc[q] /\ tabs'[q] = tabs[q],
         \A id \in Id : \/ snaps'[id] = snaps[id]
                        \/ snaps'[id] = None /\ id \in proc[p].doomed
                        \/ Owner(id) = p /\ proc[p].state \notin {"leaving", "gone"},
         NEW q \in Process, q # p
  PROVE  /\ FieldsKept(q)'
         /\ \A n \in Slot : IsOpen(q, n)' => SourceKept(q, n)' /\ OwnKept(q, n)'
<1>1. proc'[q] = proc[q] /\ tabs'[q] = tabs[q] /\ FieldsKept(q)
  BY DEF KeptInv
<1>2. ASSUME NEW id \in Id, LetGo(id)
      PROVE  LetGo(id)' /\ (snaps'[id] = None \/ snaps'[id] = snaps[id])
  BY <1>2, IdFacts DEF LetGo, Owner
<1>3. ASSUME NEW n \in Slot
      PROVE  \/ snaps'[<<q, n>>] = snaps[<<q, n>>]
             \/ snaps'[<<q, n>>] = None /\ proc[q].state \in {"leaving", "gone"}
  <2>1. <<q, n>> \in Id /\ Owner(<<q, n>>) = q
    BY IdFacts
  <2>2. <<q, n>> \in proc[p].doomed => Mine(p, <<q, n>>)
    BY ProcType DEF Held
  <2> QED
    BY <2>1, <2>2 DEF Mine
<1>4. FieldsKept(q)'
  <2>1. \A id \in proc[q].todo : id \in Id
    BY ProcType DEF Proc
  <2>2. \A f \in proc[q].found : f.id \in Id
    BY ProcType DEF Proc, Found
  <2>3. \A id \in proc'[q].todo : LetGo(id)'
    BY <1>1, <1>2, <2>1 DEF FieldsKept
  <2>4. \A f \in proc'[q].found : LetGo(f.id)' /\ snaps'[f.id] \in {None, f.text}
    BY <1>1, <1>2, <2>2 DEF FieldsKept
  <2>5. \A n \in Slot : n > proc'[q].used => snaps'[<<q, n>>] = None /\ ~IsOpen(q, n)'
    BY <1>1, <1>3 DEF FieldsKept, IsOpen
  <2> QED
    BY <1>1, <2>3, <2>4, <2>5 DEF FieldsKept, IsOpen, HasDocuments, Slot
<1>5. ASSUME NEW n \in Slot, IsOpen(q, n)' PROVE SourceKept(q, n)' /\ OwnKept(q, n)'
  <2>1. IsOpen(q, n) /\ HasDocuments(q) /\ SourceKept(q, n) /\ OwnKept(q, n)
    BY <1>1, <1>5 DEF IsOpen, FieldsKept, KeptInv
  <2>2. snaps'[<<q, n>>] = snaps[<<q, n>>]
    BY <1>3, <2>1 DEF HasDocuments
  <2>3. OwnKept(q, n)'
    BY <1>1, <2>1, <2>2 DEF OwnKept
  <2>4. CASE tabs[q][n].origin = None
    BY <1>1, <2>3, <2>4 DEF SourceKept
  <2>5. CASE tabs[q][n].origin # None
    <3>1. tabs[q][n].origin \in Id /\ LetGo(tabs[q][n].origin)
      BY <2>1, <2>5, KeptType DEF SourceKept
    <3>2. /\ LetGo(tabs[q][n].origin)'
          /\ snaps'[tabs[q][n].origin] = None \/ snaps'[tabs[q][n].origin] = snaps[tabs[q][n].origin]
      BY <1>1, <1>2, <3>1 DEF LetGo
    <3> QED
      BY <1>1, <2>1, <2>2, <2>3, <3>1, <3>2 DEF SourceKept, LetGo
  <2> QED
    BY <2>4, <2>5
<1> QED
  BY <1>4, <1>5

\* A keeper goes on keeping a work that is not put in another file.
LEMMA KeeperStays ==
  ASSUME NEW p \in Process, NEW r \in Process, NEW m \in Slot, NEW w \in Id,
         Keeper(r, m, w),
         \A q \in Process \ {p} : proc'[q] = proc[q] /\ tabs'[q] = tabs[q],
         snaps'[<<r, m>>] = snaps[<<r, m>>],
         kept'[w] = kept[w],
         <<r, m>> \notin proc'[p].doomed,
         r = p /\ IsOpen(p, m)' => tabs'[p][m].dirty
  PROVE  Keeper(r, m, w)'
<1>1. \A q \in Process : <<r, m>> \notin proc'[q].doomed
  BY DEF Keeper
<1>2. IsOpen(r, m)' => tabs'[r][m].dirty
  BY DEF Keeper, IsOpen
<1> QED
  BY <1>1, <1>2 DEF Keeper

\* A step of p keeps the invariant when it does so for p and for the keepers.
LEMMA KeptMove ==
  ASSUME OwnerInv, KeptInv, OwnerInv', NEW p \in Process,
         proc[p].state \in {"leaving", "gone"} => proc'[p].state \in {"leaving", "gone"},
         \A q \in Process \ {p} : proc'[q] = proc[q] /\ tabs'[q] = tabs[q],
         \A id \in Id : \/ snaps'[id] = snaps[id]
                        \/ snaps'[id] = None /\ id \in proc[p].doomed
                        \/ Owner(id) = p /\ proc[p].state \notin {"leaving", "gone"},
         FieldsKept(p)',
         \A n \in Slot : IsOpen(p, n)' => SourceKept(p, n)' /\ OwnKept(p, n)',
         \A w \in Id : kept'[w] > 0 => \E r \in Process, m \in Slot : Keeper(r, m, w)'
  PROVE  KeptInv'
<1>1. \A q \in Process : q # p =>
        /\ FieldsKept(q)'
        /\ \A n \in Slot : IsOpen(q, n)' => SourceKept(q, n)' /\ OwnKept(q, n)'
  BY OthersKept
<1> QED
  BY <1>1 DEF KeptInv, Slot, Id

\* A step that changes nothing but the fields of p.
LEMMA KeptFields ==
  ASSUME OwnerInv, KeptInv, OwnerInv', NEW p \in Process, NEW c \in Proc,
         proc' = [proc EXCEPT ![p] = c],
         UNCHANGED <<snaps, tabs, kept>>,
         proc[p].state \notin {"leaving", "gone", "exiting"},
         c.state \notin {"off", "leaving", "gone", "exiting"},
         c.used = proc[p].used,
         c.doomed \subseteq proc[p].doomed,
         c.busy # "no" => c.state = "up" /\ c.doomed = {},
         \A id \in c.todo : id \in proc[p].todo \/ LetGo(id),
         \A f \in c.found : f \in proc[p].found \/ (LetGo(f.id) /\ snaps[f.id] \in {None, f.text})
  PROVE  KeptInv'
<1>1. /\ proc'[p] = c
      /\ \A q \in Process \ {p} : proc'[q] = proc[q] /\ tabs'[q] = tabs[q]
  BY DEF OwnerInv, TypeOK
<1>2. FieldsKept(p)
  BY DEF KeptInv
<1>3. ASSUME NEW id, Owner(id) \in Process, LetGo(id) PROVE LetGo(id)'
  BY <1>1, <1>3 DEF LetGo, Owner
<1>4. FieldsKept(p)'
  <2>1. \A id \in c.todo : id \in Id /\ Owner(id) \in Process /\ LetGo(id)
    BY <1>2, IdFacts DEF FieldsKept, Proc
  <2>2. \A f \in c.found : Owner(f.id) \in Process /\ LetGo(f.id) /\ snaps[f.id] \in {None, f.text}
    BY <1>2, IdFacts DEF FieldsKept, Proc, Found
  <2>3. \A id \in proc'[p].todo : LetGo(id)'
    BY <1>1, <1>3, <2>1
  <2>4. \A f \in proc'[p].found : LetGo(f.id)' /\ snaps'[f.id] \in {None, f.text}
    BY <1>1, <1>3, <2>2
  <2>5. HasDocuments(p)'
    BY <1>1 DEF HasDocuments
  <2>6. \A n \in Slot : IsOpen(p, n)' /\ tabs'[p][n].recorded /\ proc'[p].state # "exiting" =>
          <<p, n>> \notin proc'[p].doomed
    BY <1>1, <1>2 DEF FieldsKept, IsOpen
  <2> QED
    BY <1>1, <1>2, <2>3, <2>4, <2>5, <2>6 DEF FieldsKept, IsOpen, Slot
<1>5. ASSUME NEW n \in Slot, IsOpen(p, n)' PROVE SourceKept(p, n)' /\ OwnKept(p, n)'
  <2>1. IsOpen(p, n) /\ SourceKept(p, n) /\ OwnKept(p, n)
    BY <1>5 DEF IsOpen, KeptInv
  <2>2. OwnKept(p, n)'
    BY <2>1 DEF OwnKept
  <2>3. CASE tabs[p][n].origin = None
    BY <2>2, <2>3 DEF SourceKept
  <2>4. CASE tabs[p][n].origin # None
    <3>1. tabs[p][n].origin \in Id /\ LetGo(tabs[p][n].origin)
      BY <2>1, <2>4, KeptType DEF SourceKept
    <3>2. LetGo(tabs[p][n].origin)'
      BY <1>3, <3>1, IdFacts DEF LetGo
    <3> QED
      BY <2>1, <2>2, <3>2 DEF SourceKept, LetGo
  <2> QED
    BY <2>3, <2>4
<1>6. ASSUME NEW w \in Id, kept'[w] > 0
      PROVE  \E r \in Process, m \in Slot : Keeper(r, m, w)'
  <2>1. PICK r \in Process, m \in Slot : Keeper(r, m, w)
    BY <1>6 DEF KeptInv
  <2>2. <<r, m>> \notin proc'[p].doomed /\ (r = p /\ IsOpen(p, m)' => tabs'[p][m].dirty)
    BY <1>1, <2>1 DEF Keeper, IsOpen
  <2>3. Keeper(r, m, w)'
    BY <1>1, <2>1, <2>2, KeeperStays
  <2> QED
    BY <2>3
<1>7. \A id \in Id : snaps'[id] = snaps[id]
  OBVIOUS
<1> QED
  BY <1>1, <1>4, <1>5, <1>6, <1>7, KeptMove

\* The fields of a process that is up.
LEMMA UpFields ==
  ASSUME OwnerInv, KeptInv, NEW p \in Process
  PROVE  /\ proc[p] \in Proc
         /\ FieldsKept(p)
         /\ proc[p].busy # "no" => proc[p].state = "up" /\ proc[p].doomed = {}
         /\ Running(p) => proc[p].state = "up" /\ proc[p].busy = "no" /\ proc[p].doomed = {}
         /\ Idle(p) => proc[p].busy = "no" /\ proc[p].doomed = {}
BY ProcType DEF KeptInv, FieldsKept, Running, Idle

\* The steps that only change fields: starting, what is to be reopened, the
\* setting, a failed write, and the decisions of a close.
LEMMA StartKept ==
  ASSUME OwnerInv, KeptInv, OwnerInv', NEW p \in Process, Start(p) \/ BeginRestore(p)
  PROVE  KeptInv'
<1>1. /\ proc[p] \in Proc
      /\ proc[p].busy # "no" => proc[p].state = "up"
  BY UpFields
<1>2. CASE Start(p)
  <2>1. PICK on \in Settings :
          proc' = [proc EXCEPT ![p] =
                     [proc[p] EXCEPT !.state = "boot", !.restore = on,
                                     !.primary = \A q \in Process : ~(Alive(q) /\ proc[q].primary)]]
    BY <1>2 DEF Start, Set
  <2> DEFINE c == [proc[p] EXCEPT !.state = "boot", !.restore = on,
                                  !.primary = \A q \in Process : ~(Alive(q) /\ proc[q].primary)]
  <2>2. proc[p].state = "off" /\ proc[p].busy = "no" /\ UNCHANGED <<snaps, tabs, kept>>
    BY <1>1, <1>2, UpFields DEF Start
  <2>3. /\ c \in Proc /\ c.state = "boot" /\ c.busy = "no" /\ c.used = proc[p].used
        /\ c.doomed = proc[p].doomed /\ c.todo = proc[p].todo /\ c.found = proc[p].found
    BY <1>1, <2>2, RecoveryAssumption DEF Proc
  <2>4. proc' = [proc EXCEPT ![p] = c]
    BY <2>1
  <2> HIDE DEF c
  <2> QED
    BY <2>2, <2>3, <2>4, KeptFields
<1>3. CASE BeginRestore(p)
  <2>1. proc[p].state = "boot" /\ proc[p].busy = "no" /\ UNCHANGED <<snaps, tabs, kept>>
    BY <1>1, <1>3, UpFields DEF BeginRestore
  <2>2. CASE proc[p].primary
    <3> DEFINE c == [proc[p] EXCEPT !.state = "up",
                                    !.todo = IF proc[p].restore THEN manifest ELSE {},
                                    !.restoring = proc[p].restore /\ manifest # {}]
    <3>1. /\ c \in Proc /\ c.state = "up" /\ c.busy = "no" /\ c.used = proc[p].used
          /\ c.doomed = proc[p].doomed /\ c.todo \subseteq manifest /\ c.found = proc[p].found
      BY <1>1, <2>1 DEF Proc, OwnerInv, TypeOK
    <3>2. proc' = [proc EXCEPT ![p] = c]
      BY <1>3, <2>2 DEF BeginRestore, Set
    <3> HIDE DEF c
    <3>3. ASSUME NEW id \in manifest PROVE LetGo(id)
      <4>1. Owner(id) \in Process /\ HandsOver(proc[Owner(id)])
        BY IdFacts DEF OwnerInv, TypeOK
      <4>2. CASE proc[Owner(id)].primary /\ proc[Owner(id)].state \in {"cleaning", "exiting"}
        <5>1. HasDocuments(Owner(id)) /\ HasDocuments(p)
          BY <2>1, <4>2 DEF HasDocuments
        <5> QED
          BY <2>1, <2>2, <4>1, <4>2, <5>1 DEF OwnerInv
      <4> QED
        BY <4>1, <4>2 DEF HandsOver, LetGo
    <3> QED
      BY <2>1, <3>1, <3>2, <3>3, KeptFields
  <2>3. CASE ~proc[p].primary
    <3> DEFINE c == [proc[p] EXCEPT !.state = "up"]
    <3>1. /\ c \in Proc /\ c.state = "up" /\ c.busy = "no" /\ c.used = proc[p].used
          /\ c.doomed = proc[p].doomed /\ c.todo = proc[p].todo /\ c.found = proc[p].found
      BY <1>1, <2>1 DEF Proc
    <3>2. proc' = [proc EXCEPT ![p] = c]
      BY <1>3, <2>3 DEF BeginRestore, Set
    <3> HIDE DEF c
    <3> QED
      BY <2>1, <3>1, <3>2, KeptFields
  <2> QED
    BY <2>2, <2>3
<1> QED
  BY <1>2, <1>3

LEMMA UpKept ==
  ASSUME OwnerInv, KeptInv, OwnerInv', NEW p \in Process,
         FinishRestore(p) \/ ToggleRestore(p) \/ Discover(p)
  PROVE  KeptInv'
<1>1. /\ proc[p] \in Proc /\ proc[p].state = "up" /\ proc[p].busy = "no" /\ proc[p].doomed = {}
      /\ UNCHANGED <<snaps, tabs, kept>>
  BY UpFields DEF FinishRestore, ToggleRestore, Discover
<1>2. CASE FinishRestore(p)
  <2> DEFINE c == [proc[p] EXCEPT !.restoring = FALSE]
  <2>1. /\ c \in Proc /\ c.state = "up" /\ c.busy = "no" /\ c.used = proc[p].used
        /\ c.doomed = {} /\ c.todo = proc[p].todo /\ c.found = proc[p].found
    BY <1>1 DEF Proc
  <2>2. proc' = [proc EXCEPT ![p] = c]
    BY <1>2 DEF FinishRestore, Set
  <2> HIDE DEF c
  <2> QED
    BY <1>1, <2>1, <2>2, KeptFields
<1>3. CASE ToggleRestore(p)
  <2>1. PICK on \in Settings : Set(p, [proc[p] EXCEPT !.restore = on])
    BY <1>3 DEF ToggleRestore
  <2> DEFINE c == [proc[p] EXCEPT !.restore = on]
  <2>2. /\ c \in Proc /\ c.state = "up" /\ c.busy = "no" /\ c.used = proc[p].used
        /\ c.doomed = {} /\ c.todo = proc[p].todo /\ c.found = proc[p].found
    BY <1>1, RecoveryAssumption DEF Proc
  <2>3. proc' = [proc EXCEPT ![p] = c]
    BY <2>1 DEF Set
  <2> HIDE DEF c
  <2> QED
    BY <1>1, <2>2, <2>3, KeptFields
<1>4. CASE Discover(p)
  <2> DEFINE found == {[id |-> id, text |-> snaps[id]] : id \in {i \in Id : Foreign(p, i)}}
             c == [proc[p] EXCEPT !.busy = "open", !.found = found]
  <2>1. proc' = [proc EXCEPT ![p] = c]
    BY <1>4 DEF Discover, Set
  <2>2. \A i \in Id : Foreign(p, i) => snaps[i] \in Text /\ LetGo(i)
    BY DEF Foreign, LetGo, Alive, OwnerInv, TypeOK
  <2>3. \A f \in found : f \in Found /\ LetGo(f.id) /\ snaps[f.id] = f.text
    BY <2>2 DEF Found
  <2> HIDE DEF found
  <2>4. /\ c \in Proc /\ c.state = "up" /\ c.busy = "open" /\ c.used = proc[p].used
        /\ c.doomed = {} /\ c.todo = proc[p].todo /\ c.found = found
    BY <1>1, <2>3 DEF Proc
  <2> HIDE DEF c
  <2> QED
    BY <1>1, <2>1, <2>3, <2>4, KeptFields
<1> QED
  BY <1>2, <1>3, <1>4

\* The documents after a step that replaces one.
LEMMA AfterSetTab ==
  ASSUME OwnerInv, NEW p \in Process, NEW n \in Slot, NEW x, SetTab(p, n, x)
  PROVE  /\ tabs'[p][n] = x
         /\ \A m \in Slot \ {n} : tabs'[p][m] = tabs[p][m] /\ (IsOpen(p, m)' <=> IsOpen(p, m))
         /\ \A q \in Process \ {p} : tabs'[q] = tabs[q]
         /\ (IsOpen(p, n)' <=> x # None)
<1>1. tabs \in [Process -> [Slot -> Tab \cup {None}]] /\ tabs[p] \in [Slot -> Tab \cup {None}]
  BY ProcType DEF OwnerInv, TypeOK
<1>2. tabs'[p] = [tabs[p] EXCEPT ![n] = x] /\ \A q \in Process \ {p} : tabs'[q] = tabs[q]
  BY <1>1 DEF SetTab
<1>3. tabs'[p][n] = x /\ \A m \in Slot \ {n} : tabs'[p][m] = tabs[p][m]
  BY <1>1, <1>2
<1>4. (IsOpen(p, n)' <=> x # None)
  BY <1>3 DEF IsOpen
<1>5. \A m \in Slot \ {n} : (IsOpen(p, m)' <=> IsOpen(p, m))
  BY <1>3 DEF IsOpen
<1> QED
  BY <1>2, <1>3, <1>4, <1>5

\* A file that was let go stays so, whatever p does.
LEMMA LetGoStays ==
  ASSUME NEW p \in Process,
         proc[p].state \in {"leaving", "gone"} => proc'[p].state \in {"leaving", "gone"},
         \A q \in Process \ {p} : proc'[q] = proc[q],
         NEW id \in Id, LetGo(id)
  PROVE  LetGo(id)'
BY IdFacts DEF LetGo, Owner

\* A document that p leaves as it is, while its files stay as they are.
LEMMA SameDocument ==
  ASSUME OwnerInv, KeptInv, NEW p \in Process, NEW n \in Slot,
         proc[p].state \notin {"leaving", "gone"},
         \A q \in Process \ {p} : proc'[q] = proc[q],
         IsOpen(p, n), tabs'[p][n] = tabs[p][n],
         snaps'[<<p, n>>] = snaps[<<p, n>>],
         \A id \in Id : LetGo(id) => snaps'[id] \in {None, snaps[id]},
         proc'[p].state # "exiting" => proc[p].state # "exiting"
  PROVE  SourceKept(p, n)' /\ OwnKept(p, n)'
<1>1. SourceKept(p, n) /\ OwnKept(p, n)
  BY DEF KeptInv
<1>2. OwnKept(p, n)'
  BY <1>1 DEF OwnKept
<1>3. CASE tabs[p][n].origin = None
  BY <1>2, <1>3 DEF SourceKept
<1>4. CASE tabs[p][n].origin # None
  <2>1. tabs[p][n].origin \in Id /\ LetGo(tabs[p][n].origin)
    BY <1>1, <1>4, KeptType DEF SourceKept
  <2>2. LetGo(tabs[p][n].origin)'
    BY <2>1, LetGoStays DEF LetGo
  <2>3. snaps'[tabs[p][n].origin] \in {None, snaps[tabs[p][n].origin]}
    BY <2>1
  <2> QED
    BY <1>1, <1>2, <2>2, <2>3 DEF SourceKept, LetGo
<1> QED
  BY <1>3, <1>4

\* What p was about to reopen, after a step that adds nothing to it.
LEMMA SameReopening ==
  ASSUME OwnerInv, KeptInv, NEW p \in Process, NEW c \in Proc,
         proc[p].state \notin {"leaving", "gone"},
         proc'[p] = c,
         \A q \in Process \ {p} : proc'[q] = proc[q],
         c.todo \subseteq proc[p].todo, c.found \subseteq proc[p].found,
         \A id \in Id : LetGo(id) => snaps'[id] \in {None, snaps[id]}
  PROVE  /\ \A id \in proc'[p].todo : LetGo(id)'
         /\ \A f \in proc'[p].found : LetGo(f.id)' /\ snaps'[f.id] \in {None, f.text}
<1>1. FieldsKept(p)
  BY DEF KeptInv
<1>2. \A id \in c.todo : id \in Id /\ LetGo(id)
  BY <1>1 DEF FieldsKept, Proc
<1>3. \A f \in c.found : f.id \in Id /\ LetGo(f.id) /\ snaps[f.id] \in {None, f.text}
  BY <1>1 DEF FieldsKept, Proc, Found
<1>4. \A id \in Id : LetGo(id) => LetGo(id)'
  BY LetGoStays
<1>5. \A id \in proc'[p].todo : LetGo(id)'
  BY <1>2, <1>4
<1>6. \A f \in proc'[p].found : LetGo(f.id)'
  BY <1>3, <1>4
<1>7. \A f \in proc'[p].found : snaps'[f.id] \in {None, f.text}
  BY <1>3
<1> QED
  BY <1>5, <1>6, <1>7

\* A document is opened under the next recovery id.
LEMMA KeptOpen ==
  ASSUME OwnerInv, KeptInv, OwnerInv', NEW p \in Process, NEW c \in Proc, NEW x \in Tab,
         proc' = [proc EXCEPT ![p] = c],
         OpenTab(p, x), proc[p].used < MaxTabs,
         UNCHANGED <<snaps, kept>>,
         proc[p].state = "up", c.state = "up", c.doomed = {},
         c.used = proc[p].used + 1,
         c.todo \subseteq proc[p].todo, c.found \subseteq proc[p].found,
         x.origin # None =>
           x.dirty /\ x.origin \in Id /\ LetGo(x.origin) /\ snaps[x.origin] \in {None, x.text}
  PROVE  KeptInv'
<1>0. proc[p].used \in Nat /\ proc[p].used + 1 \in Slot /\ FieldsKept(p)
  BY ProcType, RecoveryAssumption DEF Slot, Proc, KeptInv
<1>1. PICK k \in Slot : k = proc[p].used + 1
  BY <1>0
<1>2. SetTab(p, k, x)
  BY <1>1 DEF OpenTab
<1>3. snaps[<<p, k>>] = None
  BY <1>0, <1>1 DEF FieldsKept
<1>4. x # None
  BY NoneIsNoTab
<1>5. /\ proc'[p] = c
      /\ \A q \in Process \ {p} : proc'[q] = proc[q]
  BY DEF OwnerInv, TypeOK
<1>6. c.used = k
  BY <1>1
<1>7. /\ tabs'[p][k] = x /\ IsOpen(p, k)'
      /\ \A m \in Slot \ {k} : tabs'[p][m] = tabs[p][m] /\ (IsOpen(p, m)' <=> IsOpen(p, m))
      /\ \A q \in Process \ {p} : tabs'[q] = tabs[q]
  BY <1>1, <1>2, <1>4, AfterSetTab
<1>8. FieldsKept(p)'
  <2>1. /\ \A id \in proc'[p].todo : LetGo(id)'
        /\ \A f \in proc'[p].found : LetGo(f.id)' /\ snaps'[f.id] \in {None, f.text}
    BY <1>5, SameReopening
  <2>2. \A n \in Slot : n > c.used => n > proc[p].used /\ n # k
    BY <1>0, <1>1, RecoveryAssumption DEF Slot
  <2>3. \A n \in Slot : n > proc'[p].used => snaps'[<<p, n>>] = None /\ ~IsOpen(p, n)'
    BY <1>0, <1>5, <1>7, <2>2 DEF FieldsKept
  <2> QED
    BY <1>5, <2>1, <2>3 DEF FieldsKept, HasDocuments, Slot
<1>9. ASSUME NEW n \in Slot, IsOpen(p, n)' PROVE SourceKept(p, n)' /\ OwnKept(p, n)'
  <2>1. CASE n = k
    <3>1. OwnKept(p, k)'
      BY <1>3 DEF OwnKept
    <3>2. CASE x.origin = None
      BY <1>7, <2>1, <3>1, <3>2 DEF SourceKept
    <3>3. CASE x.origin # None
      <4>1. LetGo(x.origin)'
        BY <1>5, <3>3, LetGoStays
      <4>2. x.text.version <= x.text.version
        BY RecoveryAssumption DEF Tab, Text
      <4>3. SourceKept(p, k)'
        BY <1>7, <3>3, <4>1, <4>2 DEF SourceKept, LetGo
      <4> QED
        BY <2>1, <3>1, <4>3
    <3> QED
      BY <3>2, <3>3
  <2>2. CASE n # k
    BY <1>5, <1>7, <1>9, <2>2, SameDocument
  <2> QED
    BY <2>1, <2>2
<1>10. ASSUME NEW w \in Id, kept'[w] > 0
       PROVE  \E r \in Process, m \in Slot : Keeper(r, m, w)'
  <2>1. PICK r \in Process, m \in Slot : Keeper(r, m, w)
    BY <1>10 DEF KeptInv
  <2>2. r = p => m # k
    BY <1>3, <2>1 DEF Keeper
  <2>3. r = p /\ IsOpen(p, m)' => tabs'[p][m].dirty
    BY <1>7, <2>1, <2>2 DEF Keeper
  <2>4. /\ <<r, m>> \notin proc'[p].doomed
        /\ snaps'[<<r, m>>] = snaps[<<r, m>>]
        /\ kept'[w] = kept[w]
    BY <1>5
  <2>5. \A q \in Process \ {p} : proc'[q] = proc[q] /\ tabs'[q] = tabs[q]
    BY <1>5, <1>7
  <2>6. Keeper(r, m, w)'
    BY <2>1, <2>3, <2>4, <2>5, KeeperStays, Zenon
  <2> QED
    BY <2>6
<1>11. \A id \in Id : snaps'[id] = snaps[id]
  OBVIOUS
<1> QED
  BY <1>5, <1>7, <1>8, <1>9, <1>10, <1>11, KeptMove

LEMMA RestoreEntryKept ==
  ASSUME OwnerInv, KeptInv, OwnerInv', NEW p \in Process, NEW id \in Id, RestoreEntry(p, id)
  PROVE  KeptInv'
<1>1. /\ proc[p] \in Proc /\ proc[p].state = "up" /\ proc[p].busy = "no" /\ proc[p].doomed = {}
      /\ id \in proc[p].todo /\ LetGo(id) /\ UNCHANGED <<snaps, kept>>
  BY UpFields DEF RestoreEntry, FieldsKept
<1>2. CASE snaps[id] = None
  <2> DEFINE c == [proc[p] EXCEPT !.todo = proc[p].todo \ {id}]
  <2>1. /\ c \in Proc /\ c.state = "up" /\ c.busy = "no" /\ c.used = proc[p].used
        /\ c.doomed = {} /\ c.todo \subseteq proc[p].todo /\ c.found = proc[p].found
    BY <1>1 DEF Proc
  <2>2. proc' = [proc EXCEPT ![p] = c] /\ UNCHANGED tabs
    BY <1>2 DEF RestoreEntry, Set
  <2> HIDE DEF c
  <2> QED
    BY <1>1, <2>1, <2>2, KeptFields
<1>3. CASE snaps[id] # None
  <2> DEFINE c == [proc[p] EXCEPT !.todo = proc[p].todo \ {id}, !.used = proc[p].used + 1, !.busy = "adopt"]
             x == FromSnapshot(id, snaps[id])
  <2>1. proc[p].used < MaxTabs /\ OpenTab(p, x) /\ proc' = [proc EXCEPT ![p] = c]
    BY <1>3 DEF RestoreEntry, Set
  <2>2. proc[p].used + 1 \in 0..MaxTabs
    BY <1>1, <2>1, RecoveryAssumption DEF Proc
  <2>3. /\ c \in Proc /\ c.state = "up" /\ c.used = proc[p].used + 1
        /\ c.doomed = {} /\ c.todo \subseteq proc[p].todo /\ c.found = proc[p].found
    BY <1>1, <2>2 DEF Proc
  <2>4. snaps[id] \in Text
    BY <1>3, KeptType
  <2>5. x \in Tab /\ x.origin = id /\ x.dirty /\ x.text = snaps[id]
    BY <2>4, FromSnapshotFacts DEF FromSnapshot
  <2> HIDE DEF c, x
  <2> QED
    BY <1>1, <2>1, <2>3, <2>5, KeptOpen
<1> QED
  BY <1>2, <1>3

LEMMA OpenRecoveredKept ==
  ASSUME OwnerInv, KeptInv, OwnerInv', NEW p \in Process, OpenRecovered(p)
  PROVE  KeptInv'
<1>1. /\ proc[p] \in Proc /\ proc[p].state = "up" /\ proc[p].busy = "open" /\ proc[p].doomed = {}
      /\ FieldsKept(p) /\ UNCHANGED <<snaps, kept>>
  BY UpFields DEF OpenRecovered
<1>2. CASE Set(p, [proc[p] EXCEPT !.busy = "no", !.found = {}]) /\ UNCHANGED tabs
  <2> DEFINE c == [proc[p] EXCEPT !.busy = "no", !.found = {}]
  <2>1. /\ c \in Proc /\ c.state = "up" /\ c.busy = "no" /\ c.used = proc[p].used
        /\ c.doomed = {} /\ c.todo = proc[p].todo /\ c.found = {}
    BY <1>1 DEF Proc
  <2>2. proc' = [proc EXCEPT ![p] = c]
    BY <1>2 DEF Set
  <2> HIDE DEF c
  <2> QED
    BY <1>1, <1>2, <2>1, <2>2, KeptFields
<1>3. ASSUME NEW f \in proc[p].found,
             proc[p].used < MaxTabs,
             OpenTab(p, FromSnapshot(f.id, f.text)),
             Set(p, [proc[p] EXCEPT !.used = @ + 1, !.found = @ \ {f}])
      PROVE  KeptInv'
  <2> DEFINE c == [proc[p] EXCEPT !.used = proc[p].used + 1, !.found = proc[p].found \ {f}]
             x == FromSnapshot(f.id, f.text)
  <2>1. proc[p].used + 1 \in 0..MaxTabs
    BY <1>1, <1>3, RecoveryAssumption DEF Proc
  <2>2. /\ c \in Proc /\ c.state = "up" /\ c.used = proc[p].used + 1
        /\ c.doomed = {} /\ c.todo = proc[p].todo /\ c.found \subseteq proc[p].found
    BY <1>1, <2>1 DEF Proc
  <2>3. proc' = [proc EXCEPT ![p] = c] /\ OpenTab(p, x)
    BY <1>3 DEF Set
  <2>4. /\ f.id \in Id /\ f.text \in Text
        /\ LetGo(f.id) /\ snaps[f.id] \in {None, f.text}
    BY <1>1, <1>3 DEF Proc, Found, FieldsKept
  <2>5. x \in Tab /\ x.origin = f.id /\ x.dirty /\ x.text = f.text
    BY <2>4, FromSnapshotFacts DEF FromSnapshot
  <2> HIDE DEF c, x
  <2> QED
    BY <1>1, <1>3, <2>2, <2>3, <2>4, <2>5, KeptOpen
<1> QED
  BY <1>2, <1>3 DEF OpenRecovered

LEMMA NewDocumentKept ==
  ASSUME OwnerInv, KeptInv, OwnerInv', NEW p \in Process, NewDocument(p)
  PROVE  KeptInv'
<1>1. /\ proc[p] \in Proc /\ proc[p].state = "up" /\ proc[p].doomed = {}
      /\ proc[p].used < MaxTabs /\ UNCHANGED <<snaps, kept>>
  BY UpFields DEF NewDocument
<1> DEFINE c == [proc[p] EXCEPT !.used = proc[p].used + 1]
           x == [text |-> [work |-> <<p, proc[p].used + 1>>, version |-> 1], dirty |-> TRUE,
                 recorded |-> FALSE, origin |-> None]
<1>2. proc[p].used + 1 \in Slot /\ proc[p].used + 1 \in 0..MaxTabs /\ 1 \in 1..MaxVersion
  BY <1>1, RecoveryAssumption DEF Proc, Slot
<1>3. /\ c \in Proc /\ c.state = "up" /\ c.used = proc[p].used + 1
      /\ c.doomed = {} /\ c.todo = proc[p].todo /\ c.found = proc[p].found
  BY <1>1, <1>2 DEF Proc
<1>4. proc' = [proc EXCEPT ![p] = c] /\ OpenTab(p, x)
  BY DEF NewDocument, Set
<1>5. x \in Tab /\ x.origin = None
  BY <1>2, IdFacts DEF Tab, Text
<1> HIDE DEF c, x
<1> QED
  BY <1>1, <1>3, <1>4, <1>5, KeptOpen

\* The files of a process with documents are in nobody's way but its own.
LEMMA OwnIsPrivate ==
  ASSUME OwnerInv, NEW p \in Process, NEW n \in Slot, HasDocuments(p)
  PROVE  /\ ~LetGo(<<p, n>>)
         /\ \A q \in Process \ {p} : <<p, n>> \notin proc[q].doomed
<1>1. <<p, n>> \in Id /\ Owner(<<p, n>>) = p
  BY IdFacts
<1>2. ~LetGo(<<p, n>>)
  BY <1>1 DEF LetGo, HasDocuments
<1>3. ASSUME NEW q \in Process, q # p, <<p, n>> \in proc[q].doomed PROVE FALSE
  <2>1. Mine(q, <<p, n>>)
    BY <1>3, ProcType DEF Held
  <2> QED
    BY <1>1, <1>3, <2>1 DEF Mine, HasDocuments
<1> QED
  BY <1>2, <1>3

\* A text reaches the disk, and only then is its source given up.
LEMMA KeptWritten ==
  ASSUME OwnerInv, KeptInv, OwnerInv', NEW p \in Process, NEW n \in Slot, NEW c \in Proc,
         proc' = [proc EXCEPT ![p] = c],
         Written(p, n),
         IsOpen(p, n), tabs[p][n].dirty,
         proc[p].state \notin {"off", "leaving", "gone", "exiting"}, c.state = proc[p].state, c.busy = "no",
         c.used = proc[p].used,
         c.doomed \subseteq {tabs[p][n].origin} \ {None},
         c.todo \subseteq proc[p].todo, c.found \subseteq proc[p].found
  PROVE  KeptInv'
<1>1. /\ tabs[p][n] \in Tab /\ tabs[p][n].text \in Text
      /\ tabs[p][n].text.work \in Id /\ tabs[p][n].text.version \in Nat
      /\ tabs[p][n].origin \in Id \cup {None}
      /\ SourceKept(p, n) /\ OwnKept(p, n) /\ FieldsKept(p)
  BY KeptType DEF KeptInv
<1>2. <<p, n>> \in Id /\ None \notin Text /\ HasDocuments(p)
  BY IdFacts DEF HasDocuments
<1>3. PICK x \in Tab : /\ SetTab(p, n, x)
                       /\ x.text = tabs[p][n].text /\ x.dirty /\ x.recorded
                       /\ x.origin = tabs[p][n].origin
  <2> DEFINE y == [tabs[p][n] EXCEPT !.recorded = TRUE]
  <2>1. y \in Tab /\ y.text = tabs[p][n].text /\ y.dirty /\ y.recorded /\ y.origin = tabs[p][n].origin
    BY <1>1 DEF Tab
  <2>2. SetTab(p, n, y)
    BY DEF Written
  <2> QED
    BY <2>1, <2>2
<1>4. /\ snaps'[<<p, n>>] = tabs[p][n].text
      /\ \A id \in Id : id # <<p, n>> => snaps'[id] = snaps[id]
      /\ kept'[tabs[p][n].text.work] = tabs[p][n].text.version
      /\ \A w \in Id : w # tabs[p][n].text.work => kept'[w] = kept[w]
  BY <1>1, <1>2 DEF Written, OwnerInv, TypeOK
<1>5. /\ proc'[p] = c
      /\ \A q \in Process \ {p} : proc'[q] = proc[q]
  BY DEF OwnerInv, TypeOK
<1>6. /\ tabs'[p][n] = x /\ IsOpen(p, n)'
      /\ \A m \in Slot \ {n} : tabs'[p][m] = tabs[p][m] /\ (IsOpen(p, m)' <=> IsOpen(p, m))
      /\ \A q \in Process \ {p} : tabs'[q] = tabs[q]
  BY <1>3, NoneIsNoTab, AfterSetTab
<1>7. ~LetGo(<<p, n>>) /\ \A q \in Process \ {p} : <<p, n>> \notin proc[q].doomed
  BY <1>2, OwnIsPrivate
<1>8. /\ tabs[p][n].origin # <<p, n>>
      /\ \A id \in Id : LetGo(id) => snaps'[id] \in {None, snaps[id]}
  BY <1>1, <1>2, <1>4, <1>7, IdFacts DEF SourceKept
<1>9. FieldsKept(p)'
  <2>1. /\ \A id \in proc'[p].todo : LetGo(id)'
        /\ \A f \in proc'[p].found : LetGo(f.id)' /\ snaps'[f.id] \in {None, f.text}
    BY <1>5, <1>8, SameReopening
  <2>2. ASSUME NEW m \in Slot, m > proc'[p].used PROVE snaps'[<<p, m>>] = None /\ ~IsOpen(p, m)'
    <3>1. snaps[<<p, m>>] = None /\ ~IsOpen(p, m) /\ m # n
      BY <1>1, <1>5, <2>2 DEF FieldsKept
    <3>2. <<p, m>> \in Id /\ <<p, m>> # <<p, n>>
      BY <3>1, IdFacts
    <3> QED
      BY <1>4, <1>6, <3>1, <3>2
  <2>3. \A m \in Slot : <<p, m>> \notin proc'[p].doomed
    <3>1. \A id \in c.doomed : id \in Id /\ LetGo(id)
      BY <1>1 DEF SourceKept
    <3> QED
      BY <1>2, <1>5, <3>1, OwnIsPrivate
  <2> QED
    BY <1>5, <2>1, <2>2, <2>3 DEF FieldsKept, HasDocuments, Slot
<1>10. ASSUME NEW m \in Slot, IsOpen(p, m)' PROVE SourceKept(p, m)' /\ OwnKept(p, m)'
  <2>1. CASE m = n
    <3>1. OwnKept(p, n)'
      BY <1>3, <1>4, <1>6 DEF OwnKept
    <3>2. CASE tabs[p][n].origin = None
      BY <1>3, <1>6, <2>1, <3>1, <3>2 DEF SourceKept
    <3>3. CASE tabs[p][n].origin # None
      <4>1. tabs[p][n].origin \in Id /\ LetGo(tabs[p][n].origin)
        BY <1>1, <3>3 DEF SourceKept
      <4>2. LetGo(x.origin)'
        BY <1>3, <1>5, <4>1, LetGoStays
      <4>3. snaps'[tabs[p][n].origin] = snaps[tabs[p][n].origin]
        BY <1>4, <1>8, <4>1
      <4>4. snaps'[<<p, n>>] # None
        BY <1>1, <1>2, <1>4
      <4> QED
        BY <1>1, <1>3, <1>6, <2>1, <3>1, <4>2, <4>3, <4>4 DEF SourceKept, LetGo
    <3> QED
      BY <3>2, <3>3
  <2>2. CASE m # n
    <3>1. snaps'[<<p, m>>] = snaps[<<p, m>>]
      BY <1>4, <2>2, IdFacts
    <3> QED
      BY <1>5, <1>6, <1>8, <1>10, <2>2, <3>1, SameDocument
  <2> QED
    BY <2>1, <2>2
<1>11. ASSUME NEW w \in Id, kept'[w] > 0
       PROVE  \E r \in Process, m \in Slot : Keeper(r, m, w)'
  <2>1. CASE w = tabs[p][n].text.work
    <3>1. \A q \in Process : <<p, n>> \notin proc'[q].doomed
      BY <1>1, <1>5, <1>7, <1>8
    <3>2. kept'[w] <= tabs[p][n].text.version
      BY <1>1, <1>4, <2>1
    <3>3. Keeper(p, n, w)'
      BY <1>1, <1>2, <1>3, <1>4, <1>6, <2>1, <3>1, <3>2 DEF Keeper
    <3> QED
      BY <3>3
  <2>2. CASE w # tabs[p][n].text.work
    <3>1. PICK r \in Process, m \in Slot : Keeper(r, m, w)
      BY <1>4, <1>11, <2>2 DEF KeptInv
    <3>2. <<r, m>> \in Id /\ <<r, m>> # <<p, n>>
      BY <1>1, <2>2, <3>1, IdFacts DEF Keeper, OwnKept
    <3>3. <<r, m>> \notin c.doomed
      BY <1>1, <2>2, <3>1 DEF Keeper, SourceKept
    <3>4. r = p /\ IsOpen(p, m)' => tabs'[p][m].dirty
      BY <1>6, <3>1, <3>2 DEF Keeper
    <3>5. Keeper(r, m, w)'
      BY <1>4, <1>5, <1>6, <2>2, <3>1, <3>2, <3>3, <3>4, KeeperStays
    <3> QED
      BY <3>5
  <2> QED
    BY <2>1, <2>2
<1>12. \A id \in Id : snaps'[id] = snaps[id] \/ Owner(id) = p
  BY <1>4, IdFacts
<1> QED
  BY <1>5, <1>6, <1>9, <1>10, <1>11, <1>12, KeptMove

LEMMA AdoptKept ==
  ASSUME OwnerInv, KeptInv, OwnerInv', NEW p \in Process, Adopt(p)
  PROVE  KeptInv'
<1>1. /\ proc[p] \in Proc /\ proc[p].state = "up" /\ proc[p].doomed = {}
  BY UpFields DEF Adopt
<1>2. PICK n \in Slot : n = proc[p].used /\ IsOpen(p, n) /\ tabs[p][n].origin # None
  BY ProcType DEF Adopt, Adopting, IsOpen
<1>3. CASE /\ Written(p, n)
           /\ Set(p, [proc[p] EXCEPT !.busy = "no", !.doomed = {tabs[p][n].origin}])
  <2> DEFINE c == [proc[p] EXCEPT !.busy = "no", !.doomed = {tabs[p][n].origin}]
  <2>1. tabs[p][n].origin \in Id /\ tabs[p][n].dirty
    BY <1>2, KeptType DEF KeptInv, SourceKept
  <2>2. /\ c \in Proc /\ c.state = "up" /\ c.busy = "no" /\ c.used = proc[p].used
        /\ c.doomed = {tabs[p][n].origin} /\ c.todo = proc[p].todo /\ c.found = proc[p].found
    BY <1>1, <2>1 DEF Proc
  <2>3. proc' = [proc EXCEPT ![p] = c]
    BY <1>3 DEF Set
  <2> HIDE DEF c
  <2> QED
    BY <1>1, <1>2, <1>3, <2>1, <2>2, <2>3, KeptWritten
<1>4. CASE Set(p, [proc[p] EXCEPT !.busy = "no"]) /\ UNCHANGED <<snaps, tabs, kept>>
  <2> DEFINE c == [proc[p] EXCEPT !.busy = "no"]
  <2>1. /\ c \in Proc /\ c.state = "up" /\ c.busy = "no" /\ c.used = proc[p].used
        /\ c.doomed = {} /\ c.todo = proc[p].todo /\ c.found = proc[p].found
    BY <1>1 DEF Proc
  <2>2. proc' = [proc EXCEPT ![p] = c]
    BY <1>4 DEF Set
  <2> HIDE DEF c
  <2> QED
    BY <1>1, <1>4, <2>1, <2>2, KeptFields
<1> QED
  BY <1>2, <1>3, <1>4 DEF Adopt

\* The document snapshot_next_document tries is one that needs it.
LEMMA NextNeeds ==
  ASSUME NEW p \in Process, \E n \in Slot : Needs(p, n)
  PROVE  NextSnapshot(p) \in Slot /\ Needs(p, NextSnapshot(p))
<1> DEFINE needing == {m \in Slot : Needs(p, m)}
           next == {m \in needing : m > proc[p].last}
<1>1. \A S \in SUBSET Slot : S # {} => \E a \in S : \A m \in S : a <= m
  <2> SUFFICES ASSUME NEW S \in SUBSET Slot, S # {} PROVE \E a \in S : \A m \in S : a <= m
    OBVIOUS
  <2>1. S \subseteq Nat
    BY RecoveryAssumption DEF Slot
  <2> QED
    BY <2>1, LeastNumber
<1>2. NextSnapshot(p) = IF next # {} THEN CHOOSE a \in next : \A m \in next : a <= m
                                     ELSE CHOOSE a \in needing : \A m \in needing : a <= m
  BY DEF NextSnapshot
<1>3. CASE next # {}
  BY <1>1, <1>2, <1>3
<1>4. CASE next = {}
  BY <1>1, <1>2, <1>4
<1> QED
  BY <1>3, <1>4

LEMMA SnapshotNextKept ==
  ASSUME OwnerInv, KeptInv, OwnerInv', NEW p \in Process, NEW after \in Proc,
         Idle(p), proc[p].state \in {"up", "saving"},
         after.state = proc[p].state, after.busy = "no", after.used = proc[p].used,
         after.todo = proc[p].todo, after.found = proc[p].found,
         \E n \in Slot : Needs(p, n),
         SnapshotNext(p, after)
  PROVE  KeptInv'
<1>1. PICK n \in Slot : n = NextSnapshot(p) /\ IsOpen(p, n) /\ tabs[p][n].dirty
  BY NextNeeds DEF Needs
<1>2. PICK written \in BOOLEAN :
        /\ IF written THEN Written(p, n) ELSE UNCHANGED <<snaps, tabs, kept>>
        /\ Set(p, [after EXCEPT !.last = n, !.doomed = SourceDone(p, n, written)])
  BY <1>1 DEF SnapshotNext
<1> DEFINE c == [after EXCEPT !.last = n, !.doomed = SourceDone(p, n, written)]
<1>3. /\ SourceDone(p, n, written) \subseteq Id
      /\ SourceDone(p, n, written) \subseteq {tabs[p][n].origin} \ {None}
      /\ ~written => SourceDone(p, n, written) = {}
  BY <1>1, KeptType DEF SourceDone
<1>4. n \in 0..MaxTabs
  BY RecoveryAssumption DEF Slot
<1>5. /\ c \in Proc /\ c.state = proc[p].state /\ c.busy = "no" /\ c.used = proc[p].used
      /\ c.doomed = SourceDone(p, n, written) /\ c.todo = proc[p].todo /\ c.found = proc[p].found
  BY <1>3, <1>4 DEF Proc
<1>6. proc' = [proc EXCEPT ![p] = c]
  BY <1>2 DEF Set
<1> HIDE DEF c
<1>7. CASE written
  BY <1>1, <1>2, <1>3, <1>5, <1>6, <1>7, KeptWritten
<1>8. CASE ~written
  <2>1. UNCHANGED <<snaps, tabs, kept>>
    BY <1>2, <1>8
  <2>2. c.doomed \subseteq proc[p].doomed /\ c.todo = proc[p].todo /\ c.found = proc[p].found
    BY <1>3, <1>5, <1>8
  <2> QED
    BY <1>5, <1>6, <2>1, <2>2, KeptFields
<1> QED
  BY <1>7, <1>8

\* What the user does to a document: typing goes on from its text, and its
\* files go only when its work is settled or it has none.
LEMMA KeptUser ==
  ASSUME OwnerInv, KeptInv, OwnerInv', NEW p \in Process, NEW n \in Slot,
         NEW c \in Proc, NEW x \in Tab \cup {None},
         proc' = [proc EXCEPT ![p] = c],
         SetTab(p, n, x), IsOpen(p, n), UNCHANGED snaps,
         proc[p].state \notin {"off", "leaving", "gone", "exiting"}, c.state = proc[p].state, c.busy = "no",
         c.used = proc[p].used, c.todo \subseteq proc[p].todo, c.found \subseteq proc[p].found,
         c.doomed \subseteq OwnedFiles(p, n),
         x # None =>
           /\ x.text.work = tabs[p][n].text.work
           /\ x.text.version >= tabs[p][n].text.version
           /\ x.origin # None => x.origin = tabs[p][n].origin /\ x.dirty
           /\ ~x.recorded,
         \/ kept' = [kept EXCEPT ![tabs[p][n].text.work] = 0]
         \/ kept' = kept /\ c.doomed = {} /\ (x # None => x.dirty)
         \/ kept' = kept /\ x = None /\ ~tabs[p][n].dirty
  PROVE  KeptInv'
<1>1. /\ tabs[p][n].text.work \in Id /\ tabs[p][n].text.version \in Nat
      /\ tabs[p][n].origin \in Id \cup {None}
      /\ SourceKept(p, n) /\ OwnKept(p, n) /\ FieldsKept(p)
      /\ tabs[p][n].origin # None =>
           /\ tabs[p][n].origin \in Id
           /\ snaps[tabs[p][n].origin] # None => snaps[tabs[p][n].origin].version \in Nat
  BY KeptType DEF KeptInv
<1>2. /\ proc'[p] = c
      /\ \A q \in Process \ {p} : proc'[q] = proc[q]
  BY DEF OwnerInv, TypeOK
<1>3. /\ tabs'[p][n] = x /\ (IsOpen(p, n)' <=> x # None)
      /\ \A m \in Slot \ {n} : tabs'[p][m] = tabs[p][m] /\ (IsOpen(p, m)' <=> IsOpen(p, m))
      /\ \A q \in Process \ {p} : tabs'[q] = tabs[q]
  BY AfterSetTab
<1>4. \A id \in Id : snaps'[id] = snaps[id]
  OBVIOUS
<1>5. HasDocuments(p)
  BY DEF HasDocuments
<1>6. FieldsKept(p)'
  <2>1. /\ \A id \in proc'[p].todo : LetGo(id)'
        /\ \A f \in proc'[p].found : LetGo(f.id)' /\ snaps'[f.id] \in {None, f.text}
    BY <1>2, <1>4, SameReopening
  <2>2. \A m \in Slot : m > proc'[p].used => snaps'[<<p, m>>] = None /\ ~IsOpen(p, m)'
    BY <1>1, <1>2, <1>3 DEF FieldsKept
  <2>3. ASSUME NEW m \in Slot, IsOpen(p, m)', tabs'[p][m].recorded
        PROVE  <<p, m>> \notin proc'[p].doomed
    <3>1. m # n
      BY <1>3, <2>3
    <3>2. ~LetGo(<<p, m>>)
      BY <1>5, OwnIsPrivate
    <3> QED
      BY <1>1, <1>2, <3>1, <3>2 DEF OwnedFiles, SourceKept
  <2> QED
    BY <1>2, <2>1, <2>2, <2>3 DEF FieldsKept, HasDocuments, Slot
<1>7. ASSUME NEW m \in Slot, IsOpen(p, m)' PROVE SourceKept(p, m)' /\ OwnKept(p, m)'
  <2>1. CASE m = n
    <3>1. OwnKept(p, n)'
      BY <1>1, <1>3, <1>7, <2>1 DEF OwnKept
    <3>2. CASE x.origin = None
      BY <1>3, <2>1, <3>1, <3>2 DEF SourceKept
    <3>3. CASE x.origin # None
      <4>1. x # None /\ x.origin = tabs[p][n].origin /\ x.origin \in Id /\ LetGo(x.origin)
        BY <1>1, <1>3, <1>7, <2>1, <3>3 DEF SourceKept
      <4>2. LetGo(x.origin)'
        BY <1>2, <4>1, LetGoStays
      <4>3. snaps[x.origin] # None =>
              /\ snaps[x.origin].work = x.text.work
              /\ snaps[x.origin].version <= x.text.version
        <5>1. x.text.version \in Nat
          BY <4>1, RecoveryAssumption DEF Tab, Text
        <5>2. snaps[x.origin] # None =>
                /\ snaps[x.origin].version \in Nat
                /\ snaps[x.origin].work = tabs[p][n].text.work
                /\ snaps[x.origin].version <= tabs[p][n].text.version
          BY <1>1, <3>3, <4>1 DEF SourceKept
        <5>3. x.text.work = tabs[p][n].text.work /\ x.text.version >= tabs[p][n].text.version
          BY <4>1
        <5>4. tabs[p][n].text.version \in Nat
          BY <1>1
        <5> QED
          BY <5>1, <5>2, <5>3, <5>4
      <4> QED
        BY <1>3, <2>1, <3>1, <3>3, <4>1, <4>2, <4>3 DEF SourceKept, LetGo
    <3> QED
      BY <3>2, <3>3
  <2>2. CASE m # n
    BY <1>2, <1>3, <1>4, <1>7, <2>2, SameDocument
  <2> QED
    BY <2>1, <2>2
<1>8. ASSUME NEW w \in Id, kept'[w] > 0
      PROVE  \E r \in Process, m \in Slot : Keeper(r, m, w)'
  <2>1. /\ kept'[w] = kept[w]
        /\ \/ w # tabs[p][n].text.work
           \/ kept' = kept /\ c.doomed = {} /\ (x # None => x.dirty)
           \/ kept' = kept /\ x = None /\ ~tabs[p][n].dirty
    BY <1>1, <1>8 DEF OwnerInv, TypeOK
  <2>2. PICK r \in Process, m \in Slot : Keeper(r, m, w)
    BY <1>8, <2>1 DEF KeptInv
  <2>3. CASE w # tabs[p][n].text.work
    <3>1. <<r, m>> \notin OwnedFiles(p, n)
      BY <1>1, <2>2, <2>3 DEF Keeper, OwnedFiles, OwnKept, SourceKept
    <3>2. r = p => m # n
      BY <3>1 DEF OwnedFiles
    <3>3. <<r, m>> \notin proc'[p].doomed /\ (r = p /\ IsOpen(p, m)' => tabs'[p][m].dirty)
      BY <1>2, <1>3, <2>2, <3>1, <3>2 DEF Keeper
    <3>4. Keeper(r, m, w)'
      BY <1>2, <1>3, <2>1, <2>2, <3>3, KeeperStays
    <3> QED
      BY <3>4
  <2>4. CASE kept' = kept /\ c.doomed = {} /\ (x # None => x.dirty)
    <3>1. <<r, m>> \notin proc'[p].doomed /\ (r = p /\ IsOpen(p, m)' => tabs'[p][m].dirty)
      BY <1>2, <1>3, <2>2, <2>4 DEF Keeper
    <3>2. Keeper(r, m, w)'
      BY <1>2, <1>3, <2>1, <2>2, <3>1, KeeperStays
    <3> QED
      BY <3>2
  <2>5. CASE kept' = kept /\ x = None /\ ~tabs[p][n].dirty
    <3>1. OwnedFiles(p, n) = {<<p, n>>} /\ <<r, m>> # <<p, n>>
      BY <1>1, <2>2, <2>5 DEF OwnedFiles, SourceKept, Keeper
    <3>2. <<r, m>> \notin proc'[p].doomed /\ (r = p /\ IsOpen(p, m)' => tabs'[p][m].dirty)
      BY <1>2, <1>3, <2>2, <3>1 DEF Keeper
    <3>3. Keeper(r, m, w)'
      BY <1>2, <1>3, <2>1, <2>2, <3>2, KeeperStays
    <3> QED
      BY <3>3
  <2> QED
    BY <2>1, <2>3, <2>4, <2>5
<1> QED
  BY <1>2, <1>3, <1>4, <1>6, <1>7, <1>8, KeptMove

\* The actions of the user on a document.
LEMMA UserKept ==
  ASSUME OwnerInv, KeptInv, OwnerInv', NEW p \in Process, NEW n \in Slot,
         Edit(p, n) \/ UndoAll(p, n) \/ Save(p, n) \/ CloseTab(p, n)
  PROVE  KeptInv'
<1>1. /\ proc[p] \in Proc /\ proc[p].busy = "no" /\ proc[p].doomed = {} /\ IsOpen(p, n)
      /\ proc[p].state \in {"up", "reviewing"} /\ UNCHANGED snaps
  BY UpFields DEF Edit, UndoAll, MayGoClean, Save, CloseTab
<1>2. /\ tabs[p][n] \in Tab /\ tabs[p][n].text \in Text /\ tabs[p][n].text.version \in Nat
      /\ SourceKept(p, n)
  BY <1>1, KeptType DEF KeptInv
<1>3. OwnedFiles(p, n) \subseteq Id
  BY <1>1, OwnedFilesAreMine
<1>4. /\ proc = [proc EXCEPT ![p] = proc[p]]
      /\ {} \subseteq OwnedFiles(p, n)
  BY DEF OwnerInv, TypeOK
<1> DEFINE c == [proc[p] EXCEPT !.doomed = OwnedFiles(p, n)]
<1>5. /\ c \in Proc /\ c.state = proc[p].state /\ c.busy = "no" /\ c.used = proc[p].used
      /\ c.doomed = OwnedFiles(p, n) /\ c.todo = proc[p].todo /\ c.found = proc[p].found
  BY <1>1, <1>3 DEF Proc
<1>6. CASE Edit(p, n)
  <2> DEFINE x == [tabs[p][n] EXCEPT !.text.version = @ + 1, !.dirty = TRUE, !.recorded = FALSE]
  <2>1. /\ tabs[p][n].text.version + 1 \in 1..MaxVersion
        /\ tabs[p][n].text.version + 1 >= tabs[p][n].text.version
    BY <1>2, <1>6, RecoveryAssumption DEF Edit, Text
  <2>2. [tabs[p][n].text EXCEPT !.version = tabs[p][n].text.version + 1] \in Text
    BY <1>2, <2>1 DEF Text
  <2>3. /\ x \in Tab /\ x.dirty /\ ~x.recorded /\ x.origin = tabs[p][n].origin
        /\ x.text.work = tabs[p][n].text.work
        /\ x.text.version = tabs[p][n].text.version + 1
    BY <1>2, <2>2 DEF Tab, Text
  <2>4. SetTab(p, n, x) /\ UNCHANGED <<proc, kept>>
    BY <1>6 DEF Edit
  <2> HIDE DEF x, c
  <2>5. /\ proc' = [proc EXCEPT ![p] = proc[p]]
        /\ kept' = kept /\ proc[p].doomed = {} /\ (x # None => x.dirty)
    BY <1>1, <1>4, <2>3, <2>4
  <2> QED
    BY <1>1, <1>4, <2>1, <2>3, <2>4, <2>5, KeptUser
<1>7. CASE UndoAll(p, n)
  <2> DEFINE x == [tabs[p][n] EXCEPT !.dirty = FALSE, !.recorded = FALSE]
  <2>1. tabs[p][n].origin = None
    BY <1>7 DEF UndoAll, MayGoClean
  <2>2. x \in Tab /\ ~x.recorded /\ x.origin = None /\ x.text = tabs[p][n].text
    BY <1>2, <2>1 DEF Tab
  <2>3. /\ SetTab(p, n, x) /\ UNCHANGED proc
        /\ kept' = [kept EXCEPT ![tabs[p][n].text.work] = 0]
    BY <1>7 DEF UndoAll, Settled
  <2> HIDE DEF x, c
  <2>4. proc' = [proc EXCEPT ![p] = proc[p]]
    BY <1>4, <2>3
  <2>5. x.text.version >= tabs[p][n].text.version
    BY <1>2, <2>2
  <2> QED
    BY <1>1, <1>4, <2>2, <2>3, <2>4, <2>5, KeptUser
<1>8. CASE Save(p, n)
  <2> DEFINE x == [tabs[p][n] EXCEPT !.dirty = FALSE, !.recorded = FALSE, !.origin = None]
  <2>1. x \in Tab /\ ~x.recorded /\ x.origin = None /\ x.text = tabs[p][n].text
    BY <1>2 DEF Tab
  <2>2. /\ SetTab(p, n, x) /\ proc' = [proc EXCEPT ![p] = c]
        /\ kept' = [kept EXCEPT ![tabs[p][n].text.work] = 0]
    BY <1>8 DEF Save, Settled, Set
  <2> HIDE DEF x, c
  <2>3. x.text.version >= tabs[p][n].text.version
    BY <1>2, <2>1
  <2> QED
    BY <1>1, <1>5, <2>1, <2>2, <2>3, KeptUser
<1>9. CASE CloseTab(p, n)
  <2>1. /\ SetTab(p, n, None) /\ proc' = [proc EXCEPT ![p] = c]
        /\ \/ kept' = [kept EXCEPT ![tabs[p][n].text.work] = 0]
           \/ kept' = kept /\ ~tabs[p][n].dirty
    BY <1>9 DEF CloseTab, Settled, Set
  <2> HIDE DEF c
  <2> QED
    BY <1>1, <1>5, <2>1, KeptUser
<1> QED
  BY <1>6, <1>7, <1>8, <1>9

\* The steps of a close that decide and remove nothing.
LEMMA CloseKept ==
  ASSUME OwnerInv, KeptInv, OwnerInv', NEW p \in Process,
         Close(p) \/ WriteManifest(p) \/ CancelReview(p)
  PROVE  KeptInv'
<1>1. /\ proc[p] \in Proc /\ proc[p].state \in {"up", "saving", "reviewing"}
      /\ proc[p].busy = "no" /\ proc[p].doomed = {} /\ UNCHANGED <<snaps, tabs, kept>>
  BY UpFields DEF Close, WriteManifest, CancelReview
<1>2. CASE Set(p, [proc[p] EXCEPT !.state = "saving", !.left = CloseCalls(p)])
  <2> DEFINE c == [proc[p] EXCEPT !.state = "saving", !.left = CloseCalls(p)]
  <2>1. /\ c \in Proc /\ c.state = "saving" /\ c.busy = "no" /\ c.used = proc[p].used
        /\ c.doomed = {} /\ c.todo = proc[p].todo /\ c.found = proc[p].found
    BY <1>1, CloseCallsType DEF Proc
  <2>2. proc' = [proc EXCEPT ![p] = c]
    BY <1>2 DEF Set
  <2> HIDE DEF c
  <2> QED
    BY <1>1, <2>1, <2>2, KeptFields
<1>3. ASSUME NEW s \in {"cleaning", "reviewing", "up"}, Set(p, [proc[p] EXCEPT !.state = s])
      PROVE  KeptInv'
  <2> DEFINE c == [proc[p] EXCEPT !.state = s]
  <2>1. /\ c \in Proc /\ c.state = s /\ c.busy = "no" /\ c.used = proc[p].used
        /\ c.doomed = {} /\ c.todo = proc[p].todo /\ c.found = proc[p].found
    BY <1>1 DEF Proc
  <2>2. proc' = [proc EXCEPT ![p] = c]
    BY <1>3 DEF Set
  <2> HIDE DEF c
  <2> QED
    BY <1>1, <2>1, <2>2, KeptFields
<1> QED
  BY <1>2, <1>3 DEF Close, WriteManifest, CancelReview

LEMMA CloseSnapshotKept ==
  ASSUME OwnerInv, KeptInv, OwnerInv', NEW p \in Process, CloseSnapshot(p)
  PROVE  KeptInv'
<1> DEFINE after == [proc[p] EXCEPT !.left = proc[p].left - 1]
<1>1. /\ proc[p] \in Proc /\ Idle(p) /\ proc[p].busy = "no" /\ proc[p].doomed = {}
      /\ proc[p].state = "saving" /\ proc[p].left > 0
  BY UpFields DEF CloseSnapshot
<1>2. proc[p].left - 1 \in 0..MaxTabs
  BY <1>1, RecoveryAssumption DEF Proc
<1>3. /\ after \in Proc /\ after.state = "saving" /\ after.busy = "no" /\ after.used = proc[p].used
      /\ after.doomed = {} /\ after.todo = proc[p].todo /\ after.found = proc[p].found
  BY <1>1, <1>2 DEF Proc
<1>4. \/ (\E n \in Slot : Needs(p, n)) /\ SnapshotNext(p, after)
      \/ proc' = [proc EXCEPT ![p] = after] /\ UNCHANGED <<snaps, tabs, kept>>
  BY DEF CloseSnapshot, Set
<1> HIDE DEF after
<1>5. CASE (\E n \in Slot : Needs(p, n)) /\ SnapshotNext(p, after)
  BY <1>1, <1>3, <1>5, SnapshotNextKept
<1>6. CASE proc' = [proc EXCEPT ![p] = after] /\ UNCHANGED <<snaps, tabs, kept>>
  BY <1>1, <1>3, <1>6, KeptFields
<1> QED
  BY <1>4, <1>5, <1>6

\* The last files of a process on its way out are chosen: its documents stay as
\* they are, d is what will be removed.
LEMMA KeptExiting ==
  ASSUME OwnerInv, KeptInv, OwnerInv', NEW p \in Process, NEW c \in Proc,
         proc' = [proc EXCEPT ![p] = c],
         UNCHANGED <<snaps, tabs>>,
         proc[p].state \notin {"off", "leaving", "gone"}, c.state = "exiting", c.busy = "no",
         c.used = proc[p].used, c.todo = proc[p].todo, c.found = proc[p].found,
         \A w \in Id : kept'[w] > 0 => \E r \in Process, m \in Slot : Keeper(r, m, w)'
  PROVE  KeptInv'
<1>1. /\ proc'[p] = c
      /\ \A q \in Process \ {p} : proc'[q] = proc[q] /\ tabs'[q] = tabs[q]
  BY DEF OwnerInv, TypeOK
<1>2. FieldsKept(p)
  BY DEF KeptInv
<1>3. FieldsKept(p)'
  <2>1. /\ \A id \in proc'[p].todo : LetGo(id)'
        /\ \A f \in proc'[p].found : LetGo(f.id)' /\ snaps'[f.id] \in {None, f.text}
    BY <1>1, SameReopening
  <2> QED
    BY <1>1, <1>2, <2>1 DEF FieldsKept, IsOpen, HasDocuments, Slot
<1>4. ASSUME NEW n \in Slot, IsOpen(p, n)' PROVE SourceKept(p, n)' /\ OwnKept(p, n)'
  BY <1>1, <1>4, SameDocument DEF IsOpen
<1>5. \A id \in Id : snaps'[id] = snaps[id]
  OBVIOUS
<1> QED
  BY <1>1, <1>3, <1>4, <1>5, KeptMove

\* clean_session: a superseded file is given up for the one that has its text.
LEMMA CleanSessionKept ==
  ASSUME OwnerInv, KeptInv, OwnerInv', NEW p \in Process, CleanSession(p)
  PROVE  KeptInv'
<1> DEFINE d == UNION {Superseded(p, n) : n \in {m \in Slot : IsOpen(p, m)}}
           c == [proc[p] EXCEPT !.state = "exiting", !.doomed = d]
<1>1. /\ proc[p] \in Proc /\ proc[p].state = "cleaning" /\ proc[p].busy = "no" /\ proc[p].doomed = {}
      /\ HasDocuments(p) /\ UNCHANGED <<snaps, tabs, kept>>
  BY UpFields DEF CleanSession, HasDocuments
<1>2. \A n \in Slot : IsOpen(p, n) => Superseded(p, n) \subseteq OwnedFiles(p, n)
  BY DEF Superseded
<1>3. d \subseteq Id
  BY <1>2, OwnedFilesAreMine
<1>4. proc' = [proc EXCEPT ![p] = c]
  BY DEF CleanSession, Set
<1>5. /\ c \in Proc /\ c.state = "exiting" /\ c.busy = "no" /\ c.used = proc[p].used
      /\ c.todo = proc[p].todo /\ c.found = proc[p].found /\ c.doomed = d
  BY <1>1, <1>3 DEF Proc
<1> HIDE DEF c
<1>6. /\ proc'[p] = c
      /\ \A q \in Process \ {p} : proc'[q] = proc[q] /\ tabs'[q] = tabs[q]
  BY <1>1, <1>4 DEF OwnerInv, TypeOK
<1>7. ASSUME NEW r \in Process, NEW m \in Slot, NEW w \in Id, Keeper(r, m, w), <<r, m>> \notin d
      PROVE  Keeper(r, m, w)'
  <2>1. r = p /\ IsOpen(p, m)' => tabs'[p][m].dirty
    BY <1>1, <1>7 DEF Keeper, IsOpen
  <2> HIDE DEF d
  <2>2. snaps'[<<r, m>>] = snaps[<<r, m>>] /\ kept'[w] = kept[w]
    BY <1>1
  <2> QED
    BY <1>5, <1>6, <1>7, <2>1, <2>2, KeeperStays
<1>8. ASSUME NEW w \in Id, kept[w] > 0
      PROVE  \E r \in Process, m \in Slot : Keeper(r, m, w) /\ <<r, m>> \notin d
  <2>1. PICK r \in Process, m \in Slot : Keeper(r, m, w)
    BY <1>8 DEF KeptInv
  <2>2. CASE <<r, m>> \notin d
    BY <2>1, <2>2
  <2>3. CASE <<r, m>> \in d
    <3>1. PICK n \in Slot : IsOpen(p, n) /\ <<r, m>> \in Superseded(p, n)
      BY <2>3
    <3>2. /\ SourceKept(p, n) /\ OwnKept(p, n)
          /\ tabs[p][n].origin \in Id \cup {None} /\ tabs[p][n].text.version \in Nat
          /\ <<p, n>> \in Id /\ None \notin Id
      BY <3>1, KeptType, IdFacts DEF KeptInv
    <3>3. tabs[p][n].dirty /\ Current(p, n) # None /\ <<r, m>> \in OwnedFiles(p, n) \ {Current(p, n)}
      <4>1. CASE ~tabs[p][n].dirty
        <5>1. <<r, m>> = <<p, n>>
          BY <3>1, <3>2, <4>1 DEF Superseded, OwnedFiles, SourceKept
        <5> QED
          BY <2>1, <3>1, <4>1, <5>1 DEF Keeper
      <4>2. CASE tabs[p][n].dirty
        BY <3>1, <4>2 DEF Superseded
      <4> QED
        BY <4>1, <4>2
    <3>4. tabs[p][n].recorded /\ Current(p, n) = <<p, n>> /\ snaps[<<p, n>>] # None
      <4>1. tabs[p][n].recorded
        BY <3>3 DEF Current
      <4>2. CASE snaps[<<p, n>>] # None
        BY <4>1, <4>2 DEF Current
      <4>3. CASE snaps[<<p, n>>] = None
        <5>1. Current(p, n) = tabs[p][n].origin
          BY <3>3, <4>1, <4>3 DEF Current
        <5>2. <<r, m>> = <<p, n>>
          BY <3>3, <5>1 DEF OwnedFiles
        <5> QED
          BY <2>1, <4>3, <5>2 DEF Keeper
      <4> QED
        BY <4>1, <4>2, <4>3
    <3>5. <<r, m>> = tabs[p][n].origin /\ tabs[p][n].origin # None
      BY <3>3, <3>4 DEF OwnedFiles
    <3>6. /\ snaps[<<p, n>>] = tabs[p][n].text
          /\ tabs[p][n].text.work = w
          /\ tabs[p][n].text.version >= kept[w]
      <4>1. snaps[<<p, n>>] = tabs[p][n].text /\ tabs[p][n].text.work = w
        BY <2>1, <3>2, <3>4, <3>5 DEF Keeper, OwnKept, SourceKept
      <4>2. /\ snaps[<<r, m>>].version >= kept[w]
            /\ snaps[<<r, m>>].version <= tabs[p][n].text.version
            /\ snaps[<<r, m>>].version \in Nat /\ kept[w] \in Nat
        <5>1. <<r, m>> \in Id /\ snaps[<<r, m>>] # None
          BY <2>1, IdFacts DEF Keeper
        <5> QED
          BY <2>1, <3>2, <3>5, <5>1, KeptType DEF Keeper, SourceKept
      <4> QED
        BY <3>2, <4>1, <4>2
    <3>7. <<p, n>> \notin d
      <4>1. ASSUME NEW k \in Slot, IsOpen(p, k), <<p, n>> \in Superseded(p, k) PROVE FALSE
        <5>1. SourceKept(p, k) /\ <<p, n>> \in OwnedFiles(p, k)
          BY <1>2, <4>1 DEF KeptInv
        <5>2. k = n
          BY <1>1, <5>1, OwnIsPrivate DEF OwnedFiles, SourceKept
        <5> QED
          BY <3>3, <3>4, <4>1, <5>2 DEF Superseded
      <4> QED
        BY <4>1
    <3>8. Keeper(p, n, w)
      BY <1>1, <3>3, <3>4, <3>6, OwnIsPrivate DEF Keeper
    <3> QED
      BY <3>7, <3>8
  <2> QED
    BY <2>2, <2>3
<1>9. ASSUME NEW w \in Id, kept'[w] > 0
      PROVE  \E r \in Process, m \in Slot : Keeper(r, m, w)'
  <2> HIDE DEF d
  <2> QED
    BY <1>1, <1>7, <1>8, <1>9
<1> HIDE DEF d
<1> QED
  BY <1>1, <1>4, <1>5, <1>9, KeptExiting

\* The review: what is still dirty is discarded, and its work with it.
LEMMA FinishReviewKept ==
  ASSUME OwnerInv, KeptInv, OwnerInv', NEW p \in Process, FinishReview(p)
  PROVE  KeptInv'
<1> DEFINE d == UNION {OwnedFiles(p, n) : n \in {m \in Slot : IsOpen(p, m)}}
           c == [proc[p] EXCEPT !.state = "exiting", !.doomed = d]
<1>1. /\ proc[p] \in Proc /\ proc[p].state = "reviewing" /\ proc[p].busy = "no" /\ proc[p].doomed = {}
      /\ UNCHANGED <<snaps, tabs>>
  BY UpFields DEF FinishReview
<1>2. d \subseteq Id
  BY OwnedFilesAreMine
<1>3. proc' = [proc EXCEPT ![p] = c]
  BY DEF FinishReview, Set
<1>4. /\ c \in Proc /\ c.state = "exiting" /\ c.busy = "no" /\ c.used = proc[p].used
      /\ c.todo = proc[p].todo /\ c.found = proc[p].found /\ c.doomed = d
  BY <1>1, <1>2 DEF Proc
<1> HIDE DEF c
<1>5. /\ proc'[p] = c
      /\ \A q \in Process \ {p} : proc'[q] = proc[q] /\ tabs'[q] = tabs[q]
  BY <1>1, <1>3 DEF OwnerInv, TypeOK
<1>6. ASSUME NEW w \in Id, kept'[w] > 0
      PROVE  \E r \in Process, m \in Slot : Keeper(r, m, w)'
  <2>1. /\ kept'[w] = kept[w]
        /\ \A n \in Slot : IsOpen(p, n) /\ tabs[p][n].dirty => tabs[p][n].text.work # w
    BY <1>6 DEF FinishReview
  <2>2. PICK r \in Process, m \in Slot : Keeper(r, m, w)
    BY <1>6, <2>1 DEF KeptInv
  <2>3. <<r, m>> \notin d
    <3> SUFFICES ASSUME NEW n \in Slot, IsOpen(p, n), <<r, m>> \in OwnedFiles(p, n) PROVE FALSE
      OBVIOUS
    <3>1. SourceKept(p, n) /\ OwnKept(p, n)
      BY DEF KeptInv
    <3>2. CASE <<r, m>> = <<p, n>>
      BY <2>1, <2>2, <3>1, <3>2 DEF Keeper, OwnKept
    <3>3. CASE <<r, m>> = tabs[p][n].origin /\ tabs[p][n].origin # None
      BY <2>1, <2>2, <3>1, <3>3 DEF Keeper, SourceKept
    <3> QED
      BY <3>2, <3>3 DEF OwnedFiles
  <2> HIDE DEF d
  <2>4. r = p /\ IsOpen(p, m)' => tabs'[p][m].dirty
    BY <1>1, <2>2 DEF Keeper, IsOpen
  <2>5. snaps'[<<r, m>>] = snaps[<<r, m>>]
    BY <1>1
  <2>6. Keeper(r, m, w)'
    BY <1>4, <1>5, <2>1, <2>2, <2>3, <2>4, <2>5, KeeperStays
  <2> QED
    BY <2>6
<1> HIDE DEF d
<1> QED
  BY <1>1, <1>3, <1>4, <1>6, KeptExiting

LEMMA RemoveFileKept ==
  ASSUME OwnerInv, KeptInv, OwnerInv', NEW p \in Process, NEW id \in Id, RemoveFile(p, id)
  PROVE  KeptInv'
<1> DEFINE c == [proc[p] EXCEPT !.doomed = proc[p].doomed \ {id}]
<1>1. proc[p] \in Proc /\ FieldsKept(p) /\ id \in proc[p].doomed /\ proc[p].busy = "no"
  BY UpFields DEF RemoveFile
<1>2. proc[p].state \notin {"off", "leaving", "gone"}
  BY <1>1 DEF OwnerInv, HasDocuments, Idle
<1>3. UNCHANGED <<tabs, kept>> /\ proc' = [proc EXCEPT ![p] = c]
  BY DEF RemoveFile, Set
<1>4. /\ snaps'[id] \in {None, snaps[id]}
      /\ \A i \in Id : i # id => snaps'[i] = snaps[i]
  BY DEF RemoveFile, OwnerInv, TypeOK
<1>5. /\ c \in Proc /\ c.state = proc[p].state /\ c.busy = "no" /\ c.used = proc[p].used
      /\ c.doomed \subseteq proc[p].doomed /\ c.todo = proc[p].todo /\ c.found = proc[p].found
  BY <1>1 DEF Proc
<1> HIDE DEF c
<1>6. /\ proc'[p] = c
      /\ \A q \in Process \ {p} : proc'[q] = proc[q] /\ tabs'[q] = tabs[q]
  BY <1>3 DEF OwnerInv, TypeOK
<1>7. \A i \in Id : snaps'[i] \in {None, snaps[i]}
  BY <1>4
<1>8. FieldsKept(p)'
  <2>1. /\ \A i \in proc'[p].todo : LetGo(i)'
        /\ \A f \in proc'[p].found : LetGo(f.id)' /\ snaps'[f.id] \in {None, f.text}
    BY <1>2, <1>5, <1>6, <1>7, SameReopening
  <2>2. \A n \in Slot : n > proc'[p].used => snaps'[<<p, n>>] = None /\ ~IsOpen(p, n)'
    BY <1>1, <1>3, <1>5, <1>6, <1>7, IdFacts DEF FieldsKept, IsOpen
  <2> QED
    BY <1>1, <1>2, <1>3, <1>5, <1>6, <2>1, <2>2 DEF FieldsKept, IsOpen, HasDocuments, Slot
<1>9. ASSUME NEW n \in Slot, IsOpen(p, n)' PROVE SourceKept(p, n)' /\ OwnKept(p, n)'
  <2>1. IsOpen(p, n) /\ SourceKept(p, n) /\ OwnKept(p, n) /\ <<p, n>> \in Id
    BY <1>3, <1>9, IdFacts DEF IsOpen, KeptInv
  <2>2. CASE id # <<p, n>>
    <3>1. snaps'[<<p, n>>] = snaps[<<p, n>>]
      BY <1>4, <2>1, <2>2
    <3> QED
      BY <1>2, <1>3, <1>5, <1>6, <1>7, <2>1, <3>1, SameDocument
  <2>3. CASE id = <<p, n>>
    <3>1. ~(tabs[p][n].recorded /\ proc[p].state # "exiting")
      BY <1>1, <2>1, <2>3 DEF FieldsKept
    <3>2. OwnKept(p, n)'
      BY <1>3, <1>7, <2>1 DEF OwnKept
    <3>3. CASE tabs[p][n].origin = None
      BY <1>3, <3>2, <3>3 DEF SourceKept
    <3>4. CASE tabs[p][n].origin # None
      <4>1. tabs[p][n].origin \in Id /\ LetGo(tabs[p][n].origin)
        BY <2>1, <3>4, KeptType DEF SourceKept
      <4>2. LetGo(tabs[p][n].origin)'
        BY <1>2, <1>3, <1>6, <4>1, LetGoStays DEF LetGo
      <4>3. snaps'[tabs[p][n].origin] \in {None, snaps[tabs[p][n].origin]}
        BY <1>7, <4>1
      <4> QED
        BY <1>3, <1>5, <1>6, <2>1, <3>1, <3>2, <4>2, <4>3 DEF SourceKept, LetGo
    <3> QED
      BY <3>3, <3>4
  <2> QED
    BY <2>2, <2>3
<1>10. ASSUME NEW w \in Id, kept'[w] > 0
       PROVE  \E r \in Process, m \in Slot : Keeper(r, m, w)'
  <2>1. PICK r \in Process, m \in Slot : Keeper(r, m, w)
    BY <1>3, <1>10 DEF KeptInv
  <2>2. <<r, m>> \in Id /\ <<r, m>> \notin proc[p].doomed
    BY <2>1, IdFacts DEF Keeper
  <2>3. snaps'[<<r, m>>] = snaps[<<r, m>>] /\ <<r, m>> \notin proc'[p].doomed
    BY <1>1, <1>4, <1>5, <1>6, <2>2
  <2>4. kept'[w] = kept[w] /\ (r = p /\ IsOpen(p, m)' => tabs'[p][m].dirty)
    BY <1>3, <2>1 DEF Keeper, IsOpen
  <2>5. Keeper(r, m, w)'
    BY <1>6, <2>1, <2>3, <2>4, KeeperStays
  <2> QED
    BY <2>5
<1>11. \A i \in Id : snaps'[i] = snaps[i] \/ (snaps'[i] = None /\ i \in proc[p].doomed)
  BY <1>1, <1>4
<1> QED
  BY <1>2, <1>6, <1>8, <1>9, <1>10, <1>11, KeptMove

\* A process that shuts down, exits or crashes leaves its files to whoever comes
\* next.
LEMMA ReleasedKept ==
  ASSUME OwnerInv, KeptInv, OwnerInv', NEW p \in Process, NEW state \in {"leaving", "gone"},
         Released(p, state)
  PROVE  KeptInv'
<1> DEFINE c == [NotStarted EXCEPT !.state = state, !.used = proc[p].used]
<1>1. proc[p] \in Proc /\ proc[p].used \in 0..MaxTabs /\ FieldsKept(p)
  BY ProcType DEF Proc, KeptInv
<1>2. /\ c.state \in {"leaving", "gone"} /\ c.busy = "no" /\ c.used = proc[p].used
      /\ c.doomed = {} /\ c.todo = {} /\ c.found = {}
  BY DEF NotStarted
<1>3. proc' = [proc EXCEPT ![p] = c] /\ UNCHANGED <<snaps, kept>>
  BY DEF Released, Set
<1>4. tabs' = [tabs EXCEPT ![p] = [n \in Slot |-> None]]
  BY DEF Released
<1> HIDE DEF c
<1>5. /\ proc'[p] = c /\ \A n \in Slot : ~IsOpen(p, n)'
      /\ \A q \in Process \ {p} : proc'[q] = proc[q] /\ tabs'[q] = tabs[q]
  BY <1>3, <1>4 DEF OwnerInv, TypeOK, IsOpen
<1>6. FieldsKept(p)'
  BY <1>1, <1>2, <1>3, <1>5 DEF FieldsKept, Slot
<1>7. ASSUME NEW w \in Id, kept'[w] > 0
      PROVE  \E r \in Process, m \in Slot : Keeper(r, m, w)'
  <2>1. PICK r \in Process, m \in Slot : Keeper(r, m, w)
    BY <1>3, <1>7 DEF KeptInv
  <2>2. Keeper(r, m, w)'
    BY <1>2, <1>3, <1>5, <2>1, KeeperStays
  <2> QED
    BY <2>2
<1>8. \A id \in Id : snaps'[id] = snaps[id]
  BY <1>3
<1> QED
  BY <1>5, <1>6, <1>7, <1>8, <1>2, KeptMove

LEMMA KeptStep == OwnerInv /\ KeptInv /\ [Next]_vars /\ OwnerInv' => KeptInv'
<1> SUFFICES ASSUME OwnerInv, KeptInv, [Next]_vars, OwnerInv' PROVE KeptInv'
  OBVIOUS
<1>1. CASE UNCHANGED vars
  <2>1. UNCHANGED <<snaps, manifest, proc, tabs, kept>>
    BY <1>1 DEF vars
  <2>2. \A p \in Process : FieldsKept(p)' <=> FieldsKept(p)
    BY <2>1 DEF FieldsKept, LetGo, IsOpen, HasDocuments, Slot
  <2>3. \A p \in Process, n \in Slot :
          IsOpen(p, n)' => IsOpen(p, n) /\ (SourceKept(p, n)' <=> SourceKept(p, n)) /\ (OwnKept(p, n)' <=> OwnKept(p, n))
    BY <2>1 DEF SourceKept, OwnKept, LetGo, IsOpen
  <2>4. \A r \in Process, m \in Slot, w \in Id : Keeper(r, m, w) => Keeper(r, m, w)'
    BY <2>1 DEF Keeper, IsOpen
  <2>5. \A w \in Id : kept'[w] > 0 => \E r \in Process, m \in Slot : Keeper(r, m, w)'
    BY <2>1, <2>4 DEF KeptInv
  <2> QED
    BY <2>2, <2>3, <2>5 DEF KeptInv, Slot, Id
<1>2. ASSUME NEW p \in Process,
             \/ Start(p) \/ BeginRestore(p) \/ Adopt(p) \/ FinishRestore(p)
             \/ Discover(p) \/ OpenRecovered(p) \/ NewDocument(p) \/ ToggleRestore(p)
      PROVE  KeptInv'
  BY <1>2, StartKept, AdoptKept, UpKept, OpenRecoveredKept, NewDocumentKept
<1>3. ASSUME NEW p \in Process, SnapshotTick(p) PROVE KeptInv'
  <2>1. /\ proc[p] \in Proc /\ Idle(p) /\ proc[p].state = "up" /\ proc[p].busy = "no"
        /\ SnapshotNext(p, proc[p]) /\ \E n \in Slot : Needs(p, n)
    BY <1>3, UpFields DEF SnapshotTick, Running
  <2> QED
    BY <2>1, SnapshotNextKept
<1>4. ASSUME NEW p \in Process,
             \/ Close(p) \/ CloseSnapshot(p) \/ WriteManifest(p) \/ CleanSession(p)
             \/ CancelReview(p) \/ FinishReview(p)
      PROVE  KeptInv'
  BY <1>4, CloseKept, CloseSnapshotKept, CleanSessionKept, FinishReviewKept
<1>5. ASSUME NEW p \in Process, ShutDown(p) \/ Exit(p) \/ Crash(p) PROVE KeptInv'
  <2>1. Alive(p) /\ \E state \in {"leaving", "gone"} : Released(p, state)
    BY <1>5 DEF ShutDown, Exit, Crash, Alive
  <2> QED
    BY <2>1, ReleasedKept
<1>6. ASSUME NEW p \in Process, NEW n \in Slot,
             Edit(p, n) \/ UndoAll(p, n) \/ Save(p, n) \/ CloseTab(p, n)
      PROVE  KeptInv'
  BY <1>6, UserKept
<1>7. ASSUME NEW p \in Process, NEW id \in Id, RestoreEntry(p, id) \/ RemoveFile(p, id)
      PROVE  KeptInv'
  BY <1>7, RestoreEntryKept, RemoveFileKept
<1> QED
  BY <1>1, <1>2, <1>3, <1>4, <1>5, <1>6, <1>7 DEF Next

\* The inductive invariant of the files: every work that was put in one and not
\* settled since has a keeper.
THEOREM KeepersHold == Spec => []KeptInv
<1>1. Spec => [](OwnerInv /\ KeptInv)
  <2>1. Init => OwnerInv /\ KeptInv
    BY OwnerInit, KeptInit
  <2>2. OwnerInv /\ KeptInv /\ [Next]_vars => (OwnerInv /\ KeptInv)'
    BY OwnerStep, KeptStep
  <2> QED
    BY <2>1, <2>2, PTL DEF Spec
<1> QED
  BY <1>1, PTL

\* "Never lose a word": whatever was once put in a snapshot and not saved,
\* discarded or undone since is in some snapshot file, no older, whichever
\* processes crash, restore, recover, close and remove files, and when.
THEOREM NothingLost == Spec => []NothingUnsavedIsLost
<1>1. KeptInv => NothingUnsavedIsLost
  <2> SUFFICES ASSUME KeptInv, NEW w \in Id, kept[w] > 0
               PROVE  \E id \in Id : snaps[id] # None /\ snaps[id].work = w /\ snaps[id].version >= kept[w]
    BY DEF NothingUnsavedIsLost
  <2>1. PICK r \in Process, m \in Slot : Keeper(r, m, w)
    BY DEF KeptInv
  <2>2. <<r, m>> \in Id
    BY IdFacts
  <2> QED
    BY <2>1, <2>2 DEF Keeper
<1> QED
  BY <1>1, KeepersHold, PTL

\* A close that goes on to clean up has just written the manifest.
LEMMA CleaningBegins ==
  ASSUME OwnerInv, KeptInv, [Next]_vars, NEW p \in Process,
         proc[p].state = "saving", proc'[p].state = "cleaning"
  PROVE  /\ Secured(p) /\ manifest' = SessionSnapshots(p)
         /\ UNCHANGED <<snaps, tabs>>
<1>1. /\ proc[p] \in Proc /\ (proc[p].busy # "no" => proc[p].state = "up")
      /\ proc \in [Process -> Proc]
  BY UpFields DEF OwnerInv, TypeOK
<1>2. ASSUME NEW q \in Process, NEW c, Set(q, c)
      PROVE  q = p /\ c.state = "cleaning"
  BY <1>1, <1>2 DEF Set
<1>3. proc' # proc
  OBVIOUS
<1>4. ASSUME NEW q \in Process, Start(q) \/ BeginRestore(q) \/ Adopt(q) \/ OpenRecovered(q)
      PROVE  FALSE
  <2>1. \E c : Set(q, c)
    BY <1>4 DEF Start, BeginRestore, Adopt, OpenRecovered
  <2> QED
    BY <1>1, <1>2, <1>4, <2>1 DEF Start, BeginRestore, Adopt, OpenRecovered
<1>5. ASSUME NEW q \in Process,
             \/ FinishRestore(q) \/ Discover(q) \/ NewDocument(q) \/ ToggleRestore(q) \/ SnapshotTick(q)
             \/ Close(q) \/ CleanSession(q) \/ CancelReview(q) \/ FinishReview(q)
      PROVE  FALSE
  <2>1. \E c : Set(q, c)
    BY <1>5 DEF FinishRestore, Discover, NewDocument, ToggleRestore, SnapshotTick, SnapshotNext, Close,
       CleanSession, CancelReview, FinishReview
  <2>2. q = p
    BY <1>2, <2>1
  <2> QED
    BY <1>5, <2>2 DEF FinishRestore, Discover, NewDocument, ToggleRestore, SnapshotTick, Close,
       CleanSession, CancelReview, FinishReview, Running
<1>6. ASSUME NEW q \in Process, ShutDown(q) \/ Exit(q) \/ Crash(q) PROVE FALSE
  <2>0. PICK state \in {"leaving", "gone"} : Released(q, state)
    BY <1>6 DEF ShutDown, Exit, Crash
  <2> DEFINE c == [NotStarted EXCEPT !.state = state, !.used = proc[q].used]
  <2>1. Set(q, c) /\ c.state \in {"leaving", "gone"}
    BY <2>0 DEF Released, NotStarted
  <2> HIDE DEF c
  <2> QED
    BY <1>2, <2>1
<1>7. ASSUME NEW q \in Process, CloseSnapshot(q) PROVE FALSE
  <2> DEFINE after == [proc[q] EXCEPT !.left = proc[q].left - 1]
  <2>1. proc[q] \in Proc /\ proc[q].state = "saving"
    BY <1>1, <1>7 DEF CloseSnapshot
  <2>2. after.state = "saving"
    BY <2>1 DEF Proc
  <2>3. SnapshotNext(q, after) \/ Set(q, after)
    BY <1>7 DEF CloseSnapshot
  <2> HIDE DEF after
  <2>4. CASE Set(q, after)
    BY <1>2, <2>2, <2>4
  <2>5. CASE SnapshotNext(q, after)
    <3>1. PICK n, d : Set(q, [after EXCEPT !.last = n, !.doomed = d])
      BY <2>5 DEF SnapshotNext
    <3>2. [after EXCEPT !.last = n, !.doomed = d].state = "saving"
      BY <2>2
    <3> QED
      BY <1>2, <3>1, <3>2
  <2> QED
    BY <2>3, <2>4, <2>5
<1>8. ASSUME NEW q \in Process, NEW n \in Slot,
             Edit(q, n) \/ UndoAll(q, n) \/ Save(q, n) \/ CloseTab(q, n)
      PROVE  FALSE
  <2>1. ~Edit(q, n) /\ ~UndoAll(q, n)
    BY <1>3 DEF Edit, UndoAll
  <2>2. \E c : Set(q, c)
    BY <1>8, <2>1 DEF Save, CloseTab
  <2>3. q = p
    BY <1>2, <2>2
  <2> QED
    BY <1>8, <2>1, <2>3 DEF Save, CloseTab, Running
<1>9. ASSUME NEW q \in Process, NEW id \in Id, RestoreEntry(q, id) \/ RemoveFile(q, id)
      PROVE  FALSE
  <2>1. \E c : Set(q, c)
    BY <1>9 DEF RestoreEntry, RemoveFile
  <2>2. q = p
    BY <1>2, <2>1
  <2>3. ~RestoreEntry(q, id)
    BY <2>2 DEF RestoreEntry, Running
  <2>4. proc'[p] = [proc[p] EXCEPT !.doomed = proc[p].doomed \ {id}]
    BY <1>1, <1>9, <2>2, <2>3 DEF RemoveFile, Set
  <2> QED
    BY <1>1, <2>4 DEF Proc
<1>10. ASSUME NEW q \in Process, WriteManifest(q)
       PROVE  /\ Secured(p) /\ manifest' = SessionSnapshots(p)
              /\ UNCHANGED <<snaps, tabs>>
  <2>1. \E c : Set(q, c)
    BY <1>10 DEF WriteManifest
  <2>2. q = p
    BY <1>2, <2>1
  <2>3. [proc[q] EXCEPT !.state = "reviewing"].state = "reviewing"
    BY <1>1, <2>2 DEF Proc
  <2>4. ~Set(q, [proc[q] EXCEPT !.state = "reviewing"])
    BY <1>2, <2>3
  <2> QED
    BY <1>10, <2>2, <2>4 DEF WriteManifest
<1>11. ~(UNCHANGED vars)
  BY <1>3 DEF vars
<1> QED
  BY <1>4, <1>5, <1>6, <1>7, <1>8, <1>9, <1>10, <1>11 DEF Next

\* A session close asks nothing: every dirty text, as it was when the window
\* closed, is in a snapshot that the manifest names.
THEOREM SessionKept == Spec => SessionKeepsLatestText
<1> DEFINE Named == \A p \in Process : proc[p].state = "saving" /\ proc'[p].state = "cleaning" =>
                        \A n \in Slot : IsOpen(p, n) /\ tabs[p][n].dirty =>
                          \E id \in manifest' : snaps[id] = tabs[p][n].text
<1>1. OwnerInv /\ KeptInv /\ [Next]_vars => Named
  <2> SUFFICES ASSUME OwnerInv, KeptInv, [Next]_vars,
                      NEW p \in Process, proc[p].state = "saving", proc'[p].state = "cleaning",
                      NEW n \in Slot, IsOpen(p, n), tabs[p][n].dirty
               PROVE  \E id \in manifest' : snaps[id] = tabs[p][n].text
    OBVIOUS
  <2>1. Secured(p) /\ manifest' = SessionSnapshots(p)
    BY CleaningBegins
  <2>2. Current(p, n) # None /\ Current(p, n) \in manifest'
    BY <2>1 DEF Secured, SessionSnapshots
  <2>3. SourceKept(p, n) /\ OwnKept(p, n)
    BY DEF KeptInv
  <2>4. snaps[Current(p, n)] = tabs[p][n].text
    <3>1. tabs[p][n].recorded
      BY <2>2 DEF Current
    <3>2. CASE snaps[<<p, n>>] # None
      BY <2>3, <3>1, <3>2 DEF Current, OwnKept
    <3>3. CASE snaps[<<p, n>>] = None
      BY <2>2, <2>3, <3>1, <3>3 DEF Current, SourceKept
    <3> QED
      BY <3>2, <3>3
  <2> QED
    BY <2>2, <2>4
<1>2. OwnerInv /\ KeptInv /\ [Next]_vars => [Named]_vars
  BY <1>1
<1> HIDE DEF Named
<1>3. Spec => [][Named]_vars
  BY <1>2, OwnersHold, KeepersHold, PTL DEF Spec
<1> QED
  BY <1>3 DEF SessionKeepsLatestText, Named

-----------------------------------------------------------------------------
(* One process at a time, as with an instance that starts when no other one *)
(* runs: then nobody else touches the files, and more can be promised.      *)

\* What is to be reopened is there and stays there.
TodoIsThere(p) ==
  /\ HasDocuments(p) => proc[p].primary
  /\ ~HasDocuments(p) => proc[p].todo = {}
  /\ proc[p].todo # {} => proc[p].restoring
  /\ \A id \in proc[p].todo : snaps[id] # None /\ id \notin proc[p].doomed
  /\ proc[p].busy = "open" => ~proc[p].restoring /\ \A f \in proc[p].found : snaps[f.id] = f.text

\* No two documents have the same source, and a recorded text is in a file of
\* its document that is not about to be removed.
DocumentsApart(p) ==
  /\ \A n \in Slot : IsOpen(p, n) => /\ proc[p].state \notin {"off", "boot"}
                                     /\ tabs[p][n].origin \notin proc[p].todo
  /\ \A n, m \in Slot : /\ IsOpen(p, n) /\ IsOpen(p, m)
                        /\ tabs[p][n].origin # None /\ tabs[p][n].origin = tabs[p][m].origin
                        => n = m
  /\ \A n \in Slot :
       IsOpen(p, n) /\ tabs[p][n].dirty /\ tabs[p][n].recorded /\ proc[p].state # "exiting" =>
         \E id \in OwnedFiles(p, n) : id \notin proc[p].doomed /\ snaps[id] = tabs[p][n].text

\* The manifest is taken at the start and written at the end, with the files
\* that are kept.
ManifestIsTaken(p) ==
  /\ proc[p].state \in {"up", "saving", "reviewing"} => manifest = {}
  /\ proc[p].state = "cleaning" =>
       /\ proc[p].doomed = {}
       /\ \A id \in manifest : \E n \in Slot : /\ IsOpen(p, n) /\ tabs[p][n].dirty
                                               /\ id # None /\ id = Current(p, n)

AloneInv ==
  /\ \A p, q \in Process : Alive(p) /\ Alive(q) => p = q
  /\ \A p \in Process : TodoIsThere(p) /\ DocumentsApart(p) /\ ManifestIsTaken(p)
  /\ \A id \in manifest : snaps[id] # None /\ \A p \in Process : id \notin proc[p].doomed

LEMMA AloneInit == Init => AloneInv
<1> SUFFICES ASSUME Init PROVE AloneInv
  OBVIOUS
<1>1. ASSUME NEW p \in Process
      PROVE  /\ proc[p].todo = {} /\ proc[p].busy = "no" /\ proc[p].state = "off"
             /\ \A n \in Slot : ~IsOpen(p, n)
  BY DEF Init, NotStarted, IsOpen
<1>2. manifest = {}
  BY DEF Init
<1>3. \A p \in Process : ~Alive(p) /\ TodoIsThere(p) /\ DocumentsApart(p) /\ ManifestIsTaken(p)
  BY <1>1 DEF TodoIsThere, DocumentsApart, ManifestIsTaken, Alive, HasDocuments
<1> QED
  BY <1>2, <1>3 DEF AloneInv

\* A step of p while no other process is alive.
LEMMA AloneMove ==
  ASSUME OwnerInv, KeptInv, AloneInv, NEW p \in Process,
         \A q \in Process \ {p} : ~Alive(q) /\ proc'[q] = proc[q] /\ tabs'[q] = tabs[q],
         TodoIsThere(p)', DocumentsApart(p)', ManifestIsTaken(p)',
         \A id \in manifest' : snaps'[id] # None /\ id \notin proc'[p].doomed
  PROVE  AloneInv'
<1>1. ASSUME NEW q \in Process, q # p
      PROVE  /\ ~Alive(q)' /\ proc'[q].doomed = {}
             /\ TodoIsThere(q)' /\ DocumentsApart(q)' /\ ManifestIsTaken(q)'
  <2>1. /\ proc'[q] = proc[q] /\ ~Alive(q) /\ ~Alive(q)'
        /\ proc'[q].busy = "no" /\ proc'[q].doomed = {} /\ proc'[q].state \in {"off", "leaving", "gone"}
    BY <1>1 DEF OwnerInv, Idle, Alive, HasDocuments
  <2>2. proc'[q].todo = {}
    BY <2>1 DEF AloneInv, TodoIsThere, HasDocuments
  <2>3. \A n \in Slot : ~IsOpen(q, n)'
    BY <1>1, <2>1 DEF KeptInv, FieldsKept, IsOpen, HasDocuments
  <2>4. TodoIsThere(q)' /\ ManifestIsTaken(q)'
    BY <2>1, <2>2 DEF TodoIsThere, ManifestIsTaken, HasDocuments
  <2>5. DocumentsApart(q)'
    BY <2>3 DEF DocumentsApart, Slot
  <2> QED
    BY <2>1, <2>4, <2>5
<1>2. (\A r, q \in Process : Alive(r) /\ Alive(q) => r = q)'
  BY <1>1
<1>3. (\A id \in manifest : snaps[id] # None /\ \A q \in Process : id \notin proc[q].doomed)'
  BY <1>1
<1>4. (\A q \in Process : TodoIsThere(q) /\ DocumentsApart(q) /\ ManifestIsTaken(q))'
  BY <1>1
<1> QED
  BY <1>2, <1>3, <1>4 DEF AloneInv

LEMMA OthersAreOff ==
  ASSUME AloneInv, NEW p \in Process, Alive(p)
  PROVE  /\ \A q \in Process \ {p} : ~Alive(q)
         /\ TodoIsThere(p) /\ DocumentsApart(p) /\ ManifestIsTaken(p)
BY DEF AloneInv

\* The files of two documents are different files, and none of them is to be
\* reopened.
LEMMA FilesApart ==
  ASSUME OwnerInv, KeptInv, AloneInv, NEW p \in Process, NEW n \in Slot, IsOpen(p, n)
  PROVE  /\ Alive(p) /\ HasDocuments(p)
         /\ \A id \in OwnedFiles(p, n) : id \in Id /\ id \notin proc[p].todo
         /\ \A m \in Slot \ {n} : IsOpen(p, m) =>
              \A id \in OwnedFiles(p, n) : id \notin OwnedFiles(p, m)
<1>1. Alive(p) /\ HasDocuments(p) /\ SourceKept(p, n) /\ FieldsKept(p) /\ DocumentsApart(p)
  BY DEF KeptInv, FieldsKept, AloneInv, Alive, HasDocuments
<1>2. \A m \in Slot : ~LetGo(<<p, m>>)
  BY <1>1, OwnIsPrivate
<1>3. \A id \in OwnedFiles(p, n) : id \in Id
  BY OwnedFilesAreMine
<1>4. \A id \in OwnedFiles(p, n) : id \notin proc[p].todo
  BY <1>1, <1>2 DEF OwnedFiles, FieldsKept, DocumentsApart
<1>5. ASSUME NEW m \in Slot \ {n}, IsOpen(p, m), NEW id \in OwnedFiles(p, n)
      PROVE  id \notin OwnedFiles(p, m)
  <2>1. SourceKept(p, m)
    BY <1>5 DEF KeptInv
  <2>2. <<p, n>> # <<p, m>>
    BY <1>5
  <2> QED
    BY <1>1, <1>2, <1>5, <2>1, <2>2 DEF OwnedFiles, SourceKept, DocumentsApart
<1> QED
  BY <1>1, <1>3, <1>4, <1>5

\* A step of a process that is up or closing on its own fields.
LEMMA AloneFields ==
  ASSUME OwnerInv, KeptInv, AloneInv, NEW p \in Process, NEW c \in Proc,
         proc' = [proc EXCEPT ![p] = c],
         UNCHANGED <<snaps, tabs>>, manifest' \subseteq manifest,
         proc[p].state \in {"up", "saving", "reviewing"},
         c.state \in {"up", "saving", "reviewing"},
         c.primary = proc[p].primary,
         c.todo \subseteq proc[p].todo,
         c.doomed \subseteq proc[p].doomed,
         c.todo # {} => c.restoring,
         c.busy = "open" => ~c.restoring /\ \A f \in c.found : snaps[f.id] = f.text
  PROVE  AloneInv'
<1>1. Alive(p)
  BY DEF Alive
<1>2. /\ \A q \in Process \ {p} : ~Alive(q)
      /\ TodoIsThere(p) /\ DocumentsApart(p) /\ ManifestIsTaken(p)
  BY <1>1, OthersAreOff
<1>3. /\ proc'[p] = c
      /\ \A q \in Process \ {p} : proc'[q] = proc[q] /\ tabs'[q] = tabs[q]
  BY DEF OwnerInv, TypeOK
<1>4. Alive(p)'
  BY <1>3 DEF Alive
<1>5. TodoIsThere(p)'
  BY <1>1, <1>2, <1>3, <1>4 DEF TodoIsThere, Alive, HasDocuments
<1>6. DocumentsApart(p)'
  <2>1. \A n \in Slot : (IsOpen(p, n)' <=> IsOpen(p, n)) /\ OwnedFiles(p, n)' = OwnedFiles(p, n)
    BY DEF IsOpen, OwnedFiles
  <2>2. \A n \in Slot : IsOpen(p, n)' => tabs'[p][n].origin \notin proc'[p].todo
    BY <1>2, <1>3, <2>1 DEF DocumentsApart
  <2>3. \A n \in Slot :
          IsOpen(p, n)' /\ tabs'[p][n].dirty /\ tabs'[p][n].recorded =>
            \E id \in OwnedFiles(p, n)' : id \notin proc'[p].doomed /\ snaps'[id] = tabs'[p][n].text
    BY <1>2, <1>3, <2>1 DEF DocumentsApart
  <2>4. \A n, m \in Slot : /\ IsOpen(p, n)' /\ IsOpen(p, m)'
                           /\ tabs'[p][n].origin # None /\ tabs'[p][n].origin = tabs'[p][m].origin
                           => n = m
    BY <1>2, <2>1 DEF DocumentsApart
  <2> QED
    BY <1>3, <2>2, <2>3, <2>4 DEF DocumentsApart, Slot
<1>7. manifest' = {}
  BY <1>2 DEF ManifestIsTaken
<1>8. ManifestIsTaken(p)'
  BY <1>3, <1>7 DEF ManifestIsTaken
<1> QED
  BY <1>2, <1>3, <1>5, <1>6, <1>7, <1>8, AloneMove


\* A process that starts while no other one runs holds the instance mutex.
LEMMA StartAlone ==
  ASSUME ~Together, OwnerInv, KeptInv, AloneInv, NEW p \in Process, Start(p)
  PROVE  AloneInv'
<1>1. PICK on \in Settings :
        proc' = [proc EXCEPT ![p] =
                   [proc[p] EXCEPT !.state = "boot", !.restore = on,
                                   !.primary = \A q \in Process : ~(Alive(q) /\ proc[q].primary)]]
  BY DEF Start, Set
<1> DEFINE c == [proc[p] EXCEPT !.state = "boot", !.restore = on,
                                !.primary = \A q \in Process : ~(Alive(q) /\ proc[q].primary)]
<1>2. /\ proc[p].state = "off" /\ UNCHANGED <<snaps, manifest, tabs>>
      /\ \A q \in Process : ~Alive(q)
  BY DEF Start
<1>3. /\ proc[p] \in Proc /\ FieldsKept(p) /\ TodoIsThere(p)
      /\ proc[p].busy = "no" /\ proc[p].doomed = {}
  BY <1>2, UpFields DEF OwnerInv, Idle, AloneInv, HasDocuments
<1>4. /\ c.state = "boot" /\ c.busy = "no" /\ c.doomed = {} /\ c.todo = proc[p].todo
  BY <1>3 DEF Proc
<1>5. c.primary
  BY <1>2, <1>3 DEF Proc
<1>6. proc' = [proc EXCEPT ![p] = c]
  BY <1>1
<1> HIDE DEF c
<1>7. /\ proc'[p] = c
      /\ \A q \in Process \ {p} : proc'[q] = proc[q] /\ tabs'[q] = tabs[q]
  BY <1>2, <1>6 DEF OwnerInv, TypeOK
<1>8. TodoIsThere(p)'
  BY <1>2, <1>3, <1>4, <1>5, <1>7 DEF TodoIsThere, HasDocuments
<1>9. DocumentsApart(p)'
  BY <1>2, <1>3 DEF FieldsKept, HasDocuments, DocumentsApart, IsOpen, Slot
<1>10. ManifestIsTaken(p)'
  BY <1>4, <1>7 DEF ManifestIsTaken
<1>11. \A id \in manifest' : snaps'[id] # None /\ id \notin proc'[p].doomed
  BY <1>2, <1>4, <1>7 DEF AloneInv
<1> QED
  BY <1>2, <1>7, <1>8, <1>9, <1>10, <1>11, AloneMove

\* The manifest is taken: its files are there, and nobody is about to remove one.
LEMMA BeginRestoreAlone ==
  ASSUME OwnerInv, KeptInv, AloneInv, NEW p \in Process, BeginRestore(p)
  PROVE  AloneInv'
<1> DEFINE c == [proc[p] EXCEPT !.state = "up",
                                !.todo = IF proc[p].restore THEN manifest ELSE {},
                                !.restoring = proc[p].restore /\ manifest # {}]
<1>1. proc[p].state = "boot" /\ Alive(p) /\ UNCHANGED <<snaps, tabs>>
  BY DEF BeginRestore, Alive
<1>2. /\ proc[p] \in Proc /\ proc[p].busy = "no"
      /\ \A q \in Process \ {p} : ~Alive(q)
      /\ TodoIsThere(p) /\ DocumentsApart(p)
  BY <1>1, UpFields, OthersAreOff
<1>3. proc[p].primary /\ \A n \in Slot : ~IsOpen(p, n)
  BY <1>1, <1>2 DEF TodoIsThere, DocumentsApart, HasDocuments
<1>4. proc' = [proc EXCEPT ![p] = c] /\ manifest' = {}
  BY <1>3 DEF BeginRestore, Set
<1>5. /\ c.state = "up" /\ c.busy = "no" /\ c.doomed = proc[p].doomed /\ c.todo \subseteq manifest
      /\ c.primary = proc[p].primary
  BY <1>2 DEF Proc
<1>6. c.todo # {} => c.restoring
  BY <1>2 DEF Proc
<1> HIDE DEF c
<1>7. /\ proc'[p] = c
      /\ \A q \in Process \ {p} : proc'[q] = proc[q] /\ tabs'[q] = tabs[q]
  BY <1>1, <1>4 DEF OwnerInv, TypeOK
<1>8. TodoIsThere(p)'
  <2>1. \A id \in c.todo : snaps[id] # None /\ id \notin c.doomed
    BY <1>5 DEF AloneInv
  <2> QED
    BY <1>1, <1>3, <1>5, <1>6, <1>7, <2>1 DEF TodoIsThere, Alive, HasDocuments
<1>9. DocumentsApart(p)'
  BY <1>1, <1>3 DEF DocumentsApart, IsOpen, Slot
<1>10. ManifestIsTaken(p)'
  BY <1>4, <1>5, <1>7 DEF ManifestIsTaken
<1> QED
  BY <1>2, <1>4, <1>7, <1>8, <1>9, <1>10, AloneMove

\* A document is opened under the next recovery id, from no file or from one
\* that holds its text and that no other document came from.
LEMMA AloneOpen ==
  ASSUME OwnerInv, KeptInv, AloneInv, NEW p \in Process, NEW c \in Proc, NEW x \in Tab,
         proc' = [proc EXCEPT ![p] = c],
         OpenTab(p, x), proc[p].used < MaxTabs,
         UNCHANGED <<snaps, manifest>>,
         proc[p].state = "up", c.state = "up", c.doomed = {},
         c.primary = proc[p].primary,
         c.todo \subseteq proc[p].todo,
         c.todo # {} => c.restoring,
         c.busy = "open" => ~c.restoring /\ \A f \in c.found : snaps[f.id] = f.text,
         x.origin \notin c.todo,
         x.origin # None => \A m \in Slot : IsOpen(p, m) => tabs[p][m].origin # x.origin,
         x.dirty /\ x.recorded => x.origin \in Id /\ snaps[x.origin] = x.text
  PROVE  AloneInv'
<1>1. /\ proc[p].used + 1 \in Slot
      /\ Alive(p)
  BY ProcType, RecoveryAssumption DEF Slot, Proc, Alive
<1>2. PICK k \in Slot : k = proc[p].used + 1
  BY <1>1
<1>3. /\ \A q \in Process \ {p} : ~Alive(q)
      /\ TodoIsThere(p) /\ DocumentsApart(p) /\ ManifestIsTaken(p)
  BY <1>1, OthersAreOff
<1>4. SetTab(p, k, x) /\ x # None
  BY <1>2, NoneIsNoTab DEF OpenTab
<1>5. /\ proc'[p] = c
      /\ \A q \in Process \ {p} : proc'[q] = proc[q]
  BY DEF OwnerInv, TypeOK
<1>6. /\ tabs'[p][k] = x /\ IsOpen(p, k)'
      /\ \A m \in Slot \ {k} : tabs'[p][m] = tabs[p][m] /\ (IsOpen(p, m)' <=> IsOpen(p, m))
      /\ \A q \in Process \ {p} : tabs'[q] = tabs[q]
  BY <1>4, AfterSetTab
<1>7. manifest' = {}
  BY <1>3 DEF ManifestIsTaken
<1>8. TodoIsThere(p)'
  BY <1>1, <1>3, <1>5 DEF TodoIsThere, Alive, HasDocuments
<1>9. DocumentsApart(p)'
  <2>1. ASSUME NEW n \in Slot, IsOpen(p, n)'
        PROVE  tabs'[p][n].origin \notin proc'[p].todo
    <3>1. CASE n = k
      BY <1>5, <1>6, <3>1
    <3>2. CASE n # k
      BY <1>3, <1>5, <1>6, <2>1, <3>2 DEF DocumentsApart
    <3> QED
      BY <3>1, <3>2
  <2>2. ASSUME NEW n \in Slot, NEW m \in Slot, IsOpen(p, n)', IsOpen(p, m)',
               tabs'[p][n].origin # None, tabs'[p][n].origin = tabs'[p][m].origin
        PROVE  n = m
    <3>1. CASE n = k \/ m = k
      BY <1>6, <2>2, <3>1
    <3>2. CASE n # k /\ m # k
      BY <1>3, <1>6, <2>2, <3>2 DEF DocumentsApart
    <3> QED
      BY <3>1, <3>2
  <2>3. ASSUME NEW n \in Slot, IsOpen(p, n)', tabs'[p][n].dirty, tabs'[p][n].recorded
        PROVE  \E id \in OwnedFiles(p, n)' : id \notin proc'[p].doomed /\ snaps'[id] = tabs'[p][n].text
    <3>1. CASE n = k
      <4>1. x.origin \in OwnedFiles(p, k)'
        BY <1>6, <2>3, <3>1, IdFacts DEF OwnedFiles
      <4> QED
        BY <1>5, <1>6, <2>3, <3>1, <4>1
    <3>2. CASE n # k
      <4>1. OwnedFiles(p, n)' = OwnedFiles(p, n)
        BY <1>6, <3>2 DEF OwnedFiles
      <4> QED
        BY <1>3, <1>5, <1>6, <2>3, <3>2, <4>1 DEF DocumentsApart
    <3> QED
      BY <3>1, <3>2
  <2> QED
    BY <1>5, <2>1, <2>2, <2>3 DEF DocumentsApart, Slot
<1>10. ManifestIsTaken(p)'
  BY <1>5, <1>7 DEF ManifestIsTaken
<1> QED
  BY <1>3, <1>5, <1>6, <1>7, <1>8, <1>9, <1>10, AloneMove


LEMMA RestoreEntryAlone ==
  ASSUME OwnerInv, KeptInv, AloneInv, NEW p \in Process, NEW id \in Id, RestoreEntry(p, id)
  PROVE  AloneInv'
<1>1. /\ proc[p] \in Proc /\ proc[p].state = "up" /\ proc[p].busy = "no" /\ proc[p].doomed = {}
      /\ id \in proc[p].todo /\ proc[p].restoring /\ UNCHANGED <<snaps, manifest>>
  BY UpFields DEF RestoreEntry, Running, Idle
<1>2. TodoIsThere(p) /\ DocumentsApart(p)
  BY DEF AloneInv
<1>3. snaps[id] # None
  BY <1>1, <1>2 DEF TodoIsThere
<1> DEFINE c == [proc[p] EXCEPT !.todo = proc[p].todo \ {id}, !.used = proc[p].used + 1, !.busy = "adopt"]
           x == FromSnapshot(id, snaps[id])
<1>4. proc[p].used < MaxTabs /\ OpenTab(p, x) /\ proc' = [proc EXCEPT ![p] = c]
  BY <1>3 DEF RestoreEntry, Set
<1>5. proc[p].used + 1 \in 0..MaxTabs
  BY <1>1, <1>4, RecoveryAssumption DEF Proc
<1>6. /\ c \in Proc /\ c.state = "up" /\ c.busy = "adopt" /\ c.doomed = {}
      /\ c.primary = proc[p].primary /\ c.restoring /\ c.todo = proc[p].todo \ {id}
  BY <1>1, <1>5 DEF Proc
<1>7. x \in Tab /\ x.origin = id /\ x.text = snaps[id]
  <2>1. snaps[id] \in Text
    BY <1>3, KeptType
  <2> QED
    BY <2>1, FromSnapshotFacts DEF FromSnapshot
<1>8. \A m \in Slot : IsOpen(p, m) => tabs[p][m].origin # id
  BY <1>1, <1>2 DEF DocumentsApart
<1> HIDE DEF c, x
<1> QED
  BY <1>1, <1>4, <1>6, <1>7, <1>8, AloneOpen

LEMMA OpenRecoveredAlone ==
  ASSUME OwnerInv, KeptInv, AloneInv, NEW p \in Process, OpenRecovered(p)
  PROVE  AloneInv'
<1>1. /\ proc[p] \in Proc /\ proc[p].state = "up" /\ proc[p].busy = "open" /\ proc[p].doomed = {}
      /\ UNCHANGED <<snaps, manifest>>
  BY UpFields DEF OpenRecovered
<1>2. /\ ~proc[p].restoring /\ proc[p].todo = {}
      /\ \A f \in proc[p].found : snaps[f.id] = f.text
  BY <1>1 DEF AloneInv, TodoIsThere
<1>3. CASE Set(p, [proc[p] EXCEPT !.busy = "no", !.found = {}]) /\ UNCHANGED tabs
  <2> DEFINE c == [proc[p] EXCEPT !.busy = "no", !.found = {}]
  <2>1. /\ c \in Proc /\ c.state = "up" /\ c.busy = "no" /\ c.doomed = {}
        /\ c.primary = proc[p].primary /\ c.todo = {}
    BY <1>1, <1>2 DEF Proc
  <2>2. proc' = [proc EXCEPT ![p] = c]
    BY <1>3 DEF Set
  <2> HIDE DEF c
  <2> QED
    BY <1>1, <1>2, <1>3, <2>1, <2>2, AloneFields
<1>4. ASSUME NEW f \in proc[p].found,
             ~Claimed(p, f.id),
             proc[p].used < MaxTabs,
             OpenTab(p, FromSnapshot(f.id, f.text)),
             Set(p, [proc[p] EXCEPT !.used = @ + 1, !.found = @ \ {f}])
      PROVE  AloneInv'
  <2> DEFINE c == [proc[p] EXCEPT !.used = proc[p].used + 1, !.found = proc[p].found \ {f}]
             x == FromSnapshot(f.id, f.text)
  <2>1. proc[p].used + 1 \in 0..MaxTabs
    BY <1>1, <1>4, RecoveryAssumption DEF Proc
  <2>2. /\ c \in Proc /\ c.state = "up" /\ c.doomed = {} /\ c.primary = proc[p].primary
        /\ c.todo = {} /\ ~c.restoring /\ c.found \subseteq proc[p].found
    BY <1>1, <1>2, <2>1 DEF Proc
  <2>3. proc' = [proc EXCEPT ![p] = c] /\ OpenTab(p, x)
    BY <1>4 DEF Set
  <2>4. f.id \in Id /\ f.text \in Text
    BY <1>1, <1>4 DEF Proc, Found
  <2>5. x \in Tab /\ x.origin = f.id /\ x.text = f.text
    BY <2>4, FromSnapshotFacts DEF FromSnapshot
  <2>6. \A m \in Slot : IsOpen(p, m) => tabs[p][m].origin # f.id
    BY <1>4 DEF Claimed
  <2>7. \A g \in c.found : snaps[g.id] = g.text
    BY <1>2, <2>2
  <2> HIDE DEF c, x
  <2> QED
    BY <1>1, <1>2, <1>4, <2>2, <2>3, <2>4, <2>5, <2>6, <2>7, AloneOpen
<1> QED
  BY <1>3, <1>4 DEF OpenRecovered

LEMMA NewDocumentAlone ==
  ASSUME OwnerInv, KeptInv, AloneInv, NEW p \in Process, NewDocument(p)
  PROVE  AloneInv'
<1>1. /\ proc[p] \in Proc /\ proc[p].state = "up" /\ proc[p].busy = "no" /\ proc[p].doomed = {}
      /\ proc[p].used < MaxTabs /\ UNCHANGED <<snaps, manifest>>
      /\ proc[p].todo # {} => proc[p].restoring
  BY UpFields DEF NewDocument, AloneInv, TodoIsThere
<1> DEFINE c == [proc[p] EXCEPT !.used = proc[p].used + 1]
           x == [text |-> [work |-> <<p, proc[p].used + 1>>, version |-> 1], dirty |-> TRUE,
                 recorded |-> FALSE, origin |-> None]
<1>2. proc[p].used + 1 \in Slot /\ proc[p].used + 1 \in 0..MaxTabs /\ 1 \in 1..MaxVersion
  BY <1>1, RecoveryAssumption DEF Proc, Slot
<1>3. /\ c \in Proc /\ c.state = "up" /\ c.busy = "no" /\ c.doomed = {}
      /\ c.primary = proc[p].primary /\ c.todo = proc[p].todo /\ c.restoring = proc[p].restoring
  BY <1>1, <1>2 DEF Proc
<1>4. proc' = [proc EXCEPT ![p] = c] /\ OpenTab(p, x)
  BY DEF NewDocument, Set
<1>5. x \in Tab /\ x.origin = None /\ ~x.recorded
  BY <1>2, IdFacts DEF Tab, Text
<1>6. None \notin c.todo
  BY <1>3, IdFacts DEF Proc
<1> HIDE DEF c, x
<1> QED
  BY <1>1, <1>3, <1>4, <1>5, <1>6, AloneOpen

LEMMA UpAlone ==
  ASSUME OwnerInv, KeptInv, AloneInv, NEW p \in Process,
         FinishRestore(p) \/ ToggleRestore(p) \/ Discover(p)
  PROVE  AloneInv'
<1>1. /\ proc[p] \in Proc /\ proc[p].state = "up" /\ proc[p].busy = "no" /\ proc[p].doomed = {}
      /\ UNCHANGED <<snaps, manifest, tabs>>
      /\ proc[p].todo # {} => proc[p].restoring
  BY UpFields DEF FinishRestore, ToggleRestore, Discover, AloneInv, TodoIsThere
<1>2. CASE FinishRestore(p)
  <2> DEFINE c == [proc[p] EXCEPT !.restoring = FALSE]
  <2>1. /\ c \in Proc /\ c.state = "up" /\ c.busy = "no" /\ c.doomed = {}
        /\ c.primary = proc[p].primary /\ c.todo = {}
    BY <1>1, <1>2 DEF Proc, FinishRestore
  <2>2. proc' = [proc EXCEPT ![p] = c]
    BY <1>2 DEF FinishRestore, Set
  <2>3. c.todo \subseteq proc[p].todo
    BY <2>1
  <2> HIDE DEF c
  <2> QED
    BY <1>1, <2>1, <2>2, <2>3, AloneFields
<1>3. CASE ToggleRestore(p)
  <2>1. PICK on \in Settings : Set(p, [proc[p] EXCEPT !.restore = on])
    BY <1>3 DEF ToggleRestore
  <2> DEFINE c == [proc[p] EXCEPT !.restore = on]
  <2>2. /\ c \in Proc /\ c.state = "up" /\ c.busy = "no" /\ c.doomed = {}
        /\ c.primary = proc[p].primary /\ c.todo = proc[p].todo /\ c.restoring = proc[p].restoring
    BY <1>1, RecoveryAssumption DEF Proc
  <2>3. proc' = [proc EXCEPT ![p] = c]
    BY <2>1 DEF Set
  <2> HIDE DEF c
  <2> QED
    BY <1>1, <2>2, <2>3, AloneFields
<1>4. CASE Discover(p)
  <2> DEFINE found == {[id |-> id, text |-> snaps[id]] : id \in {i \in Id : Foreign(p, i)}}
             c == [proc[p] EXCEPT !.busy = "open", !.found = found]
  <2>1. proc' = [proc EXCEPT ![p] = c] /\ ~proc[p].restoring
    BY <1>4 DEF Discover, Set
  <2>2. \A i \in Id : Foreign(p, i) => snaps[i] \in Text
    BY DEF Foreign, OwnerInv, TypeOK
  <2>3. \A f \in found : f \in Found /\ snaps[f.id] = f.text
    BY <2>2 DEF Found
  <2> HIDE DEF found
  <2>4. /\ c \in Proc /\ c.state = "up" /\ c.busy = "open" /\ c.doomed = {} /\ c.found = found
        /\ c.primary = proc[p].primary /\ c.todo = proc[p].todo /\ ~c.restoring
    BY <1>1, <2>1, <2>3 DEF Proc
  <2> HIDE DEF c
  <2> QED
    BY <1>1, <2>1, <2>3, <2>4, AloneFields
<1> QED
  BY <1>2, <1>3, <1>4


\* A document becomes x, its own snapshot may be rewritten, and no files but its
\* own are to be removed: no other document had its text in one of them.
LEMMA AloneTab ==
  ASSUME OwnerInv, KeptInv, AloneInv, NEW p \in Process, NEW n \in Slot,
         NEW c \in Proc, NEW x \in Tab \cup {None},
         proc' = [proc EXCEPT ![p] = c],
         SetTab(p, n, x), IsOpen(p, n), UNCHANGED manifest,
         \A id \in Id : id # <<p, n>> => snaps'[id] = snaps[id],
         proc[p].state \in {"up", "saving", "reviewing"}, c.state = proc[p].state,
         c.primary = proc[p].primary, c.busy = "no",
         c.todo = proc[p].todo, c.restoring = proc[p].restoring,
         c.doomed \subseteq OwnedFiles(p, n),
         x # None => x.origin \in {None, tabs[p][n].origin},
         x # None /\ x.dirty /\ x.recorded => snaps'[<<p, n>>] = x.text /\ <<p, n>> \notin c.doomed
  PROVE  AloneInv'
<1>1. Alive(p)
  BY DEF Alive
<1>2. /\ \A q \in Process \ {p} : ~Alive(q)
      /\ TodoIsThere(p) /\ DocumentsApart(p) /\ ManifestIsTaken(p)
  BY <1>1, OthersAreOff
<1>3. /\ \A id \in OwnedFiles(p, n) : id \in Id /\ id \notin proc[p].todo
      /\ \A m \in Slot \ {n} : IsOpen(p, m) =>
           \A id \in OwnedFiles(p, m) : id \in Id /\ id \notin OwnedFiles(p, n)
  BY FilesApart
<1>4. /\ proc'[p] = c
      /\ \A q \in Process \ {p} : proc'[q] = proc[q]
  BY DEF OwnerInv, TypeOK
<1>5. /\ tabs'[p][n] = x /\ (IsOpen(p, n)' <=> x # None)
      /\ \A m \in Slot \ {n} : tabs'[p][m] = tabs[p][m] /\ (IsOpen(p, m)' <=> IsOpen(p, m))
      /\ \A q \in Process \ {p} : tabs'[q] = tabs[q]
  BY AfterSetTab
<1>6. <<p, n>> \in OwnedFiles(p, n)
  BY DEF OwnedFiles
<1>7. \A id \in proc[p].todo : id \in Id
  BY ProcType DEF Proc
<1>8. manifest' = {}
  BY <1>2 DEF ManifestIsTaken
<1>9. TodoIsThere(p)'
  <2>1. \A id \in c.todo : snaps'[id] # None /\ id \notin c.doomed
    BY <1>2, <1>3, <1>6, <1>7 DEF TodoIsThere
  <2> QED
    BY <1>1, <1>2, <1>4, <2>1 DEF TodoIsThere, Alive, HasDocuments
<1>10. DocumentsApart(p)'
  <2>1. ASSUME NEW m \in Slot, IsOpen(p, m)'
        PROVE  tabs'[p][m].origin \notin proc'[p].todo
    <3>1. CASE m = n
      BY <1>2, <1>4, <1>5, <1>7, <2>1, <3>1, IdFacts DEF DocumentsApart
    <3>2. CASE m # n
      BY <1>2, <1>4, <1>5, <2>1, <3>2 DEF DocumentsApart
    <3> QED
      BY <3>1, <3>2
  <2>2. ASSUME NEW m \in Slot, IsOpen(p, m)', tabs'[p][m].origin # None
        PROVE  IsOpen(p, m) /\ tabs'[p][m].origin = tabs[p][m].origin
    <3>1. CASE m = n
      BY <1>5, <2>2, <3>1
    <3>2. CASE m # n
      BY <1>5, <2>2, <3>2
    <3> QED
      BY <3>1, <3>2
  <2>3. ASSUME NEW m \in Slot, NEW k \in Slot, IsOpen(p, m)', IsOpen(p, k)',
               tabs'[p][m].origin # None, tabs'[p][m].origin = tabs'[p][k].origin
        PROVE  m = k
    <3>1. /\ IsOpen(p, m) /\ tabs'[p][m].origin = tabs[p][m].origin
          /\ IsOpen(p, k) /\ tabs'[p][k].origin = tabs[p][k].origin
      BY <2>2, <2>3
    <3> QED
      BY <1>2, <2>3, <3>1 DEF DocumentsApart
  <2>4. ASSUME NEW m \in Slot, IsOpen(p, m)', tabs'[p][m].dirty, tabs'[p][m].recorded
        PROVE  \E id \in OwnedFiles(p, m)' : id \notin proc'[p].doomed /\ snaps'[id] = tabs'[p][m].text
    <3>1. CASE m = n
      <4>1. <<p, n>> \in OwnedFiles(p, n)'
        BY DEF OwnedFiles
      <4> QED
        BY <1>4, <1>5, <2>4, <3>1, <4>1
    <3>2. CASE m # n
      <4>1. IsOpen(p, m) /\ tabs'[p][m] = tabs[p][m] /\ OwnedFiles(p, m)' = OwnedFiles(p, m)
        BY <1>5, <2>4, <3>2 DEF OwnedFiles
      <4>2. PICK id \in OwnedFiles(p, m) : snaps[id] = tabs[p][m].text
        BY <1>2, <2>4, <4>1 DEF DocumentsApart
      <4>3. id \in Id /\ id \notin OwnedFiles(p, n)
        BY <1>3, <3>2, <4>1
      <4>4. id \notin c.doomed /\ snaps'[id] = tabs[p][m].text
        BY <1>6, <4>2, <4>3
      <4> QED
        BY <1>4, <4>1, <4>4
    <3> QED
      BY <3>1, <3>2
  <2> QED
    BY <1>4, <2>1, <2>3, <2>4 DEF DocumentsApart, Slot
<1>11. ManifestIsTaken(p)'
  BY <1>4, <1>8 DEF ManifestIsTaken
<1> QED
  BY <1>2, <1>4, <1>5, <1>8, <1>9, <1>10, <1>11, AloneMove

LEMMA UserAlone ==
  ASSUME OwnerInv, KeptInv, AloneInv, NEW p \in Process, NEW n \in Slot,
         Edit(p, n) \/ UndoAll(p, n) \/ Save(p, n) \/ CloseTab(p, n)
  PROVE  AloneInv'
<1>1. /\ proc[p] \in Proc /\ proc[p].busy = "no" /\ proc[p].doomed = {} /\ IsOpen(p, n)
      /\ proc[p].state \in {"up", "reviewing"} /\ UNCHANGED <<snaps, manifest>>
  BY UpFields DEF Edit, UndoAll, MayGoClean, Save, CloseTab
<1>2. tabs[p][n] \in Tab /\ tabs[p][n].text \in Text /\ tabs[p][n].text.version \in Nat
  BY <1>1, KeptType
<1>3. OwnedFiles(p, n) \subseteq Id
  BY <1>1, OwnedFilesAreMine
<1>4. /\ proc = [proc EXCEPT ![p] = proc[p]]
      /\ {} \subseteq OwnedFiles(p, n)
  BY DEF OwnerInv, TypeOK
<1> DEFINE c == [proc[p] EXCEPT !.doomed = OwnedFiles(p, n)]
<1>5. /\ c \in Proc /\ c.state = proc[p].state /\ c.primary = proc[p].primary /\ c.busy = "no"
      /\ c.doomed = OwnedFiles(p, n) /\ c.todo = proc[p].todo /\ c.restoring = proc[p].restoring
  BY <1>1, <1>3 DEF Proc
<1>6. CASE Edit(p, n)
  <2> DEFINE x == [tabs[p][n] EXCEPT !.text.version = @ + 1, !.dirty = TRUE, !.recorded = FALSE]
  <2>1. tabs[p][n].text.version + 1 \in 1..MaxVersion
    BY <1>2, <1>6, RecoveryAssumption DEF Edit, Text
  <2>2. [tabs[p][n].text EXCEPT !.version = tabs[p][n].text.version + 1] \in Text
    BY <1>2, <2>1 DEF Text
  <2>3. x \in Tab /\ ~x.recorded /\ x.origin = tabs[p][n].origin
    BY <1>2, <2>2 DEF Tab, Text
  <2>4. SetTab(p, n, x) /\ proc' = proc
    BY <1>6 DEF Edit
  <2> HIDE DEF x, c
  <2>5. proc' = [proc EXCEPT ![p] = proc[p]]
    BY <1>4, <2>4
  <2> QED
    BY <1>1, <1>4, <2>3, <2>4, <2>5, AloneTab
<1>7. CASE UndoAll(p, n)
  <2> DEFINE x == [tabs[p][n] EXCEPT !.dirty = FALSE, !.recorded = FALSE]
  <2>1. x \in Tab /\ ~x.recorded /\ x.origin = tabs[p][n].origin
    BY <1>2 DEF Tab
  <2>2. SetTab(p, n, x) /\ proc' = proc
    BY <1>7 DEF UndoAll
  <2> HIDE DEF x, c
  <2>3. proc' = [proc EXCEPT ![p] = proc[p]]
    BY <1>4, <2>2
  <2> QED
    BY <1>1, <1>4, <2>1, <2>2, <2>3, AloneTab
<1>8. CASE Save(p, n)
  <2> DEFINE x == [tabs[p][n] EXCEPT !.dirty = FALSE, !.recorded = FALSE, !.origin = None]
  <2>1. x \in Tab /\ ~x.recorded /\ x.origin = None
    BY <1>2 DEF Tab
  <2>2. SetTab(p, n, x) /\ proc' = [proc EXCEPT ![p] = c]
    BY <1>8 DEF Save, Set
  <2> HIDE DEF x, c
  <2> QED
    BY <1>1, <1>5, <2>1, <2>2, AloneTab
<1>9. CASE CloseTab(p, n)
  <2>1. SetTab(p, n, None) /\ proc' = [proc EXCEPT ![p] = c]
    BY <1>9 DEF CloseTab, Set
  <2> HIDE DEF c
  <2> QED
    BY <1>1, <1>5, <2>1, AloneTab
<1> QED
  BY <1>6, <1>7, <1>8, <1>9

\* A text reaches the disk, and at most its source is given up.
LEMMA WrittenAlone ==
  ASSUME OwnerInv, KeptInv, AloneInv, NEW p \in Process, NEW n \in Slot, NEW c \in Proc,
         proc' = [proc EXCEPT ![p] = c],
         Written(p, n), IsOpen(p, n), UNCHANGED manifest,
         proc[p].state \in {"up", "saving", "reviewing"}, c.state = proc[p].state,
         c.primary = proc[p].primary, c.busy = "no",
         c.todo = proc[p].todo, c.restoring = proc[p].restoring,
         c.doomed \subseteq {tabs[p][n].origin} \ {None}
  PROVE  AloneInv'
<1>1. tabs[p][n] \in Tab /\ tabs[p][n].text \in Text /\ SourceKept(p, n)
  BY KeptType DEF KeptInv
<1>2. <<p, n>> \in Id /\ ~LetGo(<<p, n>>)
  BY IdFacts, OwnIsPrivate DEF HasDocuments
<1>3. PICK x \in Tab : SetTab(p, n, x) /\ x.text = tabs[p][n].text /\ x.origin = tabs[p][n].origin
  <2> DEFINE y == [tabs[p][n] EXCEPT !.recorded = TRUE]
  <2>1. y \in Tab /\ y.text = tabs[p][n].text /\ y.origin = tabs[p][n].origin
    BY <1>1 DEF Tab
  <2>2. SetTab(p, n, y)
    BY DEF Written
  <2> QED
    BY <2>1, <2>2
<1>4. /\ snaps'[<<p, n>>] = x.text
      /\ \A id \in Id : id # <<p, n>> => snaps'[id] = snaps[id]
  BY <1>2, <1>3 DEF Written, OwnerInv, TypeOK
<1>5. c.doomed \subseteq OwnedFiles(p, n) /\ <<p, n>> \notin c.doomed
  BY <1>1, <1>2 DEF OwnedFiles, SourceKept
<1> QED
  BY <1>3, <1>4, <1>5, AloneTab

LEMMA AdoptAlone ==
  ASSUME OwnerInv, KeptInv, AloneInv, NEW p \in Process, Adopt(p)
  PROVE  AloneInv'
<1>1. /\ proc[p] \in Proc /\ proc[p].state = "up" /\ proc[p].doomed = {} /\ UNCHANGED manifest
      /\ proc[p].todo # {} => proc[p].restoring
  BY UpFields DEF Adopt, AloneInv, TodoIsThere
<1>2. PICK n \in Slot : n = proc[p].used /\ IsOpen(p, n) /\ tabs[p][n].origin # None
  BY ProcType DEF Adopt, Adopting, IsOpen
<1>3. CASE /\ Written(p, n)
           /\ Set(p, [proc[p] EXCEPT !.busy = "no", !.doomed = {tabs[p][n].origin}])
  <2> DEFINE c == [proc[p] EXCEPT !.busy = "no", !.doomed = {tabs[p][n].origin}]
  <2>1. tabs[p][n].origin \in Id
    BY <1>2, KeptType
  <2>2. /\ c \in Proc /\ c.state = "up" /\ c.busy = "no" /\ c.primary = proc[p].primary
        /\ c.doomed = {tabs[p][n].origin} /\ c.todo = proc[p].todo /\ c.restoring = proc[p].restoring
    BY <1>1, <2>1 DEF Proc
  <2>3. proc' = [proc EXCEPT ![p] = c]
    BY <1>3 DEF Set
  <2> HIDE DEF c
  <2> QED
    BY <1>1, <1>2, <1>3, <2>2, <2>3, WrittenAlone
<1>4. CASE Set(p, [proc[p] EXCEPT !.busy = "no"]) /\ UNCHANGED <<snaps, tabs, kept>>
  <2> DEFINE c == [proc[p] EXCEPT !.busy = "no"]
  <2>1. /\ c \in Proc /\ c.state = "up" /\ c.busy = "no" /\ c.primary = proc[p].primary
        /\ c.doomed = {} /\ c.todo = proc[p].todo /\ c.restoring = proc[p].restoring
    BY <1>1 DEF Proc
  <2>2. proc' = [proc EXCEPT ![p] = c]
    BY <1>4 DEF Set
  <2> HIDE DEF c
  <2> QED
    BY <1>1, <1>4, <2>1, <2>2, AloneFields
<1> QED
  BY <1>2, <1>3, <1>4 DEF Adopt

LEMMA SnapshotNextAlone ==
  ASSUME OwnerInv, KeptInv, AloneInv, NEW p \in Process, NEW after \in Proc,
         Idle(p), proc[p].state \in {"up", "saving"},
         after.state = proc[p].state, after.busy = "no", after.primary = proc[p].primary,
         after.todo = proc[p].todo, after.restoring = proc[p].restoring,
         \E n \in Slot : Needs(p, n),
         SnapshotNext(p, after)
  PROVE  AloneInv'
<1>1. PICK n \in Slot : n = NextSnapshot(p) /\ IsOpen(p, n)
  BY NextNeeds DEF Needs
<1>2. PICK written \in BOOLEAN :
        /\ IF written THEN Written(p, n) ELSE UNCHANGED <<snaps, tabs, kept>>
        /\ Set(p, [after EXCEPT !.last = n, !.doomed = SourceDone(p, n, written)])
        /\ UNCHANGED manifest
  BY <1>1 DEF SnapshotNext
<1> DEFINE c == [after EXCEPT !.last = n, !.doomed = SourceDone(p, n, written)]
<1>3. /\ SourceDone(p, n, written) \subseteq Id
      /\ SourceDone(p, n, written) \subseteq {tabs[p][n].origin} \ {None}
      /\ ~written => SourceDone(p, n, written) = {}
  BY <1>1, KeptType DEF SourceDone
<1>4. n \in 0..MaxTabs
  BY RecoveryAssumption DEF Slot
<1>5. /\ c \in Proc /\ c.state = proc[p].state /\ c.busy = "no" /\ c.primary = proc[p].primary
      /\ c.doomed = SourceDone(p, n, written) /\ c.todo = proc[p].todo
      /\ c.restoring = proc[p].restoring
  BY <1>3, <1>4 DEF Proc
<1>6. proc' = [proc EXCEPT ![p] = c]
  BY <1>2 DEF Set
<1>7. proc[p].todo # {} => proc[p].restoring
  BY DEF AloneInv, TodoIsThere
<1> HIDE DEF c
<1>8. CASE written
  BY <1>1, <1>2, <1>3, <1>5, <1>6, <1>8, WrittenAlone
<1>9. CASE ~written
  <2>1. UNCHANGED <<snaps, tabs, manifest>>
    BY <1>2, <1>9
  <2>2. c.doomed \subseteq proc[p].doomed
    BY <1>3, <1>5, <1>9
  <2> QED
    BY <1>5, <1>6, <1>7, <2>1, <2>2, AloneFields
<1> QED
  BY <1>8, <1>9


\* The steps of a close before the manifest is written.
LEMMA CloseAlone ==
  ASSUME OwnerInv, KeptInv, AloneInv, NEW p \in Process,
         Close(p) \/ CloseSnapshot(p) \/ CancelReview(p)
  PROVE  AloneInv'
<1>1. /\ proc[p] \in Proc /\ proc[p].state \in {"up", "saving", "reviewing"} /\ Idle(p)
      /\ proc[p].busy = "no" /\ proc[p].doomed = {}
      /\ proc[p].todo # {} => proc[p].restoring
  BY UpFields DEF Close, CloseSnapshot, CancelReview, Running, AloneInv, TodoIsThere
<1>2. CASE Close(p)
  <2>1. PICK s \in {"saving", "reviewing"}, l \in 0..MaxTabs :
          proc' = [proc EXCEPT ![p] = [proc[p] EXCEPT !.state = s, !.left = l]]
    <3>1. CASE Set(p, [proc[p] EXCEPT !.state = "saving", !.left = CloseCalls(p)])
      BY <3>1, CloseCallsType DEF Set
    <3>2. CASE Set(p, [proc[p] EXCEPT !.state = "reviewing"])
      <4>1. [proc[p] EXCEPT !.state = "reviewing"] =
              [proc[p] EXCEPT !.state = "reviewing", !.left = proc[p].left]
        BY <1>1 DEF Proc
      <4>2. proc[p].left \in 0..MaxTabs
        BY <1>1 DEF Proc
      <4> QED
        BY <3>2, <4>1, <4>2 DEF Set
    <3> QED
      BY <1>2, <3>1, <3>2 DEF Close
  <2> DEFINE c == [proc[p] EXCEPT !.state = s, !.left = l]
  <2>2. /\ c \in Proc /\ c.state = s /\ c.busy = "no" /\ c.doomed = {}
        /\ c.primary = proc[p].primary /\ c.todo = proc[p].todo /\ c.restoring = proc[p].restoring
    BY <1>1 DEF Proc
  <2>3. UNCHANGED <<snaps, tabs>> /\ manifest' \subseteq manifest
    BY <1>2 DEF Close
  <2> HIDE DEF c
  <2> QED
    BY <1>1, <2>1, <2>2, <2>3, AloneFields DEF c
<1>3. CASE CloseSnapshot(p)
  <2> DEFINE after == [proc[p] EXCEPT !.left = proc[p].left - 1]
  <2>1. proc[p].state = "saving" /\ proc[p].left - 1 \in 0..MaxTabs
    BY <1>1, <1>3, RecoveryAssumption DEF Proc, CloseSnapshot
  <2>2. /\ after \in Proc /\ after.state = "saving" /\ after.busy = "no" /\ after.doomed = {}
        /\ after.primary = proc[p].primary /\ after.todo = proc[p].todo
        /\ after.restoring = proc[p].restoring
    BY <1>1, <2>1 DEF Proc
  <2>3. \/ (\E n \in Slot : Needs(p, n)) /\ SnapshotNext(p, after)
        \/ proc' = [proc EXCEPT ![p] = after] /\ UNCHANGED <<snaps, manifest, tabs>>
    BY <1>3 DEF CloseSnapshot, Set
  <2> HIDE DEF after
  <2>4. CASE (\E n \in Slot : Needs(p, n)) /\ SnapshotNext(p, after)
    BY <1>1, <2>1, <2>2, <2>4, SnapshotNextAlone
  <2>5. CASE proc' = [proc EXCEPT ![p] = after] /\ UNCHANGED <<snaps, manifest, tabs>>
    BY <1>1, <2>1, <2>2, <2>5, AloneFields
  <2> QED
    BY <2>3, <2>4, <2>5
<1>4. CASE CancelReview(p)
  <2> DEFINE c == [proc[p] EXCEPT !.state = "up"]
  <2>1. /\ c \in Proc /\ c.state = "up" /\ c.busy = "no" /\ c.doomed = {}
        /\ c.primary = proc[p].primary /\ c.todo = proc[p].todo /\ c.restoring = proc[p].restoring
    BY <1>1 DEF Proc
  <2>2. proc' = [proc EXCEPT ![p] = c] /\ UNCHANGED <<snaps, manifest, tabs>>
    BY <1>4 DEF CancelReview, Set
  <2> HIDE DEF c
  <2> QED
    BY <1>1, <2>1, <2>2, AloneFields
<1> QED
  BY <1>2, <1>3, <1>4

LEMMA CurrentIsOwned ==
  ASSUME NEW p \in Process, NEW n \in Slot, Current(p, n) # None
  PROVE  Current(p, n) \in OwnedFiles(p, n) /\ snaps[Current(p, n)] # None
BY IdFacts DEF Current, OwnedFiles

\* The manifest names the files of the documents that are kept, or the close
\* goes on with the review.
LEMMA WriteManifestAlone ==
  ASSUME OwnerInv, KeptInv, AloneInv, NEW p \in Process, WriteManifest(p)
  PROVE  AloneInv'
<1>1. /\ proc[p] \in Proc /\ proc[p].state = "saving" /\ Alive(p)
      /\ proc[p].busy = "no" /\ proc[p].doomed = {} /\ UNCHANGED <<snaps, tabs>>
      /\ proc[p].todo # {} => proc[p].restoring
  BY UpFields DEF WriteManifest, AloneInv, TodoIsThere, Alive, HasDocuments
<1>2. /\ \A q \in Process \ {p} : ~Alive(q)
      /\ TodoIsThere(p) /\ DocumentsApart(p) /\ ManifestIsTaken(p)
  BY <1>1, OthersAreOff
<1>3. CASE Set(p, [proc[p] EXCEPT !.state = "reviewing"]) /\ UNCHANGED manifest
  <2> DEFINE c == [proc[p] EXCEPT !.state = "reviewing"]
  <2>1. /\ c \in Proc /\ c.state = "reviewing" /\ c.busy = "no" /\ c.doomed = {}
        /\ c.primary = proc[p].primary /\ c.todo = proc[p].todo /\ c.restoring = proc[p].restoring
    BY <1>1 DEF Proc
  <2>2. proc' = [proc EXCEPT ![p] = c]
    BY <1>3 DEF Set
  <2> HIDE DEF c
  <2> QED
    BY <1>1, <1>3, <2>1, <2>2, AloneFields
<1>4. CASE Set(p, [proc[p] EXCEPT !.state = "cleaning"]) /\ manifest' = SessionSnapshots(p)
  <2> DEFINE c == [proc[p] EXCEPT !.state = "cleaning"]
  <2>1. /\ c \in Proc /\ c.state = "cleaning" /\ c.busy = "no" /\ c.doomed = {}
        /\ c.primary = proc[p].primary /\ c.todo = proc[p].todo /\ c.restoring = proc[p].restoring
    BY <1>1 DEF Proc
  <2>2. proc' = [proc EXCEPT ![p] = c]
    BY <1>4 DEF Set
  <2> HIDE DEF c
  <2>3. /\ proc'[p] = c
        /\ \A q \in Process \ {p} : proc'[q] = proc[q] /\ tabs'[q] = tabs[q]
    BY <1>1, <2>2 DEF OwnerInv, TypeOK
  <2>4. \A id \in manifest' : \E n \in Slot : /\ IsOpen(p, n) /\ tabs[p][n].dirty
                                              /\ id # None /\ id = Current(p, n)
    BY <1>4 DEF SessionSnapshots
  <2>5. \A id \in manifest' : snaps'[id] # None /\ id \notin proc'[p].doomed
    BY <1>1, <2>1, <2>3, <2>4, CurrentIsOwned
  <2>6. TodoIsThere(p)'
    BY <1>1, <1>2, <2>1, <2>3 DEF TodoIsThere, Alive, HasDocuments
  <2>7. \A n \in Slot : /\ tabs'[p][n] = tabs[p][n]
                        /\ (IsOpen(p, n)' <=> IsOpen(p, n))
                        /\ OwnedFiles(p, n)' = OwnedFiles(p, n)
                        /\ Current(p, n)' = Current(p, n)
    BY <1>1 DEF IsOpen, OwnedFiles, Current
  <2>8. DocumentsApart(p)'
    <3>1. \A n \in Slot : IsOpen(p, n)' => tabs'[p][n].origin \notin proc'[p].todo
      BY <1>2, <2>1, <2>3, <2>7 DEF DocumentsApart
    <3>2. \A n, m \in Slot : /\ IsOpen(p, n)' /\ IsOpen(p, m)'
                             /\ tabs'[p][n].origin # None /\ tabs'[p][n].origin = tabs'[p][m].origin
                             => n = m
      BY <1>2, <2>7 DEF DocumentsApart
    <3>3. \A n \in Slot :
            IsOpen(p, n)' /\ tabs'[p][n].dirty /\ tabs'[p][n].recorded =>
              \E id \in OwnedFiles(p, n)' : id \notin proc'[p].doomed /\ snaps'[id] = tabs'[p][n].text
      BY <1>1, <1>2, <2>1, <2>3, <2>7 DEF DocumentsApart
    <3> QED
      BY <2>1, <2>3, <3>1, <3>2, <3>3 DEF DocumentsApart, Slot
  <2>9. ManifestIsTaken(p)'
    BY <2>1, <2>3, <2>4, <2>7 DEF ManifestIsTaken, Slot
  <2> QED
    BY <1>2, <2>3, <2>5, <2>6, <2>8, <2>9, AloneMove
<1> QED
  BY <1>3, <1>4 DEF WriteManifest

\* The last files of a process on its way out are chosen, none of which is to be
\* reopened by it or by the next one.
LEMMA AloneExiting ==
  ASSUME OwnerInv, KeptInv, AloneInv, NEW p \in Process, NEW c \in Proc,
         proc' = [proc EXCEPT ![p] = c],
         UNCHANGED <<snaps, manifest, tabs>>,
         HasDocuments(p), c.state = "exiting", c.busy = "no",
         c.primary = proc[p].primary, c.todo = proc[p].todo, c.restoring = proc[p].restoring,
         \A id \in c.doomed : id \notin manifest /\ \E n \in Slot : IsOpen(p, n) /\ id \in OwnedFiles(p, n)
  PROVE  AloneInv'
<1>1. /\ \A q \in Process \ {p} : ~Alive(q)
      /\ TodoIsThere(p) /\ DocumentsApart(p)
  BY OthersAreOff DEF Alive, HasDocuments
<1>2. /\ proc'[p] = c
      /\ \A q \in Process \ {p} : proc'[q] = proc[q] /\ tabs'[q] = tabs[q]
  BY DEF OwnerInv, TypeOK
<1>3. \A id \in c.doomed : id \notin c.todo
  BY FilesApart
<1>4. TodoIsThere(p)'
  BY <1>1, <1>2, <1>3 DEF TodoIsThere, Alive, HasDocuments
<1>5. DocumentsApart(p)'
  <2>1. \A n \in Slot : (IsOpen(p, n)' <=> IsOpen(p, n)) /\ tabs'[p][n] = tabs[p][n]
    BY DEF IsOpen
  <2>2. \A n \in Slot : IsOpen(p, n)' => tabs'[p][n].origin \notin proc'[p].todo
    BY <1>1, <1>2, <2>1 DEF DocumentsApart
  <2>3. \A n, m \in Slot : /\ IsOpen(p, n)' /\ IsOpen(p, m)'
                           /\ tabs'[p][n].origin # None /\ tabs'[p][n].origin = tabs'[p][m].origin
                           => n = m
    BY <1>1, <2>1 DEF DocumentsApart
  <2> QED
    BY <1>2, <2>2, <2>3 DEF DocumentsApart, Slot
<1>6. ManifestIsTaken(p)'
  BY <1>2 DEF ManifestIsTaken
<1>7. \A id \in manifest' : snaps'[id] # None /\ id \notin proc'[p].doomed
  BY <1>2 DEF AloneInv
<1> QED
  BY <1>1, <1>2, <1>4, <1>5, <1>6, <1>7, AloneMove

LEMMA CleanSessionAlone ==
  ASSUME OwnerInv, KeptInv, AloneInv, NEW p \in Process, CleanSession(p)
  PROVE  AloneInv'
<1> DEFINE d == UNION {Superseded(p, n) : n \in {m \in Slot : IsOpen(p, m)}}
           c == [proc[p] EXCEPT !.state = "exiting", !.doomed = d]
<1>1. /\ proc[p] \in Proc /\ proc[p].state = "cleaning" /\ proc[p].busy = "no" /\ HasDocuments(p)
      /\ UNCHANGED <<snaps, manifest, tabs>> /\ proc' = [proc EXCEPT ![p] = c]
  BY UpFields DEF CleanSession, Set, HasDocuments
<1>2. ManifestIsTaken(p)
  BY <1>1, OthersAreOff DEF Alive, HasDocuments
<1>3. \A n \in Slot : IsOpen(p, n) => Superseded(p, n) \subseteq OwnedFiles(p, n)
  BY DEF Superseded
<1>4. ASSUME NEW id \in d
      PROVE  id \in Id /\ id \notin manifest /\ \E n \in Slot : IsOpen(p, n) /\ id \in OwnedFiles(p, n)
  <2>1. PICK n \in Slot : IsOpen(p, n) /\ id \in Superseded(p, n)
    BY <1>4
  <2>2. id \in OwnedFiles(p, n) /\ id \in Id
    BY <1>3, <2>1, OwnedFilesAreMine
  <2>3. ASSUME id \in manifest PROVE FALSE
    <3>1. PICK m \in Slot : IsOpen(p, m) /\ tabs[p][m].dirty /\ id # None /\ id = Current(p, m)
      BY <1>1, <1>2, <2>3 DEF ManifestIsTaken
    <3>2. id \in OwnedFiles(p, m)
      BY <3>1, CurrentIsOwned
    <3>3. m = n
      BY <2>1, <2>2, <3>1, <3>2, FilesApart
    <3> QED
      BY <2>1, <3>1, <3>3 DEF Superseded
  <2> QED
    BY <2>1, <2>2, <2>3
<1> HIDE DEF d
<1>5. /\ c \in Proc /\ c.state = "exiting" /\ c.busy = "no" /\ c.doomed = d
      /\ c.primary = proc[p].primary /\ c.todo = proc[p].todo /\ c.restoring = proc[p].restoring
  BY <1>1, <1>4 DEF Proc
<1> HIDE DEF c
<1> QED
  BY <1>1, <1>4, <1>5, AloneExiting

LEMMA FinishReviewAlone ==
  ASSUME OwnerInv, KeptInv, AloneInv, NEW p \in Process, FinishReview(p)
  PROVE  AloneInv'
<1> DEFINE d == UNION {OwnedFiles(p, n) : n \in {m \in Slot : IsOpen(p, m)}}
           c == [proc[p] EXCEPT !.state = "exiting", !.doomed = d]
<1>1. /\ proc[p] \in Proc /\ proc[p].state = "reviewing" /\ proc[p].busy = "no" /\ HasDocuments(p)
      /\ UNCHANGED <<snaps, manifest, tabs>> /\ proc' = [proc EXCEPT ![p] = c]
  BY UpFields DEF FinishReview, Set, HasDocuments
<1>2. manifest = {}
  BY <1>1, OthersAreOff DEF ManifestIsTaken, Alive, HasDocuments
<1>3. \A id \in d : id \in Id /\ \E n \in Slot : IsOpen(p, n) /\ id \in OwnedFiles(p, n)
  BY OwnedFilesAreMine
<1> HIDE DEF d
<1>4. /\ c \in Proc /\ c.state = "exiting" /\ c.busy = "no" /\ c.doomed = d
      /\ c.primary = proc[p].primary /\ c.todo = proc[p].todo /\ c.restoring = proc[p].restoring
  BY <1>1, <1>3 DEF Proc
<1> HIDE DEF c
<1> QED
  BY <1>1, <1>2, <1>3, <1>4, AloneExiting

\* What is removed is neither to be reopened nor the file of a recorded text.
LEMMA RemoveFileAlone ==
  ASSUME OwnerInv, KeptInv, AloneInv, NEW p \in Process, NEW id \in Id, RemoveFile(p, id)
  PROVE  AloneInv'
<1> DEFINE c == [proc[p] EXCEPT !.doomed = proc[p].doomed \ {id}]
<1>1. proc[p] \in Proc /\ id \in proc[p].doomed /\ proc[p].busy = "no" /\ Alive(p)
  BY UpFields DEF RemoveFile, OwnerInv, Idle, Alive, HasDocuments
<1>2. UNCHANGED <<manifest, tabs>> /\ proc' = [proc EXCEPT ![p] = c]
  BY DEF RemoveFile, Set
<1>3. \A i \in Id : i # id => snaps'[i] = snaps[i]
  BY DEF RemoveFile, OwnerInv, TypeOK
<1>4. /\ c.state = proc[p].state /\ c.busy = "no" /\ c.doomed \subseteq proc[p].doomed
      /\ c.primary = proc[p].primary /\ c.todo = proc[p].todo /\ c.restoring = proc[p].restoring
  BY <1>1 DEF Proc
<1> HIDE DEF c
<1>5. /\ \A q \in Process \ {p} : ~Alive(q)
      /\ TodoIsThere(p) /\ DocumentsApart(p) /\ ManifestIsTaken(p)
  BY <1>1, OthersAreOff
<1>6. /\ proc'[p] = c
      /\ \A q \in Process \ {p} : proc'[q] = proc[q] /\ tabs'[q] = tabs[q]
  BY <1>2 DEF OwnerInv, TypeOK
<1>7. \A i \in Id : i \notin proc[p].doomed => snaps'[i] = snaps[i] /\ i \notin c.doomed
  BY <1>1, <1>3, <1>4
<1>8. TodoIsThere(p)'
  <2>1. \A i \in c.todo : i \in Id /\ snaps[i] # None /\ i \notin proc[p].doomed
    BY <1>1, <1>4, <1>5 DEF TodoIsThere, Proc
  <2> QED
    BY <1>1, <1>4, <1>5, <1>6, <1>7, <2>1 DEF TodoIsThere, Alive, HasDocuments
<1>9. DocumentsApart(p)'
  <2>1. \A n \in Slot : /\ tabs'[p][n] = tabs[p][n]
                        /\ (IsOpen(p, n)' <=> IsOpen(p, n))
                        /\ OwnedFiles(p, n)' = OwnedFiles(p, n)
    BY <1>2 DEF IsOpen, OwnedFiles
  <2>2. \A n \in Slot : IsOpen(p, n)' => tabs'[p][n].origin \notin proc'[p].todo
    BY <1>4, <1>5, <1>6, <2>1 DEF DocumentsApart
  <2>3. \A n, m \in Slot : /\ IsOpen(p, n)' /\ IsOpen(p, m)'
                           /\ tabs'[p][n].origin # None /\ tabs'[p][n].origin = tabs'[p][m].origin
                           => n = m
    BY <1>5, <2>1 DEF DocumentsApart
  <2>4. ASSUME NEW n \in Slot, IsOpen(p, n)', tabs'[p][n].dirty, tabs'[p][n].recorded,
               proc'[p].state # "exiting"
        PROVE  \E i \in OwnedFiles(p, n)' : i \notin proc'[p].doomed /\ snaps'[i] = tabs'[p][n].text
    <3>1. PICK i \in OwnedFiles(p, n) : i \notin proc[p].doomed /\ snaps[i] = tabs[p][n].text
      BY <1>4, <1>5, <1>6, <2>1, <2>4 DEF DocumentsApart
    <3>2. i \in Id
      BY <2>1, <2>4, OwnedFilesAreMine
    <3> QED
      BY <1>6, <1>7, <2>1, <3>1, <3>2
  <2>5. \A n \in Slot : IsOpen(p, n)' => proc'[p].state \notin {"off", "boot"}
    BY <1>4, <1>5, <1>6, <2>1 DEF DocumentsApart
  <2> QED
    BY <2>2, <2>3, <2>4, <2>5 DEF DocumentsApart, Slot
<1>10. proc[p].state # "cleaning"
  BY <1>1, <1>5 DEF ManifestIsTaken
<1>11. ManifestIsTaken(p)'
  BY <1>2, <1>4, <1>5, <1>6, <1>10 DEF ManifestIsTaken
<1>12. \A i \in manifest' : snaps'[i] # None /\ i \notin proc'[p].doomed
  BY <1>2, <1>6, <1>7 DEF AloneInv, OwnerInv, TypeOK
<1> QED
  BY <1>5, <1>6, <1>8, <1>9, <1>11, <1>12, AloneMove

LEMMA ReleasedAlone ==
  ASSUME OwnerInv, KeptInv, AloneInv, NEW p \in Process, Alive(p),
         NEW state \in {"leaving", "gone"}, Released(p, state)
  PROVE  AloneInv'
<1> DEFINE c == [NotStarted EXCEPT !.state = state, !.used = proc[p].used]
<1>1. c.state \in {"leaving", "gone"} /\ c.busy = "no" /\ c.doomed = {} /\ c.todo = {}
  BY DEF NotStarted
<1>2. proc' = [proc EXCEPT ![p] = c] /\ UNCHANGED <<snaps, manifest>>
  BY DEF Released, Set
<1>3. tabs' = [tabs EXCEPT ![p] = [n \in Slot |-> None]]
  BY DEF Released
<1> HIDE DEF c
<1>4. /\ proc'[p] = c /\ \A n \in Slot : ~IsOpen(p, n)'
      /\ \A q \in Process \ {p} : proc'[q] = proc[q] /\ tabs'[q] = tabs[q]
  BY <1>2, <1>3 DEF OwnerInv, TypeOK, IsOpen
<1>5. \A q \in Process \ {p} : ~Alive(q)
  BY OthersAreOff
<1>6. TodoIsThere(p)' /\ ManifestIsTaken(p)'
  BY <1>1, <1>4 DEF TodoIsThere, ManifestIsTaken, Alive, HasDocuments
<1>7. DocumentsApart(p)'
  BY <1>4 DEF DocumentsApart, Slot
<1>8. \A id \in manifest' : snaps'[id] # None /\ id \notin proc'[p].doomed
  BY <1>1, <1>2, <1>4 DEF AloneInv
<1> QED
  BY <1>4, <1>5, <1>6, <1>7, <1>8, AloneMove


LEMMA AloneStep ==
  ASSUME ~Together
  PROVE  OwnerInv /\ KeptInv /\ AloneInv /\ [Next]_vars => AloneInv'
<1> SUFFICES ASSUME OwnerInv, KeptInv, AloneInv, [Next]_vars PROVE AloneInv'
  OBVIOUS
<1>1. CASE UNCHANGED vars
  <2>1. UNCHANGED <<snaps, manifest, proc, tabs, kept>>
    BY <1>1 DEF vars
  <2>2. \A p \in Process : TodoIsThere(p)' <=> TodoIsThere(p)
    BY <2>1 DEF TodoIsThere, Alive, HasDocuments
  <2>3. \A p \in Process : DocumentsApart(p)' <=> DocumentsApart(p)
    BY <2>1 DEF DocumentsApart, IsOpen, OwnedFiles, Slot
  <2>4. \A p \in Process : ManifestIsTaken(p)' <=> ManifestIsTaken(p)
    BY <2>1 DEF ManifestIsTaken, IsOpen, Current, Slot
  <2>5. \A p \in Process : Alive(p)' <=> Alive(p)
    BY <2>1 DEF Alive
  <2> QED
    BY <2>1, <2>2, <2>3, <2>4, <2>5 DEF AloneInv
<1>2. ASSUME NEW p \in Process,
             \/ Start(p) \/ BeginRestore(p) \/ Adopt(p) \/ FinishRestore(p)
             \/ Discover(p) \/ OpenRecovered(p) \/ NewDocument(p) \/ ToggleRestore(p)
      PROVE  AloneInv'
  BY <1>2, StartAlone, BeginRestoreAlone, AdoptAlone, UpAlone, OpenRecoveredAlone, NewDocumentAlone
<1>3. ASSUME NEW p \in Process, SnapshotTick(p) PROVE AloneInv'
  <2>1. /\ proc[p] \in Proc /\ Idle(p) /\ proc[p].state = "up" /\ proc[p].busy = "no"
        /\ SnapshotNext(p, proc[p]) /\ \E n \in Slot : Needs(p, n)
    BY <1>3, UpFields DEF SnapshotTick, Running
  <2> QED
    BY <2>1, SnapshotNextAlone
<1>4. ASSUME NEW p \in Process,
             \/ Close(p) \/ CloseSnapshot(p) \/ WriteManifest(p) \/ CleanSession(p)
             \/ CancelReview(p) \/ FinishReview(p)
      PROVE  AloneInv'
  BY <1>4, CloseAlone, WriteManifestAlone, CleanSessionAlone, FinishReviewAlone
<1>5. ASSUME NEW p \in Process, ShutDown(p) \/ Exit(p) \/ Crash(p) PROVE AloneInv'
  <2>1. Alive(p) /\ \E state \in {"leaving", "gone"} : Released(p, state)
    BY <1>5 DEF ShutDown, Exit, Crash, Alive
  <2> QED
    BY <2>1, ReleasedAlone
<1>6. ASSUME NEW p \in Process, NEW n \in Slot,
             Edit(p, n) \/ UndoAll(p, n) \/ Save(p, n) \/ CloseTab(p, n)
      PROVE  AloneInv'
  BY <1>6, UserAlone
<1>7. ASSUME NEW p \in Process, NEW id \in Id, RestoreEntry(p, id) \/ RemoveFile(p, id)
      PROVE  AloneInv'
  BY <1>7, RestoreEntryAlone, RemoveFileAlone
<1> QED
  BY <1>1, <1>2, <1>3, <1>4, <1>5, <1>6, <1>7 DEF Next

\* The inductive invariant of processes that run one after the other.
THEOREM AloneHold == ASSUME ~Together PROVE Spec => []AloneInv
<1>1. Spec => [](OwnerInv /\ KeptInv /\ AloneInv)
  <2>1. Init => OwnerInv /\ KeptInv /\ AloneInv
    BY OwnerInit, KeptInit, AloneInit
  <2>2. OwnerInv /\ KeptInv /\ AloneInv /\ [Next]_vars => (OwnerInv /\ KeptInv /\ AloneInv)'
    BY OwnerStep, KeptStep, AloneStep
  <2> QED
    BY <2>1, <2>2, PTL DEF Spec
<1> QED
  BY <1>1, PTL

\* needs_snapshot leaves out a document whose generation is recorded: while no
\* other process runs, its text is in its own snapshot or in the one it came from,
\* through failed writes, adoptions, reviews and removals in any order.
THEOREM RecordedHold == ASSUME ~Together PROVE Spec => []RecordedTextIsInFile
<1>1. AloneInv => RecordedTextIsInFile
  <2> SUFFICES ASSUME AloneInv, NEW p \in Process, NEW n \in Slot,
                      IsOpen(p, n), tabs[p][n].dirty, tabs[p][n].recorded,
                      proc[p].state # "exiting"
               PROVE  \E id \in OwnedFiles(p, n) : snaps[id] = tabs[p][n].text
    BY DEF RecordedTextIsInFile
  <2> QED
    BY DEF AloneInv, DocumentsApart
<1> QED
  BY <1>1, AloneHold, PTL

\* What begin_session_restore takes can be reopened: every snapshot session.ini
\* names is there, and stays there until restore_session_entry opens it.
SessionIsWhole ==
  /\ \A id \in manifest : snaps[id] # None
  /\ \A p \in Process : \A id \in proc[p].todo : snaps[id] # None

\* A restore finds every snapshot of the session it reopens, however the process
\* that wrote the manifest ended and whichever removals it had left, as long as
\* no other process ran.
THEOREM SessionWhole == ASSUME ~Together PROVE Spec => []SessionIsWhole
<1>1. AloneInv => SessionIsWhole
  BY DEF AloneInv, TodoIsThere, SessionIsWhole
<1> QED
  BY <1>1, AloneHold, PTL
=============================================================================
