-------------------------- MODULE AtomicSaveProofs --------------------------
(***************************************************************************)
(* Theorems about AtomicSave, for any number of savers, saves and retries. *)
(***************************************************************************)
EXTENDS AtomicSave, TLAPS

Busy == {"create", "write", "clean", "remove", "saved"} \cup Swapping

\* What makes a swap put a whole text in place: a saver swaps only after its
\* own temp file holds all of its text, and a save under a new name only moves.
WholeInv ==
  /\ TypeOK
  /\ dest # Partial
  /\ \A s \in Saver :
       /\ call[s].at \in Busy => count[s] \in 1..MaxSaves
       /\ call[s].at \in {"create", "write"} \cup Swapping => call[s].text \in Text
       /\ call[s].at \in Swapping => temps[Temp(s)] = call[s].text
       /\ call[s].new => call[s].at \notin {"look", "replace"}

LEMMA NoCallType == NoCall \in Call /\ [NoCall EXCEPT !.at = "dead"] \in Call
<1>1. 0 \in 0..Retries
  BY AtomicSaveAssumption
<1>2. NoCall \in Call
  BY <1>1 DEF NoCall, Call
<1> QED
  BY <1>2 DEF Call

LEMMA WholeInit == Init => WholeInv
<1> SUFFICES ASSUME Init PROVE WholeInv
  OBVIOUS
<1>0. 0 \in 0..MaxSaves /\ NoFile \in Content
  BY AtomicSaveAssumption DEF Content
<1>1. TypeOK
  <2>1. dest \in Content /\ lost \in BOOLEAN
    BY DEF Init, Content
  <2>2. temps \in [Saver \X (1..MaxSaves) -> Content]
    BY <1>0 DEF Init
  <2>3. call \in [Saver -> Call]
    BY NoCallType DEF Init
  <2>4. count \in [Saver -> 0..MaxSaves]
    BY <1>0 DEF Init
  <2> QED
    BY <2>1, <2>2, <2>3, <2>4 DEF TypeOK
<1>2. \A s \in Saver : call[s].at = "idle" /\ ~call[s].new
  BY DEF Init, NoCall
<1>3. dest # Partial
  BY AtomicSaveAssumption DEF Init
<1> QED
  BY <1>1, <1>2, <1>3 DEF WholeInv, Busy, Swapping

\* A step of one saver, `c` being its call afterwards.
LEMMA SaverMoves ==
  ASSUME WholeInv, NEW s \in Saver, NEW c \in Call,
         call' = [call EXCEPT ![s] = c],
         UNCHANGED count,
         dest' \in Content \ {Partial},
         lost' \in BOOLEAN,
         NEW t \in Content,
         temps' = temps \/ temps' = [temps EXCEPT ![Temp(s)] = t],
         c.at \in Busy => call[s].at \in Busy,
         c.at \in {"create", "write"} \cup Swapping => c.text \in Text,
         c.at \in Swapping => temps'[Temp(s)] = c.text,
         c.new => c.at \notin {"look", "replace"}
  PROVE  WholeInv'
<1>1. TypeOK'
  BY DEF WholeInv, TypeOK
<1>2. Temp(s)' = Temp(s) /\ call'[s] = c /\ count'[s] = count[s]
  BY DEF Temp, WholeInv, TypeOK
<1>3. ASSUME NEW r \in Saver, r # s
      PROVE  /\ call'[r] = call[r]
             /\ call[r].at \in Busy => temps'[Temp(r)'] = temps[Temp(r)]
  <2>1. Temp(r) # Temp(s) /\ Temp(r)' = Temp(r)
    BY <1>3 DEF Temp
  <2>2. call[r].at \in Busy => Temp(r) \in Saver \X (1..MaxSaves)
    BY DEF WholeInv, Temp
  <2> QED
    BY <1>3, <2>1, <2>2 DEF WholeInv, TypeOK
<1> QED
  BY <1>1, <1>2, <1>3 DEF WholeInv, Busy, Swapping

\* The call after a transient error.
LEMMA BlockedEffect ==
  ASSUME TypeOK, NEW s \in Saver, Blocked(s)
  PROVE  \E c \in Call : /\ call' = [call EXCEPT ![s] = c]
                         /\ c.at \in {FirstSwap(s), "clean"}
                         /\ c.text = call[s].text
                         /\ c.new = call[s].new
                         /\ c.existed = call[s].existed
<1>1. call[s] \in Call
  BY DEF TypeOK
<1>2. FirstSwap(s) \in Swapping
  BY DEF FirstSwap, Swapping
<1>3. CASE call[s].tries < Retries
  <2> DEFINE c == [call[s] EXCEPT !.at = FirstSwap(s), !.tries = @ + 1]
  <2>1. call[s].tries + 1 \in 0..Retries
    BY <1>1, <1>3, AtomicSaveAssumption DEF Call
  <2>2. c \in Call
    BY <1>1, <1>2, <2>1 DEF Call
  <2>3. call' = [call EXCEPT ![s] = c]
    BY <1>3 DEF Blocked
  <2>4. c.at = FirstSwap(s) /\ c.text = call[s].text /\ c.new = call[s].new
        /\ c.existed = call[s].existed
    BY <1>1 DEF Call
  <2> HIDE DEF c
  <2> QED
    BY <2>2, <2>3, <2>4
<1>4. CASE ~(call[s].tries < Retries)
  <2> DEFINE c == [call[s] EXCEPT !.at = "clean"]
  <2>1. c \in Call /\ c.at = "clean" /\ c.text = call[s].text /\ c.new = call[s].new
        /\ c.existed = call[s].existed
    BY <1>1 DEF Call
  <2>2. call' = [call EXCEPT ![s] = c]
    BY <1>4 DEF Blocked, At
  <2> HIDE DEF c
  <2> QED
    BY <2>1, <2>2
<1> QED
  BY <1>3, <1>4

LEMMA AtEffect ==
  ASSUME TypeOK, NEW s \in Saver,
         NEW at \in {"write", "clean", "remove", "saved"} \cup Swapping, At(s, at)
  PROVE  \E c \in Call : /\ call' = [call EXCEPT ![s] = c]
                         /\ c.at = at
                         /\ c.text = call[s].text
                         /\ c.new = call[s].new
                         /\ c.existed = call[s].existed
<1> DEFINE c == [call[s] EXCEPT !.at = at]
<1>1. call[s] \in Call
  BY DEF TypeOK
<1>2. c \in Call /\ c.at = at /\ c.text = call[s].text /\ c.new = call[s].new
      /\ c.existed = call[s].existed
  BY <1>1 DEF Call
<1>3. call' = [call EXCEPT ![s] = c]
  BY DEF At
<1> HIDE DEF c
<1> QED
  BY <1>2, <1>3

LEMMA SwappedEffect ==
  ASSUME WholeInv, NEW s \in Saver, Swapped(s), call[s].at \in Swapping, UNCHANGED count
  PROVE  WholeInv' /\ dest' = call[s].text
<1>1. dest' = call[s].text /\ call[s].text \in Text
  BY DEF WholeInv, Swapped
<1>2. dest' \in Content \ {Partial} /\ NoFile \in Content /\ lost' \in BOOLEAN
  BY <1>1, AtomicSaveAssumption DEF Content, Swapped
<1>3. PICK c \in Call : call' = [call EXCEPT ![s] = c] /\ c.at = "saved"
  BY AtEffect DEF Swapped, WholeInv
<1>4. temps' = [temps EXCEPT ![Temp(s)] = NoFile]
  BY DEF Swapped
<1>5. c.at \notin Swapping /\ c.at \notin {"create", "write", "look", "replace"} /\ call[s].at \in Busy
  BY <1>3 DEF Busy, Swapping
<1>6. WholeInv'
  BY <1>2, <1>3, <1>4, <1>5, SaverMoves
<1> QED
  BY <1>1, <1>6

\* A swap that failed, whether or not it is tried again.
LEMMA SwapFails ==
  ASSUME WholeInv, NEW s \in Saver, call[s].at \in {"replace", "move"},
         Blocked(s) \/ At(s, "clean"),
         UNCHANGED <<temps, count>>, dest' \in {dest, NoFile}, lost' \in BOOLEAN
  PROVE  WholeInv'
<1>1. TypeOK /\ call[s].at \in Swapping /\ call[s].at \in Busy
  BY DEF WholeInv, Busy, Swapping
<1>2. PICK c \in Call : /\ call' = [call EXCEPT ![s] = c]
                        /\ c.at \in {FirstSwap(s), "clean"}
                        /\ c.text = call[s].text
                        /\ c.new = call[s].new
  BY <1>1, BlockedEffect, AtEffect
<1>3. dest' \in Content \ {Partial} /\ NoFile \in Content
  BY AtomicSaveAssumption DEF WholeInv, TypeOK, Content
<1>4. c.text \in Text /\ temps'[Temp(s)] = c.text
  BY <1>1, <1>2 DEF WholeInv
<1>5. c.new => c.at \notin {"look", "replace"}
  BY <1>2 DEF FirstSwap
<1> QED
  BY <1>1, <1>2, <1>3, <1>4, <1>5, SaverMoves

LEMMA WholeStep == WholeInv /\ [Next]_vars => WholeInv'
<1> SUFFICES ASSUME WholeInv, [Next]_vars PROVE WholeInv'
  OBVIOUS
<1>0. TypeOK /\ dest \in Content \ {Partial} /\ lost \in BOOLEAN
      /\ NoFile \in Content /\ Partial \in Content /\ Text \subseteq Content
  BY DEF WholeInv, TypeOK, Content
<1>1. ASSUME NEW s \in Saver, NEW t \in Text, NEW new \in BOOLEAN, Start(s, t, new)
      PROVE  WholeInv'
  <2> DEFINE c == [at |-> "create", text |-> t, new |-> new,
                   existed |-> dest # NoFile, tries |-> 0]
  <2>1. c \in Call
    BY AtomicSaveAssumption DEF Call
  <2>2. call' = [call EXCEPT ![s] = c] /\ count' = [count EXCEPT ![s] = @ + 1]
        /\ UNCHANGED <<dest, temps, lost>>
    BY <1>1 DEF Start
  <2>3. count[s] + 1 \in 1..MaxSaves
    BY <1>0, <1>1, AtomicSaveAssumption DEF Start, TypeOK
  <2>4. TypeOK'
    <3> HIDE DEF c
    <3> QED
      BY <1>0, <2>1, <2>2, <2>3 DEF TypeOK
  <2>5. call'[s] = c /\ count'[s] \in 1..MaxSaves
    BY <1>0, <2>2, <2>3 DEF TypeOK
  <2>6. \A r \in Saver : r # s => call'[r] = call[r] /\ count'[r] = count[r] /\ Temp(r)' = Temp(r)
    BY <1>0, <2>2 DEF TypeOK, Temp
  <2> QED
    BY <2>2, <2>4, <2>5, <2>6 DEF WholeInv, Busy, Swapping
<1>2. ASSUME NEW s \in Saver, CreateTemp(s) PROVE WholeInv'
  <2>1. PICK c \in Call : /\ call' = [call EXCEPT ![s] = c]
                          /\ c.at \in {"write", "clean"}
                          /\ c.text = call[s].text
    BY <1>0, <1>2, AtEffect DEF CreateTemp
  <2>2. temps' = temps \/ temps' = [temps EXCEPT ![Temp(s)] = Partial]
    BY <1>2 DEF CreateTemp
  <2>3. call[s].at \in Busy /\ call[s].text \in Text /\ UNCHANGED <<dest, count, lost>>
    BY <1>2 DEF CreateTemp, Busy, WholeInv
  <2> QED
    BY <1>0, <2>1, <2>2, <2>3, SaverMoves DEF Swapping
<1>3. ASSUME NEW s \in Saver, WriteTemp(s) PROVE WholeInv'
  <2>1. call[s].at \in Busy /\ call[s].text \in Text /\ UNCHANGED <<dest, count, lost>>
    BY <1>3 DEF WriteTemp, Busy, WholeInv
  <2>2. CASE temps' = [temps EXCEPT ![Temp(s)] = call[s].text] /\ At(s, FirstSwap(s))
    <3>1. FirstSwap(s) = "move" \/ FirstSwap(s) = "look"
      BY DEF FirstSwap
    <3>2. PICK c \in Call : /\ call' = [call EXCEPT ![s] = c]
                            /\ c.at = FirstSwap(s)
                            /\ c.text = call[s].text
                            /\ c.new = call[s].new
      <4>1. CASE FirstSwap(s) = "move"
        BY <1>0, <2>2, <4>1, AtEffect DEF Swapping
      <4>2. CASE FirstSwap(s) = "look"
        BY <1>0, <2>2, <4>2, AtEffect DEF Swapping
      <4> QED
        BY <3>1, <4>1, <4>2
    <3>3. Temp(s) \in Saver \X (1..MaxSaves)
      BY <2>1 DEF WholeInv, Temp
    <3>4. temps'[Temp(s)] = c.text
      BY <1>0, <2>2, <3>2, <3>3 DEF TypeOK
    <3>5. c.new => c.at \notin {"look", "replace"}
      BY <3>2 DEF FirstSwap
    <3> QED
      BY <1>0, <2>1, <2>2, <3>2, <3>4, <3>5, SaverMoves
  <2>3. CASE UNCHANGED temps /\ At(s, "clean")
    <3>1. PICK c \in Call : call' = [call EXCEPT ![s] = c] /\ c.at = "clean"
      BY <1>0, <2>3, AtEffect
    <3> QED
      BY <1>0, <2>1, <2>3, <3>1, SaverMoves DEF Swapping
  <2> QED
    BY <1>3, <2>2, <2>3 DEF WriteTemp
<1>4. ASSUME NEW s \in Saver, Look(s) PROVE WholeInv'
  <2>1. call[s].at = "look" /\ UNCHANGED <<dest, temps, count, lost>>
    BY <1>4 DEF Look
  <2>2. PICK c \in Call : /\ call' = [call EXCEPT ![s] = c]
                          /\ c.at \in {"move", "replace"}
                          /\ c.text = call[s].text
                          /\ c.new = call[s].new
    BY <1>0, <1>4, AtEffect DEF Look, Swapping
  <2>3. call[s].at \in Busy /\ c.text \in Text /\ temps'[Temp(s)] = c.text /\ ~c.new
    BY <2>1, <2>2 DEF WholeInv, Busy, Swapping
  <2> QED
    BY <1>0, <2>1, <2>2, <2>3, SaverMoves
<1>5. ASSUME NEW s \in Saver, Replace(s) PROVE WholeInv'
  <2>1. call[s].at = "replace" /\ call[s].at \in Swapping /\ UNCHANGED count
    BY <1>5 DEF Replace, Swapping
  <2>2. CASE Swapped(s)
    BY <2>1, <2>2, SwappedEffect
  <2>3. CASE ~Swapped(s)
    <3>1. Blocked(s) \/ At(s, "clean")
      BY <1>5, <2>3 DEF Replace
    <3>2. UNCHANGED temps /\ dest' \in {dest, NoFile} /\ lost' \in BOOLEAN
      BY <1>0, <1>5, <2>3 DEF Replace
    <3> QED
      BY <2>1, <3>1, <3>2, SwapFails
  <2> QED
    BY <2>2, <2>3
<1>6. ASSUME NEW s \in Saver, Move(s) PROVE WholeInv'
  <2>1. call[s].at = "move" /\ call[s].at \in Swapping /\ UNCHANGED count
    BY <1>6 DEF Move, Swapping
  <2>2. CASE Swapped(s)
    BY <2>1, <2>2, SwappedEffect
  <2>3. CASE ~Swapped(s)
    <3>1. Blocked(s) \/ At(s, "clean")
      BY <1>6, <2>3 DEF Move
    <3>2. UNCHANGED temps /\ dest' \in {dest, NoFile} /\ lost' \in BOOLEAN
      BY <1>0, <1>6, <2>3 DEF Move
    <3> QED
      BY <2>1, <3>1, <3>2, SwapFails
  <2> QED
    BY <2>2, <2>3
<1>7. ASSUME NEW s \in Saver, Clean(s) PROVE WholeInv'
  <2>1. call[s].at \in Busy /\ UNCHANGED <<dest, temps, count, lost>>
    BY <1>7 DEF Clean, Busy
  <2>2. CASE call' = [call EXCEPT ![s] = NoCall]
    BY <1>0, <2>1, <2>2, NoCallType, SaverMoves DEF NoCall, Busy, Swapping
  <2>3. CASE At(s, "remove")
    <3>1. PICK c \in Call : call' = [call EXCEPT ![s] = c] /\ c.at = "remove"
      BY <1>0, <2>3, AtEffect
    <3> QED
      BY <1>0, <2>1, <3>1, SaverMoves DEF Swapping
  <2> QED
    BY <1>7, <2>2, <2>3 DEF Clean, At
<1>8. ASSUME NEW s \in Saver, RemoveTemp(s) PROVE WholeInv'
  BY <1>0, <1>8, NoCallType, SaverMoves DEF RemoveTemp, NoCall, Busy, Swapping
<1>9. ASSUME NEW s \in Saver, Return(s) PROVE WholeInv'
  BY <1>0, <1>9, NoCallType, SaverMoves DEF Return, NoCall, Busy, Swapping
<1>10. ASSUME NEW s \in Saver, Crash(s) PROVE WholeInv'
  <2> DEFINE c == [NoCall EXCEPT !.at = "dead"]
  <2>1. c.at = "dead"
    BY DEF NoCall
  <2>2. call' = [call EXCEPT ![s] = c] /\ UNCHANGED <<dest, temps, count, lost>>
    BY <1>10 DEF Crash
  <2>3. c \in Call
    BY NoCallType
  <2> HIDE DEF c
  <2> QED
    BY <1>0, <2>1, <2>2, <2>3, SaverMoves DEF Busy, Swapping
<1>11. CASE (\E t \in Text : OtherWrites(t)) \/ OtherDeletes
  <2>1. dest' \in Content \ {Partial} /\ lost' \in BOOLEAN /\ UNCHANGED <<temps, call, count>>
    BY <1>0, <1>11, AtomicSaveAssumption DEF OtherWrites, OtherDeletes
  <2> QED
    BY <2>1 DEF WholeInv, TypeOK, Temp
<1>12. CASE UNCHANGED vars
  BY <1>12 DEF vars, WholeInv, TypeOK, Temp
<1> QED
  BY <1>1, <1>2, <1>3, <1>4, <1>5, <1>6, <1>7, <1>8, <1>9, <1>10, <1>11, <1>12
  DEF Next, SaverStep

THEOREM WholeAlways == Spec => []WholeInv
BY WholeInit, WholeStep, PTL DEF Spec

\* Every state has the type the model gives it.
THEOREM TypeCorrect == Spec => []TypeOK
<1>1. WholeInv => TypeOK
  BY DEF WholeInv
<1> QED
  BY <1>1, WholeAlways, PTL

\* No reader of the file ever sees part of a text, however many savers run and
\* whenever one of them dies.
THEOREM NeverPartialHolds == Spec => []NeverPartial
<1>1. WholeInv => NeverPartial
  BY DEF WholeInv, NeverPartial
<1> QED
  BY <1>1, WholeAlways, PTL

-----------------------------------------------------------------------------
(* A save under a new name.                                                *)

\* save_atomic_new never takes the place of a file that is there.
THEOREM NewNameIsExclusive == Spec => NewNameReplacesNothing
<1> DEFINE Exclusive == \A s \in Saver : call[s].new /\ call'[s].at = "saved" /\ call[s].at # "saved"
                                         => dest = NoFile
<1>1. ASSUME WholeInv, WholeInv', [Next]_vars PROVE Exclusive
  <2> SUFFICES ASSUME NEW s \in Saver, call[s].new, call'[s].at = "saved", call[s].at # "saved"
               PROVE  dest = NoFile
    OBVIOUS
  <2>1. TypeOK /\ call[s].at \notin {"look", "replace"}
    BY <1>1 DEF WholeInv
  <2>2. call'[s] # call[s]
    OBVIOUS
  <2>3. ASSUME NEW r \in Saver, NEW t \in Text, NEW new \in BOOLEAN, Start(r, t, new) PROVE FALSE
    BY <2>1, <2>3 DEF Start, TypeOK
  <2>4. ASSUME NEW r \in Saver, CreateTemp(r) \/ WriteTemp(r) \/ Look(r) PROVE FALSE
    BY <2>1, <2>4 DEF CreateTemp, WriteTemp, Look, At, FirstSwap, TypeOK, Call
  <2>5. ASSUME NEW r \in Saver, Clean(r) \/ RemoveTemp(r) \/ Return(r) \/ Crash(r) PROVE FALSE
    <3>1. \E c \in {NoCall, [call[r] EXCEPT !.at = "remove"], [NoCall EXCEPT !.at = "dead"]} :
             call' = [call EXCEPT ![r] = c]
      BY <2>5 DEF Clean, RemoveTemp, Return, Crash
    <3> QED
      BY <2>1, <3>1 DEF NoCall, TypeOK, Call
  <2>6. ASSUME NEW r \in Saver, Replace(r) \/ Move(r), dest # NoFile PROVE FALSE
    <3>1. CASE r = s
      <4>1. Blocked(s) \/ At(s, "clean")
        BY <2>1, <2>6, <3>1 DEF Replace, Move
      <4>2. \E c \in {[call[s] EXCEPT !.at = FirstSwap(s), !.tries = @ + 1],
                      [call[s] EXCEPT !.at = "clean"]} : call' = [call EXCEPT ![s] = c]
        BY <4>1 DEF Blocked, At
      <4>3. call'[s].at \in {FirstSwap(s), "clean"}
        BY <2>1, <4>2 DEF TypeOK, Call
      <4>4. call'[s].at \in {"move", "look", "clean"}
        BY <4>3 DEF FirstSwap
      <4> QED
        BY <4>4
    <3>2. CASE r # s
      <4>1. Blocked(r) \/ At(r, "clean") \/ At(r, "saved")
        BY <2>6 DEF Replace, Move, Swapped
      <4> QED
        BY <2>1, <2>2, <3>2, <4>1 DEF Blocked, At, TypeOK
    <3> QED
      BY <3>1, <3>2
  <2>7. ASSUME (\E t \in Text : OtherWrites(t)) \/ OtherDeletes \/ UNCHANGED vars PROVE FALSE
    BY <2>2, <2>7 DEF OtherWrites, OtherDeletes, vars
  <2> QED
    BY <1>1, <2>3, <2>4, <2>5, <2>6, <2>7 DEF Next, SaverStep
<1>2. Spec => [][Exclusive]_vars
  <2>1. WholeInv /\ WholeInv' /\ [Next]_vars => [Exclusive]_vars
    BY <1>1
  <2>2. Spec => [][Next]_vars
    BY PTL DEF Spec
  <2> QED
    BY <2>1, <2>2, WholeAlways, PTL
<1> QED
  BY <1>2 DEF NewNameReplacesNothing

-----------------------------------------------------------------------------
(* One saver at a time, and no other program making the file.              *)

\* Temp file `n` holds a whole text, and if it is the temp file of a save in
\* progress, that save will not remove it while the file is missing.
Safe(n) ==
  /\ temps[n] \in Text
  /\ \A s \in Saver : n = Temp(s) /\ call[s].at \in Busy =>
       /\ call[s].at \in {"clean"} \cup Swapping
       /\ call[s].existed /\ ~call[s].new

\* A save that sees the file found it when it started, nobody but the saver
\* itself being able to make it; so a swap that removed it leaves a safe copy.
AloneInv ==
  /\ \A n \in Saver \X (1..MaxSaves) : n[2] > count[n[1]] => temps[n] = NoFile
  /\ \A s \in Saver :
       call[s].at \in {"create", "write", "clean"} \cup Swapping /\ dest # NoFile => call[s].existed
  /\ lost => dest = NoFile /\ \E n \in Saver \X (1..MaxSaves) : Safe(n)

LEMMA AloneInit == Init => AloneInv
BY DEF Init, AloneInv, NoCall, Swapping

\* Moving on inside a save keeps every safe copy safe.
LEMMA StaysSafe ==
  ASSUME WholeInv, NEW s \in Saver, NEW c \in Call, call' = [call EXCEPT ![s] = c],
         UNCHANGED <<temps, count>>, NEW n \in Saver \X (1..MaxSaves), Safe(n),
         c.at \in Busy => /\ call[s].at \in Busy
                          /\ c.existed = call[s].existed /\ c.new = call[s].new
                          /\ n = Temp(s) => c.at \in {"clean"} \cup Swapping
  PROVE  Safe(n)'
<1>1. call'[s] = c /\ \A r \in Saver : r # s => call'[r] = call[r]
  BY DEF WholeInv, TypeOK
<1>2. \A r \in Saver : Temp(r)' = Temp(r)
  BY DEF Temp
<1>3. ASSUME NEW r \in Saver, n = Temp(r)', call'[r].at \in Busy
      PROVE  call'[r].at \in {"clean"} \cup Swapping /\ call'[r].existed /\ ~call'[r].new
  <2>1. CASE r = s
    <3>1. call[s].at \in Busy /\ c.existed = call[s].existed /\ c.new = call[s].new
          /\ c.at \in {"clean"} \cup Swapping
      BY <1>1, <1>2, <1>3, <2>1
    <3>2. call[s].existed /\ ~call[s].new
      BY <1>2, <1>3, <2>1, <3>1 DEF Safe
    <3>3. c.existed /\ ~c.new
      BY <3>1, <3>2
    <3> QED
      BY <1>1, <2>1, <3>1, <3>3
  <2>2. CASE r # s
    BY <1>1, <1>2, <1>3, <2>2 DEF Safe
  <2> QED
    BY <2>1, <2>2
<1> QED
  BY <1>3 DEF Safe

\* A step of a save that changes no file.
LEMMA AloneMoves ==
  ASSUME WholeInv, AloneInv, NEW s \in Saver, NEW c \in Call,
         call' = [call EXCEPT ![s] = c], UNCHANGED <<temps, count, dest, lost>>,
         c.at \in Busy => /\ call[s].at \in Busy
                          /\ c.existed = call[s].existed /\ c.new = call[s].new,
         c.at \in {"create", "write", "clean"} \cup Swapping =>
           call[s].at \in {"create", "write", "clean"} \cup Swapping,
         \A n \in Saver \X (1..MaxSaves) :
           lost /\ Safe(n) /\ n = Temp(s) /\ c.at \in Busy => c.at \in {"clean"} \cup Swapping
  PROVE  AloneInv'
<1>1. call'[s] = c /\ \A r \in Saver : r # s => call'[r] = call[r]
  BY DEF WholeInv, TypeOK
<1>2. \A r \in Saver : call'[r].at \in {"create", "write", "clean"} \cup Swapping /\ dest' # NoFile
                        => call'[r].existed
  BY <1>1 DEF AloneInv, Busy
<1>3. ASSUME lost PROVE \E n \in Saver \X (1..MaxSaves) : Safe(n)'
  BY <1>3, StaysSafe DEF AloneInv
<1> QED
  BY <1>2, <1>3 DEF AloneInv

\* A step that leaves the file in place, or puts it in place, owes nothing.
LEMMA AlonePresent ==
  ASSUME ~lost', UNCHANGED count, NEW s \in Saver, AloneInv, WholeInv,
         NEW t \in Content, call[s].at \in Busy,
         temps' = temps \/ temps' = [temps EXCEPT ![Temp(s)] = t],
         \A r \in Saver :
           call'[r].at \in {"create", "write", "clean"} \cup Swapping /\ dest' # NoFile
             => call'[r].existed
  PROVE  AloneInv'
<1>1. Temp(s) \in Saver \X (1..MaxSaves) /\ Temp(s)[1] = s /\ Temp(s)[2] = count[s] /\ count[s] \in Nat
  BY DEF Temp, WholeInv
<1>2. \A n \in Saver \X (1..MaxSaves) : n[2] > count'[n[1]] => temps'[n] = NoFile
  BY <1>1 DEF AloneInv, WholeInv, TypeOK
<1> QED
  BY <1>2 DEF AloneInv

LEMMA AloneStep ==
  ASSUME \A r, s \in Saver : r = s, "create" \notin Others,
         WholeInv, AloneInv, [Next]_vars
  PROVE  AloneInv'
<1>0. TypeOK /\ NoFile \in Content /\ Partial \in Content /\ Text \subseteq Content /\ lost \in BOOLEAN
  BY DEF WholeInv, TypeOK, Content
<1>1. ASSUME NEW s \in Saver, NEW t \in Text, NEW new \in BOOLEAN, Start(s, t, new)
      PROVE  AloneInv'
  <2>1. UNCHANGED <<dest, temps, lost>> /\ count'[s] = count[s] + 1 /\ count[s] \in Nat
        /\ call'[s].existed = (dest # NoFile)
    BY <1>0, <1>1 DEF Start, TypeOK
  <2>2. ASSUME NEW n \in Saver \X (1..MaxSaves), n[2] > count'[n[1]] PROVE temps'[n] = NoFile
    <3>1. n[1] = s /\ n[2] \in Nat
      OBVIOUS
    <3>2. n[2] > count[n[1]]
      BY <2>1, <2>2, <3>1
    <3> QED
      BY <2>1, <3>2 DEF AloneInv
  <2>3. ASSUME NEW n \in Saver \X (1..MaxSaves), Safe(n) PROVE Safe(n)'
    <3>1. temps[n] # NoFile
      BY <2>3, AtomicSaveAssumption DEF Safe
    <3>2. n[1] = s /\ ~(n[2] > count[s])
      BY <3>1 DEF AloneInv
    <3>3. n[2] \in Nat /\ n[2] # count'[s]
      BY <2>1, <3>2
    <3>4. \A r \in Saver : n # Temp(r)'
      BY <3>3 DEF Temp
    <3> QED
      BY <2>1, <2>3, <3>4 DEF Safe
  <2> QED
    BY <2>1, <2>2, <2>3 DEF AloneInv
<1>2. ASSUME NEW s \in Saver, CreateTemp(s) \/ WriteTemp(s) PROVE AloneInv'
  <2>1. call[s].at \in {"create", "write"} /\ call[s].at \in Busy /\ UNCHANGED <<dest, count, lost>>
        /\ call[s].text \in Text
    BY <1>2 DEF CreateTemp, WriteTemp, Busy, WholeInv
  <2>2. temps' = temps \/ temps' = [temps EXCEPT ![Temp(s)] = Partial]
        \/ temps' = [temps EXCEPT ![Temp(s)] = call[s].text]
    BY <1>2 DEF CreateTemp, WriteTemp
  <2>3. call'[s].existed = call[s].existed
    BY <1>0, <1>2 DEF CreateTemp, WriteTemp, At, TypeOK, Call
  <2>4. \A r \in Saver :
           call'[r].at \in {"create", "write", "clean"} \cup Swapping /\ dest' # NoFile
             => call'[r].existed
    <3>1. dest' # NoFile => call'[s].existed
      BY <2>1, <2>3 DEF AloneInv
    <3> QED
      BY <3>1
  <2>5. CASE ~lost
    BY <1>0, <2>1, <2>2, <2>4, <2>5, AlonePresent
  <2>6. CASE lost
    <3>1. PICK n \in Saver \X (1..MaxSaves) : Safe(n)
      BY <2>6 DEF AloneInv
    <3>2. n # Temp(s)
      BY <2>1, <3>1 DEF Safe, Swapping
    <3>3. Temp(s)' = Temp(s)
      BY <2>1 DEF Temp
    <3>4. Safe(n)'
      BY <1>0, <2>2, <3>1, <3>2, <3>3 DEF Safe, TypeOK
    <3>5. Temp(s) \in Saver \X (1..MaxSaves) /\ Temp(s)[1] = s /\ Temp(s)[2] = count[s] /\ count[s] \in Nat
      BY <2>1 DEF Temp, WholeInv
    <3>6. \A m \in Saver \X (1..MaxSaves) : m[2] > count'[m[1]] => temps'[m] = NoFile
      BY <1>0, <2>1, <2>2, <3>5 DEF AloneInv, TypeOK
    <3> QED
      BY <2>1, <2>4, <3>4, <3>6 DEF AloneInv
  <2> QED
    BY <1>0, <2>5, <2>6
<1>3. ASSUME NEW s \in Saver, Look(s) PROVE AloneInv'
  <2>1. PICK c \in Call : /\ call' = [call EXCEPT ![s] = c]
                          /\ c.at \in {"move", "replace"}
                          /\ c.new = call[s].new
                          /\ c.existed = call[s].existed
    BY <1>0, <1>3, AtEffect DEF Look, Swapping
  <2> QED
    BY <1>3, <2>1, AloneMoves DEF Look, Busy, Swapping
<1>4. ASSUME NEW s \in Saver, Replace(s) \/ Move(s) PROVE AloneInv'
  <2>1. call[s].at \in {"replace", "move"} /\ call[s].at \in Busy /\ UNCHANGED count
    BY <1>4 DEF Replace, Move, Busy, Swapping
  <2>2. CASE Swapped(s)
    <3>1. ~lost' /\ temps' = [temps EXCEPT ![Temp(s)] = NoFile]
      BY <2>2 DEF Swapped
    <3>2. \A r \in Saver : call'[r].at \notin {"create", "write", "clean"} \cup Swapping
      BY <1>0, <2>2 DEF Swapped, At, TypeOK, Call, Swapping
    <3> QED
      BY <1>0, <2>1, <3>1, <3>2, AlonePresent
  <2>3. CASE ~Swapped(s)
    <3>1. Blocked(s) \/ At(s, "clean")
      BY <1>4, <2>3 DEF Replace, Move
    <3>2. PICK c \in Call : /\ call' = [call EXCEPT ![s] = c]
                            /\ c.at \in {FirstSwap(s), "clean"}
                            /\ c.new = call[s].new
                            /\ c.existed = call[s].existed
      BY <1>0, <3>1, BlockedEffect, AtEffect
    <3>3. c.at \in {"clean"} \cup Swapping
      BY <3>2 DEF FirstSwap, Swapping
    <3>4. CASE UNCHANGED <<dest, temps, lost>>
      BY <2>1, <3>2, <3>3, <3>4, AloneMoves DEF Swapping
    <3>5. CASE dest # NoFile /\ dest' = NoFile /\ lost' = TRUE /\ temps' = temps /\ call[s].at = "replace"
      <4>1. call[s].existed /\ ~call[s].new /\ temps[Temp(s)] \in Text
            /\ Temp(s) \in Saver \X (1..MaxSaves)
        BY <2>1, <3>5 DEF AloneInv, WholeInv, Temp, Swapping
      <4>2. call'[s] = c /\ Temp(s)' = Temp(s)
        BY <1>0, <2>1, <3>2 DEF TypeOK, Temp
      <4>3. Safe(Temp(s))'
        BY <3>2, <3>3, <3>5, <4>1, <4>2 DEF Safe
      <4> QED
        BY <2>1, <3>5, <4>1, <4>2, <4>3 DEF AloneInv
    <3> QED
      BY <1>4, <2>3, <3>4, <3>5 DEF Replace, Move
  <2> QED
    BY <2>2, <2>3
<1>5. ASSUME NEW s \in Saver, Clean(s) PROVE AloneInv'
  <2>1. call[s].at = "clean" /\ UNCHANGED <<dest, temps, count, lost>>
    BY <1>5 DEF Clean
  <2>2. CASE call' = [call EXCEPT ![s] = NoCall]
    BY <2>1, <2>2, NoCallType, AloneMoves DEF NoCall, Busy, Swapping
  <2>3. CASE ~KeepsTemp(s) /\ At(s, "remove")
    <3>1. PICK c \in Call : /\ call' = [call EXCEPT ![s] = c]
                            /\ c.at = "remove"
                            /\ c.new = call[s].new
                            /\ c.existed = call[s].existed
      BY <1>0, <2>3, AtEffect
    <3>2. ~(call[s].existed /\ ~call[s].new) \/ ~lost
      BY <2>3 DEF KeepsTemp, AloneInv
    <3>3. call[s].at \in Busy /\ \A n \in Saver \X (1..MaxSaves) : ~(lost /\ Safe(n) /\ n = Temp(s))
      BY <2>1, <3>2 DEF Safe, Busy
    <3> QED
      BY <2>1, <3>1, <3>3, AloneMoves DEF Swapping
  <2> QED
    BY <1>5, <2>2, <2>3 DEF Clean, At
<1>6. ASSUME NEW s \in Saver, RemoveTemp(s) PROVE AloneInv'
  <2>1. call[s].at = "remove" /\ call[s].at \in Busy /\ UNCHANGED <<dest, count, lost>>
        /\ call'[s].at = "idle"
    BY <1>0, <1>6 DEF RemoveTemp, Busy, NoCall, TypeOK
  <2>2. temps' = temps \/ temps' = [temps EXCEPT ![Temp(s)] = NoFile]
    BY <1>6 DEF RemoveTemp
  <2>3. \A r \in Saver : call'[r].at = "idle"
    BY <2>1
  <2>4. CASE ~lost
    <3>1. \A r \in Saver : call'[r].at \notin {"create", "write", "clean"} \cup Swapping
      BY <2>3 DEF Swapping
    <3> QED
      BY <1>0, <2>1, <2>2, <2>4, <3>1, AlonePresent
  <2>5. CASE lost
    <3>1. PICK n \in Saver \X (1..MaxSaves) : Safe(n)
      BY <2>5 DEF AloneInv
    <3>2. n # Temp(s)
      BY <2>1, <3>1 DEF Safe, Swapping
    <3>3. Safe(n)'
      BY <1>0, <2>2, <2>3, <3>1, <3>2 DEF Safe, TypeOK, Busy, Swapping
    <3>4. Temp(s) \in Saver \X (1..MaxSaves)
      BY <2>1 DEF Temp, WholeInv
    <3>5. \A m \in Saver \X (1..MaxSaves) : m[2] > count'[m[1]] => temps'[m] = NoFile
      BY <1>0, <2>1, <2>2, <3>4 DEF AloneInv, TypeOK
    <3> QED
      BY <2>1, <2>3, <3>3, <3>5 DEF AloneInv, Swapping
  <2> QED
    BY <1>0, <2>4, <2>5
<1>7. ASSUME NEW s \in Saver, Return(s) PROVE AloneInv'
  BY <1>7, NoCallType, AloneMoves DEF Return, NoCall, Busy, Swapping
<1>8. ASSUME NEW s \in Saver, Crash(s) PROVE AloneInv'
  <2> DEFINE c == [NoCall EXCEPT !.at = "dead"]
  <2>1. c.at = "dead"
    BY DEF NoCall
  <2>2. call' = [call EXCEPT ![s] = c] /\ UNCHANGED <<dest, temps, count, lost>>
    BY <1>8 DEF Crash
  <2>3. c \in Call
    BY NoCallType
  <2> HIDE DEF c
  <2> QED
    BY <2>1, <2>2, <2>3, AloneMoves DEF Busy, Swapping
<1>9. CASE (\E t \in Text : OtherWrites(t)) \/ OtherDeletes
  <2>1. dest # NoFile /\ ~lost' /\ UNCHANGED <<temps, call, count>>
    BY <1>0, <1>9 DEF OtherWrites, OtherDeletes, AloneInv
  <2> QED
    BY <2>1 DEF AloneInv
<1>10. CASE UNCHANGED vars
  BY <1>10 DEF vars, AloneInv, Safe, Temp
<1> QED
  BY <1>1, <1>2, <1>3, <1>4, <1>5, <1>6, <1>7, <1>8, <1>9, <1>10 DEF Next, SaverStep

\* With one saver, and no other program making the file while it is missing, a
\* file that a swap removed is always in a temp file next to where it was.
THEOREM LossIsCovered ==
  ASSUME \A r, s \in Saver : r = s, "create" \notin Others
  PROVE  Spec => []NeverLosesBoth
<1>1. Init => WholeInv /\ AloneInv
  BY WholeInit, AloneInit
<1>2. WholeInv /\ AloneInv /\ [Next]_vars => (WholeInv /\ AloneInv)'
  BY WholeStep, AloneStep
<1>3. WholeInv /\ AloneInv => NeverLosesBoth
  BY DEF WholeInv, TypeOK, AloneInv, Safe, NeverLosesBoth
<1> QED
  BY <1>1, <1>2, <1>3, PTL DEF Spec

-----------------------------------------------------------------------------
(* The save as its callers see it.                                         *)

Requests == [s \in Saver |-> Outcome(call[s])]

\* What a step of one saver does to the requests.
LEMMA RequestMoves ==
  ASSUME TypeOK, NEW s \in Saver, NEW c \in Call, call' = [call EXCEPT ![s] = c]
  PROVE  Requests' = [Requests EXCEPT ![s] = Outcome(c)]
<1>1. \A r \in Saver : call'[r] = IF r = s THEN c ELSE call[r]
  BY DEF TypeOK
<1> QED
  BY <1>1 DEF Requests, Outcome

\* A saver that moves on without its request changing for its caller.
LEMMA RequestStays ==
  ASSUME TypeOK, NEW s \in Saver, NEW c \in Call, call' = [call EXCEPT ![s] = c],
         Outcome(c) = Outcome(call[s])
  PROVE  UNCHANGED Requests
<1>1. \A r \in Saver : call'[r] = IF r = s THEN c ELSE call[r]
  BY DEF TypeOK
<1>2. \A r \in Saver : Outcome(call'[r]) = Outcome(call[r])
  BY <1>1
<1> QED
  BY <1>2 DEF Requests

\* A saver whose request takes a new state and keeps the rest.
LEMMA RequestBecomes ==
  ASSUME TypeOK, NEW s \in Saver, NEW c \in Call, call' = [call EXCEPT ![s] = c],
         c.text = call[s].text, c.new = call[s].new, NEW state,
         Outcome(c).state = state
  PROVE  /\ Requests' = [Requests EXCEPT ![s].state = state]
         /\ Requests[s].state = Outcome(call[s]).state
         /\ Requests[s].text = call[s].text
         /\ Requests[s].new = call[s].new
<1>1. Outcome(c) = [Outcome(call[s]) EXCEPT !.state = state]
  BY DEF Outcome
<1>2. Requests[s] = Outcome(call[s])
  BY DEF Requests
<1>3. [Requests[s] EXCEPT !.state = state] = Outcome(c)
  BY <1>1, <1>2
<1>4. Requests' = [Requests EXCEPT ![s] = Outcome(c)]
  BY RequestMoves
<1>5. Requests' = [Requests EXCEPT ![s].state = state]
  BY <1>3, <1>4
<1> QED
  BY <1>2, <1>5 DEF Outcome

LEMMA AbstractInit == Init => Abstract!AInit
<1> SUFFICES ASSUME Init PROVE Abstract!AInit
  OBVIOUS
<1>1. \A s \in Saver : Outcome(call[s]) = Abstract!Nothing
  BY DEF Init, NoCall, Outcome, Abstract!Nothing
<1> QED
  BY <1>1 DEF Init, Abstract!AInit

\* Each step of a save is a step of the abstract file or none at all.
LEMMA AbstractStep ==
  ASSUME WholeInv, [Next]_vars
  PROVE  [Abstract!ANext]_<<dest, Requests>>
<1> USE DEF Requests
<1>0. TypeOK
  BY DEF WholeInv
<1>1. ASSUME NEW s \in Saver, NEW t \in Text, NEW new \in BOOLEAN, Start(s, t, new)
      PROVE  Abstract!Ask(s)
  <2> DEFINE c == [at |-> "create", text |-> t, new |-> new,
                   existed |-> dest # NoFile, tries |-> 0]
  <2>1. c \in Call
    BY AtomicSaveAssumption DEF Call
  <2>2. call' = [call EXCEPT ![s] = c] /\ dest' = dest /\ call[s].at = "idle"
    BY <1>1 DEF Start
  <2>3. Outcome(c) = [state |-> "asked", text |-> t, new |-> new]
    BY DEF Outcome
  <2>4. Outcome(call[s]).state = "none"
    BY <2>2 DEF Outcome
  <2> HIDE DEF c
  <2>5. Requests' = [Requests EXCEPT ![s] = [state |-> "asked", text |-> t, new |-> new]]
    BY <1>0, <2>1, <2>2, <2>3, RequestMoves
  <2> QED
    BY <2>2, <2>4, <2>5 DEF Abstract!Ask
<1>2. ASSUME NEW s \in Saver, CreateTemp(s) \/ WriteTemp(s) \/ Look(s)
      PROVE  Abstract!Refuse(s) \/ UNCHANGED <<dest, Requests>>
  <2>1. PICK c \in Call : /\ call' = [call EXCEPT ![s] = c]
                          /\ c.at \in {"write", "clean", "look", "move", "replace"}
                          /\ c.text = call[s].text
                          /\ c.new = call[s].new
    BY <1>0, <1>2, AtEffect DEF CreateTemp, WriteTemp, Look, FirstSwap, Swapping
  <2>2. dest' = dest /\ call[s].at \in {"create", "write", "look"}
    BY <1>2 DEF CreateTemp, WriteTemp, Look
  <2>3. Outcome(call[s]).state = "asked"
    BY <2>2 DEF Outcome
  <2>4. CASE c.at = "clean"
    <3>1. Outcome(c).state = "failed"
      BY <2>4 DEF Outcome
    <3>2. /\ Requests' = [Requests EXCEPT ![s].state = "failed"]
          /\ Requests[s].state = "asked"
          /\ Requests[s].text = call[s].text
          /\ Requests[s].new = call[s].new
      BY <1>0, <2>1, <2>3, <3>1, RequestBecomes
    <3> QED
      BY <2>2, <3>2 DEF Abstract!Refuse, Abstract!Become
  <2>5. CASE c.at # "clean"
    <3>1. Outcome(c) = Outcome(call[s])
      BY <2>1, <2>2, <2>5 DEF Outcome
    <3> QED
      BY <1>0, <2>1, <2>2, <3>1, RequestStays
  <2> QED
    BY <2>4, <2>5
<1>3. ASSUME NEW s \in Saver, Replace(s) \/ Move(s)
      PROVE  \/ Abstract!Commit(s) \/ Abstract!Refuse(s) \/ Abstract!Vanish(s)
             \/ UNCHANGED <<dest, Requests>>
  <2>1. call[s].at \in {"replace", "move"} /\ UNCHANGED count
    BY <1>3 DEF Replace, Move
  <2>2. Outcome(call[s]).state = "asked"
    BY <2>1 DEF Outcome
  <2>3. CASE Swapped(s) /\ (call[s].new => dest = NoFile)
    <3>1. PICK c \in Call : /\ call' = [call EXCEPT ![s] = c]
                            /\ c.at = "saved"
                            /\ c.text = call[s].text
                            /\ c.new = call[s].new
      BY <1>0, <2>3, AtEffect DEF Swapped
    <3>2. Outcome(c).state = "saved"
      BY <3>1 DEF Outcome
    <3>3. dest' = call[s].text
      BY <2>1, <2>3, SwappedEffect DEF Swapping
    <3>4. /\ Requests' = [Requests EXCEPT ![s].state = "saved"]
          /\ Requests[s].state = "asked"
          /\ Requests[s].text = call[s].text
          /\ Requests[s].new = call[s].new
      BY <1>0, <2>2, <3>1, <3>2, RequestBecomes
    <3> QED
      BY <2>3, <3>3, <3>4 DEF Abstract!Commit, Abstract!Become
  <2>4. CASE /\ Blocked(s) \/ At(s, "clean")
             /\ dest' = dest \/ (dest' = NoFile /\ call[s].at = "replace")
    <3>1. PICK c \in Call : /\ call' = [call EXCEPT ![s] = c]
                            /\ c.at \in {"look", "move", "clean"}
                            /\ c.text = call[s].text
                            /\ c.new = call[s].new
      BY <1>0, <2>4, BlockedEffect, AtEffect DEF FirstSwap
    <3>2. dest' = dest \/ (dest' = NoFile /\ ~call[s].new)
      BY <2>4 DEF WholeInv
    <3>3. CASE c.at = "clean"
      <4>1. Outcome(c).state = "failed"
        BY <3>3 DEF Outcome
      <4>2. /\ Requests' = [Requests EXCEPT ![s].state = "failed"]
            /\ Requests[s].state = "asked"
            /\ Requests[s].text = call[s].text
            /\ Requests[s].new = call[s].new
        BY <1>0, <2>2, <3>1, <4>1, RequestBecomes
      <4> QED
        BY <3>2, <4>2 DEF Abstract!Refuse, Abstract!Vanish, Abstract!Become
    <3>4. CASE c.at # "clean"
      <4>1. Outcome(c) = Outcome(call[s])
        BY <2>1, <3>1, <3>4 DEF Outcome
      <4>2. UNCHANGED Requests
        BY <1>0, <3>1, <4>1, RequestStays
      <4> QED
        BY <1>0, <2>2, <3>1, <3>2, <4>1, <4>2, RequestBecomes DEF Abstract!Vanish
    <3> QED
      BY <3>3, <3>4
  <2> QED
    BY <1>3, <2>3, <2>4 DEF Replace, Move, WholeInv
<1>4. ASSUME NEW s \in Saver, Clean(s) PROVE Abstract!Answer(s) \/ UNCHANGED <<dest, Requests>>
  <2>1. call[s].at = "clean" /\ dest' = dest
    BY <1>4 DEF Clean
  <2>2. Outcome(call[s]).state = "failed"
    BY <2>1 DEF Outcome
  <2>3. CASE call' = [call EXCEPT ![s] = NoCall]
    <3>1. Outcome(NoCall) = Abstract!Nothing
      BY DEF NoCall, Outcome, Abstract!Nothing
    <3> QED
      BY <1>0, <2>1, <2>2, <2>3, <3>1, NoCallType, RequestMoves DEF Abstract!Answer
  <2>4. CASE At(s, "remove")
    <3>1. PICK c \in Call : /\ call' = [call EXCEPT ![s] = c]
                            /\ c.at = "remove"
                            /\ c.text = call[s].text
                            /\ c.new = call[s].new
      BY <1>0, <2>4, AtEffect
    <3>2. Outcome(c) = Outcome(call[s])
      BY <2>1, <3>1 DEF Outcome
    <3> QED
      BY <1>0, <2>1, <3>1, <3>2, RequestStays
  <2> QED
    BY <1>4, <2>3, <2>4 DEF Clean, At
<1>5. ASSUME NEW s \in Saver, RemoveTemp(s) \/ Return(s) PROVE Abstract!Answer(s)
  <2>1. call[s].at \in {"remove", "saved"} /\ dest' = dest /\ call' = [call EXCEPT ![s] = NoCall]
    BY <1>5 DEF RemoveTemp, Return
  <2>2. Outcome(call[s]).state \in {"failed", "saved"}
    BY <2>1 DEF Outcome
  <2>3. Outcome(NoCall) = Abstract!Nothing
    BY DEF NoCall, Outcome, Abstract!Nothing
  <2> QED
    BY <1>0, <2>1, <2>2, <2>3, NoCallType, RequestMoves DEF Abstract!Answer
<1>6. ASSUME NEW s \in Saver, Crash(s) PROVE Abstract!Die(s)
  <2> DEFINE c == [NoCall EXCEPT !.at = "dead"]
  <2>1. Outcome(c) = [state |-> "dead", text |-> NoFile, new |-> FALSE]
    <3>1. c.at = "dead" /\ c.text = NoFile /\ c.new = FALSE
      BY DEF NoCall
    <3> HIDE DEF c
    <3> QED
      BY <3>1 DEF Outcome
  <2>2. call' = [call EXCEPT ![s] = c] /\ dest' = dest
    BY <1>6 DEF Crash
  <2>3. c \in Call
    BY NoCallType
  <2> HIDE DEF c
  <2> QED
    BY <1>0, <2>1, <2>2, <2>3, RequestMoves DEF Abstract!Die
<1>7. CASE (\E t \in Text : OtherWrites(t)) \/ OtherDeletes
  BY <1>7 DEF OtherWrites, OtherDeletes, Abstract!Elsewhere, Abstract!ANext
<1>8. CASE UNCHANGED vars
  BY <1>8 DEF vars
<1> QED
  BY <1>1, <1>2, <1>3, <1>4, <1>5, <1>6, <1>7, <1>8 DEF Next, SaverStep, Abstract!ANext

\* A save replaces the whole file or leaves it, and reports which, except that
\* a swap may leave the file missing: write_then_swap implements AtomicFile.
THEOREM SaveImplementsAtomicFile == Spec => ImplementsAtomicFile
<1>1. WholeInv /\ [Next]_vars => [Abstract!ANext]_(Abstract!avars)
  BY AbstractStep DEF Abstract!avars, Requests
<1> QED
  BY <1>1, AbstractInit, WholeAlways, PTL DEF Spec, ImplementsAtomicFile, Abstract!ASpec
=============================================================================
