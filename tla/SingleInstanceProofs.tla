------------------------ MODULE SingleInstanceProofs ------------------------
(***************************************************************************)
(* Theorems about SingleInstance: its type invariant; that a window holding *)
(* the mutex is alone and meets no other living server; that a request is   *)
(* opened once; that a close opens what it owes; and that no request is     *)
(* left with nothing to take it further.                                    *)
(*                                                                         *)
(* IInv carries the first two: the mutex is created only when nobody has   *)
(* it open, and a server end is open only in a process that still has the  *)
(* mutex, or in one that crashed.  For the type of a poll's requests one   *)
(* has to know that a server that reads has a client.  OnceInv says where  *)
(* a request can be, in one place at most; DrainInv that it is in one      *)
(* while its window lives, and what announces it there.                    *)
(***************************************************************************)
EXTENDS SingleInstance, FiniteSetTheorems, SequenceTheorems, TLAPS

PcStates == {"off", "existed", "notRunning", "connecting", "connected", "written", "window",
             "forwarded", "own", "gone", "crashed"}
UiStates == {"idle", "binding", "polling", "asking", "draining", "review", "leaving"}
PipeType == [server : Process \cup {None}, client : Process \cup {None},
             open : BOOLEAN, data : BOOLEAN]
SrvType == [op : {"connect", "read"}, inFlight : BOOLEAN,
            immediate : {"none", "done", "broken"}, event : BOOLEAN, filled : BOOLEAN,
            requests : Seq(Process), steps : 0..MaxSteps]
WinType == [ui : UiStates, restoring : BOOLEAN, posted : BOOLEAN, held : BOOLEAN,
            queue : Seq(Process)]

(* A server that reads, has read or made a completion up has a client.       *)
ServerHasClient ==
  srv.op = "read" \/ srv.filled \/ srv.immediate # "none" => pipe.client # None

(* Without a server end there is no server.                                  *)
NoServerWithoutPipe == pipe.server = None => srv = NoServer

(* At most one window has the mutex.                                         *)
OneHolder ==
  \A p, q \in Process : pc[p] = "window" /\ p \in handles /\ pc[q] = "window" /\ q \in handles
                          => p = q

(* The process of an open server end has the mutex, or crashed.              *)
ServerHolds ==
  pipe.server # None =>
    \/ pc[pipe.server] = "window" /\ pipe.server \in handles
    \/ pc[pipe.server] = "crashed"

(* A window that is leaving has dropped its pipe.                            *)
LeavingHasNoPipe == \A p \in Process : Ui(p, {"leaving"}) => pipe.server # p

(* A window that creates its pipe has it.                                    *)
BindingHasPipe == \A p \in Process : Ui(p, {"binding"}) => pipe.server = p

(* A process that has not claimed the mutex has no window.                   *)
OffIsIdle == \A p \in Process : pc[p] = "off" => win[p].ui = "idle"

IInv ==
  /\ TypeOK
  /\ ServerHasClient
  /\ NoServerWithoutPipe
  /\ OneHolder
  /\ ServerHolds
  /\ LeavingHasNoPipe
  /\ BindingHasPipe
  /\ OffIsIdle
-----------------------------------------------------------------------------
(* The type invariant in the names of this module.                           *)
LEMMA TypeParts ==
  TypeOK <=> /\ pc \in [Process -> PcStates]
             /\ handles \subseteq Process
             /\ pipe \in PipeType
             /\ srv \in SrvType
             /\ win \in [Process -> WinType]
             /\ opened \in [Process -> Nat]
             /\ target \in [Process -> Process \cup {None}]
             /\ owed \in [Process -> SUBSET Process]
<1>1. PcStates = Ended \cup {"off", "existed", "notRunning", "connecting", "connected",
                             "written", "window"}
  BY DEF PcStates, Ended
<1> QED BY <1>1 DEF TypeOK, PipeType, SrvType, WinType, UiStates

LEMMA NoneIsNoProcess == None \notin Process
BY LaunchAssumption DEF Process

(* How often a request is in a queue is a number.                            *)
LEMMA OpensIsNat ==
  ASSUME NEW q \in Process, NEW s \in Seq(Process)
  PROVE  Opens(q, s) \in Nat
<1>1. DOMAIN s = 1..Len(s) /\ Len(s) \in Nat
  BY LenProperties
<1>2. IsFiniteSet(1..Len(s))
  BY <1>1, FS_Interval
<1>3. IsFiniteSet({i \in DOMAIN s : s[i] = q})
  BY <1>1, <1>2, FS_Subset
<1> QED BY <1>3, FS_CardinalityType DEF Opens

LEMMA OpenAllType ==
  ASSUME opened \in [Process -> Nat], NEW s \in Seq(Process)
  PROVE  OpenAll(s) \in [Process -> Nat]
BY OpensIsNat DEF OpenAll

(* The pipe's helpers keep its type.                                         *)
LEMMA PipeTypes ==
  /\ NoPipe \in PipeType
  /\ \A p \in PipeType : WithoutServer(p) \in PipeType /\ WithoutClient(p) \in PipeType
  /\ \A p \in PipeType : WithoutServer(p).server = None
  /\ \A p \in PipeType : WithoutClient(p).server = p.server
  /\ \A p \in PipeType : p.server # None => WithoutClient(p).client = p.client
BY DEF NoPipe, PipeType, WithoutServer, WithoutClient

(* The server's helpers keep its type.                                       *)
LEMMA ServerTypes ==
  /\ NoServer \in SrvType
  /\ \A s \in SrvType : Reconnect(s) \in SrvType /\ BeginConnect(s) \in SrvType
  /\ \A s \in SrvType, data \in BOOLEAN : BeginRead(s, data) \in SrvType
<1>1. \A s \in SrvType, op \in {"connect", "read"} : Arm(s, op) \in SrvType
  BY DEF Arm, SrvType
<1>2. \A s \in SrvType, op \in {"connect", "read"} : InFlight(s, op) \in SrvType
  <2> SUFFICES ASSUME NEW s \in SrvType, NEW op \in {"connect", "read"}
               PROVE  InFlight(s, op) \in SrvType
    OBVIOUS
  <2>1. Arm(s, op) \in SrvType
    BY <1>1
  <2> QED BY <2>1 DEF InFlight, SrvType
<1>3. \A s \in SrvType, c \in {"done", "broken"} : Synthesize(s, c) \in SrvType
  BY DEF Synthesize, SrvType
<1>4. \A s \in SrvType : [s EXCEPT !.filled = FALSE] \in SrvType
  BY DEF SrvType
<1>5. NoServer \in SrvType
  BY StepAssumption DEF NoServer, SrvType
<1> QED BY <1>1, <1>2, <1>3, <1>4, <1>5 DEF Reconnect, BeginConnect, BeginRead

(* What the helpers leave of the operation, the frame and the completion.    *)
LEMMA ServerFields ==
  ASSUME NEW s \in SrvType, NEW data \in BOOLEAN
  PROVE  /\ Reconnect(s).op = "connect" /\ Reconnect(s).filled = FALSE
         /\ Reconnect(s).immediate = s.immediate
         /\ BeginConnect(s).op = "connect" /\ BeginConnect(s).filled = s.filled
         /\ pipe.client = None => BeginConnect(s).immediate = s.immediate
BY DEF SrvType, Reconnect, BeginConnect, Synthesize, InFlight, Arm
-----------------------------------------------------------------------------
(* One window's record changed: the type of the whole.                       *)
LEMMA WinChanges ==
  ASSUME win \in [Process -> WinType], NEW p \in Process, NEW w \in WinType,
         win' = [win EXCEPT ![p] = w]
  PROVE  /\ win' \in [Process -> WinType]
         /\ win'[p] = w
         /\ \A q \in Process \ {p} : win'[q] = win[q]
OBVIOUS

LEMMA InitHolds == Init => IInv
<1> SUFFICES ASSUME Init PROVE IInv
  OBVIOUS
<1>1. NoWindow \in WinType
  <2>1. <<>> \in Seq(Process)
    OBVIOUS
  <2> QED BY <2>1 DEF NoWindow, WinType, UiStates
<1>2. TypeOK
  BY <1>1, PipeTypes, ServerTypes, TypeParts DEF Init, PcStates
<1> QED
  BY <1>2, NoneIsNoProcess DEF Init, IInv, ServerHasClient, NoServerWithoutPipe, OneHolder, ServerHolds,
     LeavingHasNoPipe, BindingHasPipe, OffIsIdle, NoServer, NoPipe, NoWindow, Ui
(* What a completion leaves behind.                                          *)
LEMMA TakenFields ==
  ASSUME srv \in SrvType, srv.steps < MaxSteps
  PROVE  /\ Taken \in SrvType
         /\ Taken.op = srv.op /\ Taken.filled = srv.filled /\ Taken.requests = srv.requests
         /\ Taken.immediate = "none"
<1>1. srv.steps + 1 \in 0..MaxSteps
  BY StepAssumption DEF SrvType
<1>2. /\ TakeCompletion(srv) \in SrvType
      /\ TakeCompletion(srv).op = srv.op /\ TakeCompletion(srv).filled = srv.filled
      /\ TakeCompletion(srv).requests = srv.requests /\ TakeCompletion(srv).steps = srv.steps
      /\ TakeCompletion(srv).immediate = "none"
  BY DEF TakeCompletion, SrvType
<1> DEFINE t == TakeCompletion(srv)
<1>3. [t EXCEPT !.steps = @ + 1] \in SrvType /\ [t EXCEPT !.steps = @ + 1].immediate = "none"
      /\ [t EXCEPT !.steps = @ + 1].op = srv.op
      /\ [t EXCEPT !.steps = @ + 1].filled = srv.filled
      /\ [t EXCEPT !.steps = @ + 1].requests = srv.requests
  <2> HIDE DEF t
  <2>1. t \in SrvType /\ t.op = srv.op /\ t.filled = srv.filled /\ t.requests = srv.requests
        /\ t.steps = srv.steps /\ t.immediate = "none"
    BY <1>2 DEF t
  <2> QED BY <2>1, <1>1 DEF SrvType
<1> QED BY <1>3 DEF Taken

(* A broken pipe had a client.                                               *)
LEMMA BrokenHasClient ==
  ASSUME pipe \in PipeType, ServerHasClient, Completion = "broken"
  PROVE  pipe.client \in Process
<1>1. srv.immediate # "none" \/ srv.op = "read"
  BY DEF Completion, KernelCompletion
<1> QED BY <1>1 DEF ServerHasClient, PipeType

(* The requests of a poll, and the server at rest after it.                  *)
LEMMA PolledTypes ==
  ASSUME srv \in SrvType, NEW p \in Process
  PROVE  /\ Polled(p) \in Seq(Process) /\ Rested(p) \in SrvType
         /\ Rested(p).op = srv.op /\ Rested(p).filled = srv.filled
         /\ Rested(p).immediate = srv.immediate
<1>1. 0 \in 0..MaxSteps /\ <<>> \in Seq(Process)
  BY StepAssumption
<1> QED BY <1>1 DEF Polled, Rested, SrvType
-----------------------------------------------------------------------------
(* The launches of other processes leave a window as it is.                  *)
LEMMA TypeStep == IInv /\ Next => TypeOK'
<1> SUFFICES ASSUME IInv, Next PROVE TypeOK'
  OBVIOUS
<1>0. /\ pc \in [Process -> PcStates]
      /\ handles \subseteq Process
      /\ pipe \in PipeType
      /\ srv \in SrvType
      /\ win \in [Process -> WinType]
      /\ opened \in [Process -> Nat]
      /\ target \in [Process -> Process \cup {None}]
      /\ owed \in [Process -> SUBSET Process]
  BY TypeParts DEF IInv
<1> DEFINE Types == /\ pc \in [Process -> PcStates]
                    /\ handles \subseteq Process
                    /\ pipe \in PipeType
                    /\ srv \in SrvType
                    /\ win \in [Process -> WinType]
                    /\ opened \in [Process -> Nat]
                    /\ target \in [Process -> Process \cup {None}]
                    /\ owed \in [Process -> SUBSET Process]
<1>1. SUFFICES Types'
  BY TypeParts, PTL
<1>2. ASSUME NEW p \in Process PROVE win[p] \in WinType
  BY <1>0
<1>3. NoWindow \in WinType
  <2>1. <<>> \in Seq(Process)
    OBVIOUS
  <2> QED BY <2>1 DEF NoWindow, WinType, UiStates
<1>4. ASSUME NEW p \in Process, Claim(p) PROVE Types'
  BY <1>0, <1>4 DEF Claim, PcStates
<1>5. ASSUME NEW p \in Process, Independent(p) PROVE Types'
  BY <1>0, <1>5 DEF Independent, PcStates
<1>6. ASSUME NEW p \in Process, DropHandle(p) PROVE Types'
  BY <1>0, <1>6 DEF DropHandle, PcStates
<1>7. ASSUME NEW p \in Process, Connect(p) PROVE Types'
  BY <1>0, <1>7 DEF Connect, PcStates, PipeType, Listening
<1>8. ASSUME NEW p \in Process, GiveUp(p) PROVE Types'
  BY <1>0, <1>8 DEF GiveUp, PcStates
<1>9. ASSUME NEW p \in Process, Write(p) PROVE Types'
  BY <1>0, <1>9 DEF Write, PcStates, PipeType
<1>10. ASSUME NEW p \in Process, SendFails(p) PROVE Types'
  BY <1>0, <1>10, PipeTypes DEF SendFails, PcStates
<1>11. ASSUME NEW p \in Process, CloseClient(p) PROVE Types'
  BY <1>0, <1>11, PipeTypes DEF CloseClient, PcStates
<1>12. ASSUME NEW p \in Process, BindConnect(p) PROVE Types'
  <2>1. win' = [win EXCEPT ![p] = [win[p] EXCEPT !.ui = "idle"]]
    BY <1>12 DEF BindConnect
  <2>2. [win[p] EXCEPT !.ui = "idle"] \in WinType
    BY <1>2 DEF WinType, UiStates
  <2>3. win' \in [Process -> WinType]
    BY <1>0, <2>1, <2>2
  <2> QED BY <1>0, <1>12, <2>3, ServerTypes DEF BindConnect
<1>13. ASSUME NEW p \in Process, Wake(p) PROVE Types'
  <2>1. win' = [win EXCEPT ![p] = [win[p] EXCEPT !.ui = "polling"]]
    BY <1>13 DEF Wake
  <2>2. [win[p] EXCEPT !.ui = "polling"] \in WinType
    BY <1>2 DEF WinType, UiStates
  <2>3. win' \in [Process -> WinType]
    BY <1>0, <2>1, <2>2
  <2> QED BY <1>0, <1>13, <2>3 DEF Wake
<1>14. ASSUME NEW p \in Process, Handle(p) PROVE Types'
  <2>1. win[p].queue \in Seq(Process) /\ <<>> \in Seq(Process)
    BY <1>2 DEF WinType
  <2>2. OpenAll(win[p].queue) \in [Process -> Nat]
    BY <1>0, <2>1, OpenAllType
  <2>90. win[p] \in WinType
    BY <1>2
  <2>91. \E w \in {[win[p] EXCEPT !.posted = FALSE], [win[p] EXCEPT !.posted = FALSE, !.queue = <<>>]} :
           win' = [win EXCEPT ![p] = w]
    BY <1>14 DEF Handle
  <2>92. /\ [win[p] EXCEPT !.posted = FALSE] \in WinType
         /\ [win[p] EXCEPT !.posted = FALSE, !.queue = <<>>] \in WinType
    BY <2>90, <2>1 DEF WinType, UiStates
  <2>93. win' \in [Process -> WinType]
    BY <1>0, <2>91, <2>92
  <2>3. opened' \in [Process -> Nat]
    BY <1>0, <1>14, <2>2 DEF Handle
  <2> QED BY <1>0, <1>14, <2>3, <2>93 DEF Handle
<1>15. ASSUME NEW p \in Process, FinishRestore(p) PROVE Types'
  <2>1. win' = [win EXCEPT ![p] = [win[p] EXCEPT !.restoring = FALSE, !.posted = TRUE]]
    BY <1>15 DEF FinishRestore
  <2>2. [win[p] EXCEPT !.restoring = FALSE, !.posted = TRUE] \in WinType
    BY <1>2 DEF WinType, UiStates
  <2>3. win' \in [Process -> WinType]
    BY <1>0, <2>1, <2>2
  <2> QED BY <1>0, <1>15, <2>3 DEF FinishRestore
<1>16. ASSUME NEW p \in Process, Ask(p) PROVE Types'
  <2>1. win' = [win EXCEPT ![p] = [win[p] EXCEPT !.ui = "asking"]]
    BY <1>16 DEF Ask
  <2>2. [win[p] EXCEPT !.ui = "asking"] \in WinType
    BY <1>2 DEF WinType, UiStates
  <2>3. win' \in [Process -> WinType]
    BY <1>0, <2>1, <2>2
  <2> QED BY <1>0, <1>16, <2>3 DEF Ask
<1>17. ASSUME NEW p \in Process, HoldWhileModal(p) PROVE Types'
  <2>1. win' = [win EXCEPT ![p] = [win[p] EXCEPT !.posted = FALSE, !.held = TRUE]]
    BY <1>17 DEF HoldWhileModal
  <2>2. [win[p] EXCEPT !.posted = FALSE, !.held = TRUE] \in WinType
    BY <1>2 DEF WinType, UiStates
  <2>3. win' \in [Process -> WinType]
    BY <1>0, <2>1, <2>2
  <2> QED BY <1>0, <1>17, <2>3 DEF HoldWhileModal
<1>18. ASSUME NEW p \in Process, EndModal(p) PROVE Types'
  <2>90. win[p] \in WinType
    BY <1>2
  <2> DEFINE w == [win[p] EXCEPT !.ui = "idle", !.posted = @ \/ win[p].held, !.held = FALSE]
  <2>91. win' = [win EXCEPT ![p] = w]
    BY <1>0, <1>18 DEF EndModal
  <2>92. w \in WinType
    BY <2>90 DEF WinType, UiStates
  <2>93. win' \in [Process -> WinType]
    <3> HIDE DEF w
    <3> QED BY <1>0, <2>91, <2>92
  <2> QED BY <1>0, <1>18, <2>93 DEF EndModal
<1>19. ASSUME NEW p \in Process, BeginClose(p) PROVE Types'
  <2>1. win' = [win EXCEPT ![p] = [win[p] EXCEPT !.ui = "draining"]]
    BY <1>19 DEF BeginClose
  <2>2. [win[p] EXCEPT !.ui = "draining"] \in WinType
    BY <1>2 DEF WinType, UiStates
  <2>3. win' \in [Process -> WinType]
    BY <1>0, <2>1, <2>2
  <2> QED BY <1>0, <1>19, <2>3 DEF BeginClose
<1>20. ASSUME NEW p \in Process, DropPipe(p) PROVE Types'
  <2>1. win' = [win EXCEPT ![p] = [win[p] EXCEPT !.ui = "leaving"]]
    BY <1>20 DEF DropPipe
  <2>2. [win[p] EXCEPT !.ui = "leaving"] \in WinType
    BY <1>2 DEF WinType, UiStates
  <2>3. win' \in [Process -> WinType]
    BY <1>0, <2>1, <2>2
  <2> QED BY <1>0, <1>20, <2>3, PipeTypes, ServerTypes DEF DropPipe
<1>21. ASSUME NEW p \in Process, ReleaseMutex(p) PROVE Types'
  BY <1>0, <1>21, <1>3 DEF ReleaseMutex, PcStates
<1>22. ASSUME NEW p \in Process, Crash(p) PROVE Types'
  BY <1>0, <1>22, <1>3 DEF Crash, PcStates
<1>23. ASSUME NEW p \in Process, Rundown(p) PROVE Types'
  BY <1>0, <1>23, PipeTypes, ServerTypes DEF Rundown
<1>24. ASSUME NEW p \in Process, NEW restoring \in BOOLEAN, Bind(p, restoring) PROVE Types'
  <2>1. [NoPipe EXCEPT !.server = p] \in PipeType
    BY DEF NoPipe, PipeType
  <2>2. CASE Exists(pipe)
    <3>1. win' = [win EXCEPT ![p].restoring = restoring] /\ UNCHANGED <<pipe, srv>>
          /\ handles' = handles \ {p}
      BY <1>24, <2>2 DEF Bind
    <3>2. win' \in [Process -> WinType]
      BY <1>0, <3>1 DEF WinType
    <3> QED BY <1>0, <1>24, <3>1, <3>2 DEF Bind
  <2>3. CASE ~Exists(pipe)
    <3>90. win[p] \in WinType
      BY <1>2
    <3> DEFINE w == [ui |-> "binding", restoring |-> restoring, posted |-> win[p].posted, held |-> win[p].held, queue |-> win[p].queue]
    <3>91. win' = [win EXCEPT ![p] = w]
      BY <1>0, <1>24, <2>3, <3>90 DEF Bind, WinType
    <3>92. w \in WinType
      BY <3>90, <1>24 DEF WinType, UiStates
    <3>93. win' \in [Process -> WinType]
      <4> HIDE DEF w
      <4> QED BY <1>0, <3>91, <3>92
    <3> QED BY <1>0, <1>24, <2>1, <2>3, <3>93, ServerTypes DEF Bind
  <2> QED BY <2>2, <2>3
<1>25. ASSUME NEW p \in Process, PollConnected(p) PROVE Types'
  <2>1. Taken \in SrvType
    BY <1>0, <1>25, TakenFields DEF PollConnected, Step
  <2>2. [Taken EXCEPT !.filled = FALSE] \in SrvType /\ pipe.data \in BOOLEAN
    BY <1>0, <2>1 DEF SrvType, PipeType
  <2>3. srv' \in SrvType
    BY <1>25, <2>2, ServerTypes DEF PollConnected
  <2> QED BY <1>0, <1>25, <2>3 DEF PollConnected, Step
<1>26. ASSUME NEW p \in Process, PollRead(p) PROVE Types'
  <2>1. Taken \in SrvType
    BY <1>0, <1>26, TakenFields DEF PollRead, Step
  <2>2. [Taken EXCEPT !.filled = TRUE] \in SrvType
    BY <2>1 DEF SrvType
  <2>3. srv' \in SrvType
    BY <1>26, <2>2, ServerTypes DEF PollRead
  <2>4. pipe' \in PipeType
    BY <1>0, <1>26 DEF PollRead, PipeType
  <2> QED BY <1>0, <1>26, <2>3, <2>4 DEF PollRead, Step
<1>27. ASSUME NEW p \in Process, PollBroken(p) PROVE Types'
  <2>1. Taken \in SrvType
    BY <1>0, <1>27, TakenFields DEF PollBroken, Step
  <2>2. pipe.client \in Process
    BY <1>0, <1>27, BrokenHasClient DEF PollBroken, Step, IInv
  <2>3. Taken.requests \in Seq(Process) /\ Append(Taken.requests, pipe.client) \in Seq(Process)
    BY <2>1, <2>2 DEF SrvType
  <2>4. [Taken EXCEPT !.requests = IF srv.filled THEN Append(@, pipe.client) ELSE @] \in SrvType
    BY <2>1, <2>3 DEF SrvType
  <2>5. srv' \in SrvType
    BY <1>27, <2>4, ServerTypes DEF PollBroken
  <2>6. pipe' \in PipeType
    BY <1>27 DEF PollBroken, PipeType, NoPipe
  <2> QED BY <1>0, <1>27, <2>5, <2>6 DEF PollBroken, Step
<1>28. ASSUME NEW p \in Process, EndPoll(p) PROVE Types'
  <2>1. srv' \in SrvType
    BY <1>0, <1>28, PolledTypes DEF EndPoll
  <2>2. win[p].queue \o Polled(p) \in Seq(Process)
    BY <1>0, <1>2, PolledTypes, ConcatProperties DEF WinType
  <2>90. win[p] \in WinType
    BY <1>2
  <2> DEFINE w == [win[p] EXCEPT !.ui = "idle", !.queue = @ \o Polled(p),
                                !.posted = @ \/ Polled(p) # <<>>]
  <2>91. win' = [win EXCEPT ![p] = w]
    BY <1>0, <1>28 DEF EndPoll
  <2>92. w \in WinType
    BY <2>90, <2>2 DEF WinType, UiStates
  <2>93. win' \in [Process -> WinType]
    <3> HIDE DEF w
    <3> QED BY <1>0, <2>91, <2>92
  <2> QED BY <1>0, <1>28, <2>1, <2>93 DEF EndPoll
<1>29. ASSUME NEW p \in Process, EndDrain(p) PROVE Types'
  <2>1. srv' \in SrvType
    BY <1>0, <1>29, PolledTypes DEF EndDrain
  <2>2. win[p].queue \o Polled(p) \in Seq(Process) /\ <<>> \in Seq(Process)
    BY <1>0, <1>2, PolledTypes, ConcatProperties DEF WinType
  <2>3. opened' \in [Process -> Nat]
    BY <1>0, <1>29, <2>2, OpenAllType DEF EndDrain
  <2>90. win[p] \in WinType
    BY <1>2
  <2> DEFINE w == [win[p] EXCEPT !.ui = "review", !.queue = <<>>,
                                !.posted = @ \/ Polled(p) # <<>>]
  <2>91. win' = [win EXCEPT ![p] = w]
    BY <1>0, <1>29 DEF EndDrain
  <2>92. w \in WinType
    BY <2>90, <2>2 DEF WinType, UiStates
  <2>93. win' \in [Process -> WinType]
    <3> HIDE DEF w
    <3> QED BY <1>0, <2>91, <2>92
  <2> QED BY <1>0, <1>29, <2>1, <2>3, <2>93 DEF EndDrain
<1> HIDE DEF Types
<1> QED
  BY <1>4, <1>5, <1>6, <1>7, <1>8, <1>9, <1>10, <1>11, <1>12, <1>13, <1>14, <1>15, <1>16, <1>17, <1>18, <1>19, <1>20, <1>21, <1>22, <1>23, <1>24, <1>25, <1>26, <1>27, <1>28, <1>29 DEF Next, Launch, Thread, Poll
-----------------------------------------------------------------------------
(* What a server reads it has a client for: a client leaves its place only   *)
(* when the server ends the connection, or has no end open any more.         *)
LEMMA ClientStep == IInv /\ Next => ServerHasClient' /\ NoServerWithoutPipe'
<1> SUFFICES ASSUME IInv, Next PROVE ServerHasClient' /\ NoServerWithoutPipe'
  OBVIOUS
<1>0. /\ pipe \in PipeType /\ srv \in SrvType
      /\ ServerHasClient /\ NoServerWithoutPipe
      /\ None \notin Process
  BY TypeParts, NoneIsNoProcess DEF IInv
<1> USE DEF ServerHasClient, NoServerWithoutPipe
<1>1. NoServer.op = "connect" /\ NoServer.filled = FALSE /\ NoServer.immediate = "none"
  BY DEF NoServer
<1>2. CASE UNCHANGED <<pipe, srv>>
  BY <1>0, <1>2
<1>3. ASSUME NEW p \in Process, Connect(p) PROVE ServerHasClient' /\ NoServerWithoutPipe'
  BY <1>0, <1>3 DEF Connect, PipeType
<1>4. ASSUME NEW p \in Process, Write(p) PROVE ServerHasClient' /\ NoServerWithoutPipe'
  BY <1>0, <1>4 DEF Write, PipeType
<1>5. ASSUME NEW p \in Process, SendFails(p) PROVE ServerHasClient' /\ NoServerWithoutPipe'
  BY <1>0, <1>1, <1>5, PipeTypes DEF SendFails
<1>6. ASSUME NEW p \in Process, CloseClient(p) PROVE ServerHasClient' /\ NoServerWithoutPipe'
  BY <1>0, <1>1, <1>6, PipeTypes DEF CloseClient
<1>7. ASSUME NEW p \in Process, NEW restoring \in BOOLEAN, Bind(p, restoring)
      PROVE  ServerHasClient' /\ NoServerWithoutPipe'
  BY <1>0, <1>1, <1>7 DEF Bind, NoPipe
<1>8. ASSUME NEW p \in Process, BindConnect(p) PROVE ServerHasClient' /\ NoServerWithoutPipe'
  <2>1. pipe.server = p
    BY <1>8 DEF BindConnect, IInv, BindingHasPipe
  <2> QED BY <1>0, <1>8, <2>1, ServerFields DEF BindConnect, BeginConnect, Synthesize, InFlight, Arm, SrvType
<1>9. ASSUME NEW p \in Process, PollConnected(p) \/ PollRead(p)
      PROVE  ServerHasClient' /\ NoServerWithoutPipe'
  <2>1. pipe.server # None
    BY <1>0, <1>9 DEF PollConnected, PollRead, Step
  <2>2. pipe.client # None
    BY <1>0, <1>9 DEF PollConnected, PollRead, Step, Completion, KernelCompletion
  <2>3. pipe'.client = pipe.client /\ pipe'.server = pipe.server
    BY <1>0, <1>9 DEF PollConnected, PollRead, PipeType
  <2> QED BY <2>1, <2>2, <2>3
<1>10. ASSUME NEW p \in Process, PollBroken(p) PROVE ServerHasClient' /\ NoServerWithoutPipe'
  <2> DEFINE t == [Taken EXCEPT !.requests = IF srv.filled THEN Append(@, pipe.client) ELSE @]
  <2>1. Taken \in SrvType /\ Taken.immediate = "none"
    BY <1>0, <1>10, TakenFields DEF PollBroken, Step
  <2>2. t.immediate = "none" /\ srv' = Reconnect(t)
    BY <1>10, <2>1 DEF PollBroken, SrvType
  <2>3. srv'.op = "connect" /\ srv'.filled = FALSE /\ srv'.immediate = "none"
    <3>1. DOMAIN t = DOMAIN Taken
      OBVIOUS
    <3> QED BY <2>1, <2>2 DEF Reconnect, InFlight, Arm, SrvType
  <2>4. pipe'.server = p
    BY <1>10 DEF PollBroken, NoPipe
  <2> QED BY <1>0, <2>3, <2>4
<1>11. ASSUME NEW p \in Process, EndPoll(p) \/ EndDrain(p)
       PROVE  ServerHasClient' /\ NoServerWithoutPipe'
  BY <1>0, <1>11, PolledTypes DEF EndPoll, EndDrain, Rested
<1>12. ASSUME NEW p \in Process, DropPipe(p) PROVE ServerHasClient' /\ NoServerWithoutPipe'
  BY <1>0, <1>1, <1>12, PipeTypes DEF DropPipe
<1>13. ASSUME NEW p \in Process, Rundown(p) PROVE ServerHasClient' /\ NoServerWithoutPipe'
  BY <1>0, <1>1, <1>13, PipeTypes DEF Rundown
<1> QED
  BY <1>2, <1>3, <1>4, <1>5, <1>6, <1>7, <1>8, <1>9, <1>10, <1>11, <1>12, <1>13
  DEF Next, Launch, Thread, Poll, Claim, Independent, DropHandle, GiveUp, Wake, Handle,
      FinishRestore, Ask, HoldWhileModal, EndModal, BeginClose, ReleaseMutex, Crash
-----------------------------------------------------------------------------
(* The mutex and the server ends.                                            *)
MutexInv == OneHolder /\ ServerHolds /\ LeavingHasNoPipe /\ BindingHasPipe /\ OffIsIdle

LEMMA MutexStep == IInv /\ Next => MutexInv'
<1> SUFFICES ASSUME IInv, Next PROVE MutexInv'
  OBVIOUS
<1>0. /\ pc \in [Process -> PcStates] /\ handles \subseteq Process
      /\ pipe \in PipeType /\ win \in [Process -> WinType]
      /\ OneHolder /\ ServerHolds /\ LeavingHasNoPipe /\ BindingHasPipe /\ OffIsIdle
      /\ None \notin Process
  BY TypeParts, NoneIsNoProcess DEF IInv
<1> USE DEF MutexInv, OneHolder, ServerHolds, LeavingHasNoPipe, BindingHasPipe, OffIsIdle, Ui
<1>1. ASSUME NEW p \in Process, Claim(p) PROVE MutexInv'
  BY <1>0, <1>1 DEF Claim
<1>2. ASSUME NEW p \in Process, Independent(p) PROVE MutexInv'
  BY <1>0, <1>2 DEF Independent
<1>3. ASSUME NEW p \in Process, DropHandle(p) PROVE MutexInv'
  BY <1>0, <1>3 DEF DropHandle
<1>4. ASSUME NEW p \in Process, Connect(p) PROVE MutexInv'
  BY <1>0, <1>4 DEF Connect, PipeType
<1>5. ASSUME NEW p \in Process, GiveUp(p) PROVE MutexInv'
  BY <1>0, <1>5 DEF GiveUp
<1>6. ASSUME NEW p \in Process, Write(p) PROVE MutexInv'
  BY <1>0, <1>6 DEF Write, PipeType
<1>7. ASSUME NEW p \in Process, SendFails(p) PROVE MutexInv'
  BY <1>0, <1>7, PipeTypes DEF SendFails
<1>8. ASSUME NEW p \in Process, CloseClient(p) PROVE MutexInv'
  <2>1. pipe'.server = pipe.server
    BY <1>0, <1>8, PipeTypes DEF CloseClient
  <2> QED BY <1>0, <1>8, <2>1 DEF CloseClient
<1>9. ASSUME NEW p \in Process, NEW restoring \in BOOLEAN, Bind(p, restoring) PROVE MutexInv'
  <2>1. CASE Exists(pipe)
    BY <1>0, <1>9, <2>1 DEF Bind, WinType
  <2>2. CASE ~Exists(pipe)
    <3>1. pipe'.server = p /\ pipe.server = None
      BY <1>9, <2>2 DEF Bind, NoPipe, Exists
    <3>2. win'[p].ui = "binding" /\ \A q \in Process \ {p} : win'[q].ui = win[q].ui
      <4>1. win' = [win EXCEPT ![p] = [win[p] EXCEPT !.restoring = restoring, !.ui = "binding"]]
        BY <1>9, <2>2 DEF Bind
      <4> QED BY <1>0, <4>1 DEF WinType
    <3> QED BY <1>0, <1>9, <2>2, <3>1, <3>2 DEF Bind
  <2> QED BY <2>1, <2>2
<1>10. ASSUME NEW p \in Process, BindConnect(p) PROVE MutexInv'
  BY <1>0, <1>10 DEF BindConnect, WinType
<1>11. ASSUME NEW p \in Process, Wake(p) PROVE MutexInv'
  BY <1>0, <1>11 DEF Wake, WinType
<1>12. ASSUME NEW p \in Process, PollConnected(p) PROVE MutexInv'
  BY <1>0, <1>12 DEF PollConnected, Step
<1>13. ASSUME NEW p \in Process, PollRead(p) PROVE MutexInv'
  BY <1>0, <1>13 DEF PollRead, Step, PipeType
<1>14. ASSUME NEW p \in Process, PollBroken(p) PROVE MutexInv'
  BY <1>0, <1>14 DEF PollBroken, Step, NoPipe
<1>15. ASSUME NEW p \in Process, EndPoll(p) PROVE MutexInv'
  BY <1>0, <1>15 DEF EndPoll, WinType
<1>16. ASSUME NEW p \in Process, Handle(p) PROVE MutexInv'
  <2>1. \A q \in Process : win'[q].ui = win[q].ui
    <3>1. CASE win[p].restoring
      <4>1. win' = [win EXCEPT ![p].posted = FALSE]
        BY <1>16, <3>1 DEF Handle
      <4> QED BY <1>0, <4>1 DEF WinType
    <3>2. CASE ~win[p].restoring
      <4>1. win' = [win EXCEPT ![p] = [win[p] EXCEPT !.posted = FALSE, !.queue = <<>>]]
        BY <1>16, <3>2 DEF Handle
      <4> QED BY <1>0, <4>1 DEF WinType
    <3> QED BY <3>1, <3>2
  <2> QED BY <1>0, <1>16, <2>1 DEF Handle
<1>17. ASSUME NEW p \in Process, FinishRestore(p) PROVE MutexInv'
  BY <1>0, <1>17 DEF FinishRestore, WinType
<1>18. ASSUME NEW p \in Process, Ask(p) PROVE MutexInv'
  BY <1>0, <1>18 DEF Ask, WinType
<1>19. ASSUME NEW p \in Process, HoldWhileModal(p) PROVE MutexInv'
  BY <1>0, <1>19 DEF HoldWhileModal, WinType
<1>20. ASSUME NEW p \in Process, EndModal(p) PROVE MutexInv'
  BY <1>0, <1>20 DEF EndModal, WinType
<1>21. ASSUME NEW p \in Process, BeginClose(p) PROVE MutexInv'
  BY <1>0, <1>21 DEF BeginClose, WinType
<1>22. ASSUME NEW p \in Process, EndDrain(p) PROVE MutexInv'
  BY <1>0, <1>22 DEF EndDrain, WinType
<1>23. ASSUME NEW p \in Process, DropPipe(p) PROVE MutexInv'
  <2>1. pipe'.server # p /\ (pipe.server # p => pipe'.server = pipe.server)
    BY <1>0, <1>23, PipeTypes DEF DropPipe
  <2>2. pipe'.server \in {None, pipe.server}
    BY <1>0, <1>23, PipeTypes DEF DropPipe
  <2>3. win'[p].ui = "leaving" /\ \A q \in Process \ {p} : win'[q].ui = win[q].ui
    BY <1>0, <1>23 DEF DropPipe, WinType
  <2> QED BY <1>0, <1>23, <2>1, <2>2, <2>3 DEF DropPipe
<1>24. ASSUME NEW p \in Process, ReleaseMutex(p) PROVE MutexInv'
  BY <1>0, <1>24 DEF ReleaseMutex, NoWindow
<1>25. ASSUME NEW p \in Process, Crash(p) PROVE MutexInv'
  BY <1>0, <1>25 DEF Crash, NoWindow
<1>26. ASSUME NEW p \in Process, Rundown(p) PROVE MutexInv'
  <2>1. /\ pipe'.server = pipe.server \/ (pipe'.server = None /\ pipe.server = p)
        /\ handles' = handles \/ (handles' = handles \ {p} /\ pipe'.server = pipe.server)
    BY <1>0, <1>26, PipeTypes DEF Rundown
  <2>2. pc[p] = "crashed" /\ UNCHANGED <<pc, win>>
    BY <1>26 DEF Rundown
  <2> QED BY <1>0, <1>26, <2>1, <2>2
<1> QED
  BY <1>1, <1>2, <1>3, <1>4, <1>5, <1>6, <1>7, <1>8, <1>9, <1>10, <1>11, <1>12, <1>13, <1>14, <1>15, <1>16, <1>17, <1>18, <1>19, <1>20, <1>21, <1>22, <1>23, <1>24, <1>25, <1>26 DEF Next, Launch, Thread, Poll
-----------------------------------------------------------------------------
LEMMA Inductive == IInv /\ [Next]_vars => IInv'
<1> SUFFICES ASSUME IInv, [Next]_vars PROVE IInv'
  OBVIOUS
<1>1. CASE Next
  BY <1>1, TypeStep, ClientStep, MutexStep DEF IInv, MutexInv
<1>2. CASE UNCHANGED vars
  <2>1. TypeOK'
    BY <1>2 DEF vars, IInv, TypeOK
  <2> QED
    BY <1>2, <2>1 DEF vars, IInv, ServerHasClient, NoServerWithoutPipe, OneHolder, ServerHolds,
       LeavingHasNoPipe, BindingHasPipe, OffIsIdle, Ui
<1> QED BY <1>1, <1>2

THEOREM Invariance == Spec => []IInv
<1>1. Init => IInv
  BY InitHolds
<1>2. IInv /\ [Next]_vars => IInv'
  BY Inductive
<1> QED BY <1>1, <1>2, PTL DEF Spec

(* Every variable keeps its kind.                                            *)
THEOREM TypeSafe == Spec => []TypeOK
<1>1. IInv => TypeOK
  BY DEF IInv
<1> QED BY <1>1, Invariance, PTL

(* A window that holds the mutex is the only one to, and meets no other      *)
(* living server where it creates its pipe, for any number of launches.      *)
THEOREM PrimaryIsAlone == Spec => []PrimaryMeetsNoServer
<1>1. IInv => PrimaryMeetsNoServer
  BY DEF IInv, PrimaryMeetsNoServer, OneHolder, ServerHolds, TypeOK
<1> QED BY <1>1, Invariance, PTL
-----------------------------------------------------------------------------
(* Where a request is on its way: in the pipe or read from it, taken by the  *)
(* poll under way, in a window's queue, opened.  It is in one place at most, *)
(* once, and its launch wrote it and did nothing else with it.               *)
Elem(q, s) == \E i \in DOMAIN s : s[i] = q
Distinct(s) == \A i, j \in DOMAIN s : s[i] = s[j] => i = j
Frame(q) == pipe.client = q /\ (pipe.data \/ srv.filled)
Sent(q) == pc[q] \in {"written", "forwarded", "crashed"}

EachOnce ==
  /\ Distinct(srv.requests)
  /\ \A p \in Process : Distinct(win[p].queue)
  /\ \A q \in Process : opened[q] \in {0, 1}

TakenApart ==
  \A q \in Process :
    Elem(q, srv.requests) => opened[q] = 0 /\ Sent(q) /\ \A p \in Process : ~Elem(q, win[p].queue)

QueuedApart ==
  \A q, p \in Process :
    Elem(q, win[p].queue) => opened[q] = 0 /\ Sent(q)
                             /\ \A r \in Process \ {p} : ~Elem(q, win[r].queue)

FrameApart ==
  \A q \in Process :
    Frame(q) => /\ opened[q] = 0 /\ Sent(q)
                /\ ~Elem(q, srv.requests)
                /\ \A p \in Process : ~Elem(q, win[p].queue)

OpenedWasSent == \A q \in Process : opened[q] = 1 => Sent(q)

(* A process that sends is in the pipe, with its end open.                   *)
SenderInPipe ==
  /\ \A q \in Process : pc[q] \in {"connected", "written"} => pipe.client = q /\ pipe.open
  /\ srv.immediate = "broken" => ~pipe.open
  /\ srv.immediate = "done" => srv.op = "connect"
  /\ pipe.client = None => ~pipe.data

OnceInv ==
  /\ EachOnce
  /\ TakenApart
  /\ QueuedApart
  /\ FrameApart
  /\ OpenedWasSent
  /\ SenderInPipe

LEMMA EmptyFacts == \A q \in Process : ~Elem(q, <<>>)
BY DEF Elem

LEMMA EmptyDistinct == Distinct(<<>>)
BY DEF Distinct

LEMMA AppendFacts ==
  ASSUME NEW s \in Seq(Process), NEW x \in Process
  PROVE  /\ \A q \in Process : Elem(q, Append(s, x)) <=> Elem(q, s) \/ q = x
         /\ Distinct(s) /\ ~Elem(x, s) => Distinct(Append(s, x))
<1>1. /\ Append(s, x) \in Seq(Process) /\ Len(Append(s, x)) = Len(s) + 1 /\ Len(s) \in Nat
      /\ \A i \in 1..Len(s) : Append(s, x)[i] = s[i]
      /\ Append(s, x)[Len(s) + 1] = x
  BY AppendProperties, LenProperties
<1>2. DOMAIN s = 1..Len(s) /\ DOMAIN Append(s, x) = 1..(Len(s) + 1)
  BY <1>1, LenProperties
<1> QED BY <1>1, <1>2 DEF Elem, Distinct

LEMMA ConcatFacts ==
  ASSUME NEW s \in Seq(Process), NEW t \in Seq(Process)
  PROVE  /\ s \o t \in Seq(Process)
         /\ \A q \in Process : Elem(q, s \o t) <=> Elem(q, s) \/ Elem(q, t)
         /\ Distinct(s) /\ Distinct(t) /\ (\A q \in Process : ~(Elem(q, s) /\ Elem(q, t)))
              => Distinct(s \o t)
<1>1. /\ s \o t \in Seq(Process)
      /\ Len(s) \in Nat /\ Len(t) \in Nat /\ Len(s \o t) = Len(s) + Len(t)
      /\ \A i \in 1..Len(s \o t) : (s \o t)[i] = IF i <= Len(s) THEN s[i] ELSE t[i - Len(s)]
  BY ConcatProperties, LenProperties
<1>2. DOMAIN s = 1..Len(s) /\ DOMAIN t = 1..Len(t) /\ DOMAIN (s \o t) = 1..(Len(s) + Len(t))
  BY <1>1, LenProperties
<1>3. /\ \A i \in DOMAIN s : s[i] \in Process
      /\ \A i \in DOMAIN t : t[i] \in Process
  BY <1>2, ElementOfSeq
<1>4. ASSUME NEW q \in Process PROVE Elem(q, s \o t) <=> Elem(q, s) \/ Elem(q, t)
  <2>1. ASSUME Elem(q, s \o t) PROVE Elem(q, s) \/ Elem(q, t)
    BY <1>1, <1>2, <2>1 DEF Elem
  <2>2. ASSUME Elem(q, s) PROVE Elem(q, s \o t)
    BY <1>1, <1>2, <2>2 DEF Elem
  <2>3. ASSUME Elem(q, t) PROVE Elem(q, s \o t)
    <3>1. PICK i \in 1..Len(t) : t[i] = q
      BY <1>2, <2>3 DEF Elem
    <3>2. i + Len(s) \in 1..(Len(s) + Len(t)) /\ (s \o t)[i + Len(s)] = q
      BY <1>1, <3>1
    <3> QED BY <1>2, <3>2 DEF Elem
  <2> QED BY <2>1, <2>2, <2>3
<1>5. ASSUME Distinct(s), Distinct(t), \A q \in Process : ~(Elem(q, s) /\ Elem(q, t))
      PROVE  Distinct(s \o t)
  <2> SUFFICES ASSUME NEW i \in 1..(Len(s) + Len(t)), NEW j \in 1..(Len(s) + Len(t)),
                      (s \o t)[i] = (s \o t)[j]
               PROVE  i = j
    BY <1>2 DEF Distinct
  <2>1. ASSUME NEW k \in 1..Len(s), NEW l \in 1..Len(t) PROVE s[k] # t[l]
    BY <1>2, <1>3, <1>5 DEF Elem
  <2>2. CASE i <= Len(s) /\ j <= Len(s)
    BY <1>1, <1>2, <1>5, <2>2 DEF Distinct
  <2>3. CASE i > Len(s) /\ j > Len(s)
    <3>1. i - Len(s) \in DOMAIN t /\ j - Len(s) \in DOMAIN t
      BY <1>1, <1>2, <2>3
    <3>2. t[i - Len(s)] = t[j - Len(s)]
      BY <1>1, <2>3
    <3>3. i - Len(s) = j - Len(s)
      BY <1>5, <3>1, <3>2 DEF Distinct
    <3> QED BY <1>1, <3>3
  <2>4. CASE (i <= Len(s)) # (j <= Len(s))
    BY <1>1, <2>1, <2>4
  <2> QED BY <1>1, <2>2, <2>3, <2>4
<1> QED BY <1>1, <1>4, <1>5

(* What a queue without repetition adds to the count of a request.           *)
LEMMA OpensDistinct ==
  ASSUME NEW q \in Process, NEW s \in Seq(Process), Distinct(s)
  PROVE  Opens(q, s) = IF Elem(q, s) THEN 1 ELSE 0
<1>1. CASE Elem(q, s)
  <2>1. PICK i \in DOMAIN s : s[i] = q
    BY <1>1 DEF Elem
  <2>2. {j \in DOMAIN s : s[j] = q} = {i}
    BY <2>1 DEF Distinct
  <2> QED BY <1>1, <2>2, FS_Singleton DEF Opens
<1>2. CASE ~Elem(q, s)
  <2>1. {j \in DOMAIN s : s[j] = q} = {}
    BY <1>2 DEF Elem
  <2> QED BY <1>2, <2>1, FS_EmptySet DEF Opens
<1> QED BY <1>1, <1>2

(* A step that opens nothing and queues nothing new keeps requests apart.    *)
LEMMA FewerStep ==
  ASSUME OnceInv, opened' = opened,
         srv'.requests \in {srv.requests, <<>>},
         \A p \in Process : win'[p].queue \in {win[p].queue, <<>>},
         \A q \in Process : Sent(q) => Sent(q)',
         \A q \in Process : Frame(q)' => Frame(q) \/ (~Sent(q) /\ Sent(q)'),
         SenderInPipe'
  PROVE  OnceInv'
<1>0. /\ Distinct(srv'.requests)
      /\ \A q \in Process : Elem(q, srv'.requests) => Elem(q, srv.requests)
      /\ \A p \in Process : Distinct(win'[p].queue)
      /\ \A p, q \in Process : Elem(q, win'[p].queue) => Elem(q, win[p].queue)
  BY EmptyFacts, EmptyDistinct DEF OnceInv, EachOnce
<1>1. EachOnce'
  BY <1>0 DEF OnceInv, EachOnce
<1>2. TakenApart'
  BY <1>0 DEF OnceInv, TakenApart
<1>3. QueuedApart'
  BY <1>0 DEF OnceInv, QueuedApart
<1>4. OpenedWasSent'
  BY DEF OnceInv, OpenedWasSent
<1>5. FrameApart'
  BY <1>0 DEF OnceInv, FrameApart, TakenApart, QueuedApart, OpenedWasSent, EachOnce
<1> QED BY <1>1, <1>2, <1>3, <1>4, <1>5 DEF OnceInv

LEMMA OnceStep == IInv /\ OnceInv /\ Next => OnceInv'
<1> SUFFICES ASSUME IInv, OnceInv, Next PROVE OnceInv'
  OBVIOUS
<1>0. /\ pc \in [Process -> PcStates] /\ pipe \in PipeType /\ srv \in SrvType
      /\ win \in [Process -> WinType] /\ opened \in [Process -> Nat]
      /\ ServerHasClient /\ NoServerWithoutPipe
      /\ None \notin Process
      /\ SenderInPipe
  BY TypeParts, NoneIsNoProcess DEF IInv, OnceInv
<1> DEFINE Fewer == /\ opened' = opened
                    /\ srv'.requests \in {srv.requests, <<>>}
                    /\ \A p \in Process : win'[p].queue \in {win[p].queue, <<>>}
           Senders == /\ \A q \in Process : Sent(q) => Sent(q)'
                      /\ \A q \in Process : Frame(q)' => Frame(q) \/ (~Sent(q) /\ Sent(q)')
                      /\ SenderInPipe'
<1>1. ASSUME Fewer, Senders PROVE OnceInv'
  BY <1>1, FewerStep
<1>2. ASSUME NEW p \in Process, Claim(p) PROVE OnceInv'
  <2>1. Fewer
    BY <1>0, <1>2 DEF Claim
  <2>2. Senders
    BY <1>0, <1>2 DEF Claim, Sent, Frame, SenderInPipe
  <2> QED BY <1>1, <2>1, <2>2
<1>3. ASSUME NEW p \in Process, Independent(p) PROVE OnceInv'
  <2>1. Fewer
    BY <1>0, <1>3 DEF Independent
  <2>2. Senders
    BY <1>0, <1>3 DEF Independent, Sent, Frame, SenderInPipe
  <2> QED BY <1>1, <2>1, <2>2
<1>4. ASSUME NEW p \in Process, DropHandle(p) PROVE OnceInv'
  <2>1. Fewer
    BY <1>0, <1>4 DEF DropHandle
  <2>2. Senders
    BY <1>0, <1>4 DEF DropHandle, Sent, Frame, SenderInPipe
  <2> QED BY <1>1, <2>1, <2>2
<1>5. ASSUME NEW p \in Process, Connect(p) PROVE OnceInv'
  <2>1. Fewer
    BY <1>0, <1>5 DEF Connect, PipeType, Listening, ServerHasClient
  <2>2. Senders
    BY <1>0, <1>5 DEF Connect, PipeType, Listening, ServerHasClient, Sent, Frame, SenderInPipe
  <2> QED BY <1>1, <2>1, <2>2
<1>6. ASSUME NEW p \in Process, GiveUp(p) PROVE OnceInv'
  <2>1. Fewer
    BY <1>0, <1>6 DEF GiveUp
  <2>2. Senders
    BY <1>0, <1>6 DEF GiveUp, Sent, Frame, SenderInPipe
  <2> QED BY <1>1, <2>1, <2>2
<1>7. ASSUME NEW p \in Process, Write(p) PROVE OnceInv'
  <2>1. Fewer
    BY <1>0, <1>7 DEF Write, PipeType
  <2>2. Senders
    BY <1>0, <1>7 DEF Write, PipeType, Sent, Frame, SenderInPipe
  <2> QED BY <1>1, <2>1, <2>2
<1>8. ASSUME NEW p \in Process, SendFails(p) PROVE OnceInv'
  <2>1. Fewer
    BY <1>0, <1>8 DEF SendFails, NoServerWithoutPipe, NoServer, WithoutClient, NoPipe, PipeType
  <2>2. Senders
    BY <1>0, <1>8 DEF SendFails, NoServerWithoutPipe, NoServer, WithoutClient, NoPipe, PipeType, Sent, Frame, SenderInPipe
  <2> QED BY <1>1, <2>1, <2>2
<1>9. ASSUME NEW p \in Process, CloseClient(p) PROVE OnceInv'
  <2>1. Fewer
    BY <1>0, <1>9 DEF CloseClient, WithoutClient, NoPipe, PipeType, NoServerWithoutPipe, NoServer
  <2>2. Senders
    BY <1>0, <1>9 DEF CloseClient, WithoutClient, NoPipe, PipeType, NoServerWithoutPipe, NoServer, Sent, Frame, SenderInPipe
  <2> QED BY <1>1, <2>1, <2>2
<1>10. ASSUME NEW p \in Process, NEW restoring \in BOOLEAN, Bind(p, restoring) PROVE OnceInv'
  <2>1. CASE Exists(pipe)
    <3>1. /\ win' = [win EXCEPT ![p].restoring = restoring]
          /\ pipe' = pipe /\ srv' = srv /\ pc' = pc /\ opened' = opened
      BY <1>10, <2>1 DEF Bind
    <3>2. Fewer
      BY <1>0, <3>1 DEF WinType
    <3>3. Senders
      BY <1>0, <3>1 DEF Sent, Frame, SenderInPipe
    <3> QED BY <1>1, <3>2, <3>3
  <2>2. CASE ~Exists(pipe)
    <3>1. /\ srv' = NoServer /\ pipe' = [NoPipe EXCEPT !.server = p]
          /\ pc' = pc /\ opened' = opened
          /\ pipe.server = None /\ ~pipe.open
      BY <1>10, <2>2 DEF Bind, Exists
    <3>2. \A q \in Process : win'[q].queue = win[q].queue
      <4>1. win' = [win EXCEPT ![p] = [win[p] EXCEPT !.restoring = restoring, !.ui = "binding"]]
        BY <1>10, <2>2 DEF Bind
      <4> QED BY <1>0, <4>1 DEF WinType
    <3>3. Fewer
      BY <1>0, <3>1, <3>2 DEF NoServer
    <3>4. Senders
      BY <1>0, <3>1 DEF Sent, Frame, SenderInPipe, NoServer, NoPipe
    <3> QED BY <1>1, <3>3, <3>4
  <2> QED BY <2>1, <2>2
<1>11. ASSUME NEW p \in Process, BindConnect(p) PROVE OnceInv'
  <2>1. Fewer /\ srv'.filled = srv.filled
    BY <1>0, <1>11 DEF BindConnect, WinType, BeginConnect, Synthesize, InFlight, Arm, SrvType
  <2>2. Senders
    BY <1>0, <1>11, <2>1
    DEF BindConnect, Sent, Frame, SenderInPipe, BeginConnect, Synthesize, InFlight, Arm, SrvType
  <2> QED BY <1>1, <2>1, <2>2
<1>12. ASSUME NEW p \in Process, Wake(p) PROVE OnceInv'
  <2>1. Fewer
    BY <1>0, <1>12 DEF Wake, WinType
  <2>2. Senders
    BY <1>0, <1>12 DEF Wake, WinType, Sent, Frame, SenderInPipe
  <2> QED BY <1>1, <2>1, <2>2
<1>13. ASSUME NEW p \in Process, PollConnected(p) PROVE OnceInv'
  <2> DEFINE t == [Taken EXCEPT !.filled = FALSE]
  <2>1. /\ Taken \in SrvType /\ Taken.requests = srv.requests /\ Taken.immediate = "none"
    BY <1>0, <1>13, TakenFields DEF PollConnected, Step
  <2>2. t \in SrvType /\ t.requests = srv.requests /\ t.immediate = "none" /\ t.filled = FALSE
    BY <2>1 DEF SrvType
  <2>3. srv' = BeginRead(t, pipe.data)
    BY <1>13 DEF PollConnected
  <2>4. /\ srv'.requests = srv.requests /\ srv'.filled = FALSE
        /\ srv'.immediate \in {"none", "broken"}
        /\ srv'.immediate = "broken" => ~pipe.open
    <3> HIDE DEF t
    <3> QED BY <1>0, <2>2, <2>3 DEF BeginRead, Synthesize, InFlight, Arm, SrvType, PipeType
  <2>5. Fewer
    BY <1>0, <1>13, <2>4 DEF PollConnected, Step
  <2>6. Senders
    BY <1>0, <1>13, <2>4 DEF PollConnected, Step, Sent, Frame, SenderInPipe
  <2> QED BY <1>1, <2>5, <2>6
<1>14. ASSUME NEW p \in Process, PollRead(p) PROVE OnceInv'
  <2> DEFINE t == [Taken EXCEPT !.filled = TRUE]
  <2>1. /\ Taken \in SrvType /\ Taken.requests = srv.requests /\ Taken.immediate = "none"
    BY <1>0, <1>14, TakenFields DEF PollRead, Step
  <2>2. t \in SrvType /\ t.requests = srv.requests /\ t.immediate = "none" /\ t.filled = TRUE
    BY <2>1 DEF SrvType
  <2>3. srv' = BeginRead(t, FALSE)
    BY <1>14 DEF PollRead
  <2>4. /\ srv'.requests = srv.requests /\ srv'.filled = TRUE
        /\ srv'.immediate \in {"none", "broken"}
        /\ srv'.immediate = "broken" => ~pipe.open
    <3> HIDE DEF t
    <3> QED BY <1>0, <2>2, <2>3 DEF BeginRead, Synthesize, InFlight, Arm, SrvType, PipeType
  <2>5. Fewer
    BY <1>0, <1>14, <2>4 DEF PollRead, Step
  <2>6. Senders
    <3>1. pipe.data /\ pipe'.client = pipe.client /\ pipe'.open = pipe.open /\ ~pipe'.data
      BY <1>0, <1>14
      DEF PollRead, Step, Completion, KernelCompletion, SenderInPipe, PipeType
    <3> QED BY <1>0, <1>14, <2>4, <3>1 DEF PollRead, Step, Sent, Frame, SenderInPipe
  <2> QED BY <1>1, <2>5, <2>6
<1>15. ASSUME NEW p \in Process, FinishRestore(p) PROVE OnceInv'
  <2>1. Fewer
    BY <1>0, <1>15 DEF FinishRestore, WinType
  <2>2. Senders
    BY <1>0, <1>15 DEF FinishRestore, WinType, Sent, Frame, SenderInPipe
  <2> QED BY <1>1, <2>1, <2>2
<1>16. ASSUME NEW p \in Process, Ask(p) PROVE OnceInv'
  <2>1. Fewer
    BY <1>0, <1>16 DEF Ask, WinType
  <2>2. Senders
    BY <1>0, <1>16 DEF Ask, WinType, Sent, Frame, SenderInPipe
  <2> QED BY <1>1, <2>1, <2>2
<1>17. ASSUME NEW p \in Process, HoldWhileModal(p) PROVE OnceInv'
  <2>1. Fewer
    BY <1>0, <1>17 DEF HoldWhileModal, WinType
  <2>2. Senders
    BY <1>0, <1>17 DEF HoldWhileModal, WinType, Sent, Frame, SenderInPipe
  <2> QED BY <1>1, <2>1, <2>2
<1>18. ASSUME NEW p \in Process, EndModal(p) PROVE OnceInv'
  <2>1. Fewer
    BY <1>0, <1>18 DEF EndModal, WinType
  <2>2. Senders
    BY <1>0, <1>18 DEF EndModal, WinType, Sent, Frame, SenderInPipe
  <2> QED BY <1>1, <2>1, <2>2
<1>19. ASSUME NEW p \in Process, BeginClose(p) PROVE OnceInv'
  <2>1. Fewer
    BY <1>0, <1>19 DEF BeginClose, WinType
  <2>2. Senders
    BY <1>0, <1>19 DEF BeginClose, WinType, Sent, Frame, SenderInPipe
  <2> QED BY <1>1, <2>1, <2>2
<1>20. ASSUME NEW p \in Process, DropPipe(p) PROVE OnceInv'
  <2>1. Fewer
    BY <1>0, <1>20 DEF DropPipe, WithoutServer, NoPipe, NoServer, PipeType, WinType
  <2>2. Senders
    BY <1>0, <1>20 DEF DropPipe, WithoutServer, NoPipe, NoServer, PipeType, WinType, Sent, Frame, SenderInPipe
  <2> QED BY <1>1, <2>1, <2>2
<1>21. ASSUME NEW p \in Process, ReleaseMutex(p) PROVE OnceInv'
  <2>1. Fewer
    BY <1>0, <1>21 DEF ReleaseMutex, NoWindow
  <2>2. pipe' = pipe /\ srv' = srv /\ \A q \in Process : pc'[q] = pc[q] \/ (pc[q] = "window" /\ pc'[q] = "gone")
    BY <1>0, <1>21 DEF ReleaseMutex, Ui
  <2>3. Senders
    BY <1>0, <2>2 DEF Sent, Frame, SenderInPipe
  <2> QED BY <1>1, <2>1, <2>3
<1>22. ASSUME NEW p \in Process, Crash(p) PROVE OnceInv'
  <2>1. Fewer
    BY <1>0, <1>22 DEF Crash, NoWindow
  <2>2. Senders
    BY <1>0, <1>22 DEF Crash, NoWindow, Sent, Frame, SenderInPipe
  <2> QED BY <1>1, <2>1, <2>2
<1>23. ASSUME NEW p \in Process, Rundown(p) PROVE OnceInv'
  <2>1. Fewer
    BY <1>0, <1>23 DEF Rundown, NoServer
  <2>2. pc' = pc /\ pc[p] = "crashed"
    BY <1>23 DEF Rundown
  <2>3. CASE UNCHANGED <<pipe, srv>>
    <3>1. Senders
      BY <1>0, <2>2, <2>3 DEF Sent, Frame, SenderInPipe
    <3> QED BY <1>1, <2>1, <3>1
  <2>4. CASE pipe' = WithoutServer(pipe) /\ srv' = NoServer
    <3>1. Senders
      BY <1>0, <2>2, <2>4
      DEF Sent, Frame, SenderInPipe, WithoutServer, NoPipe, NoServer, PipeType
    <3> QED BY <1>1, <2>1, <3>1
  <2>5. CASE pipe.client = p /\ pipe' = WithoutClient(pipe) /\ srv' = srv
    <3>1. CASE pipe.server = None
      <4>1. pipe' = NoPipe /\ srv' = NoServer
        BY <1>0, <2>5, <3>1 DEF WithoutClient, NoServerWithoutPipe
      <4>2. Senders
        BY <1>0, <2>2, <2>5, <4>1 DEF Sent, Frame, SenderInPipe, NoPipe, NoServer
      <4> QED BY <1>1, <2>1, <4>2
    <3>2. CASE pipe.server # None
      <4>1. pipe' = [pipe EXCEPT !.open = FALSE]
        BY <2>5, <3>2 DEF WithoutClient
      <4>2. Senders
        BY <1>0, <2>2, <2>5, <4>1 DEF Sent, Frame, SenderInPipe, PipeType
      <4> QED BY <1>1, <2>1, <4>2
    <3> QED BY <3>1, <3>2
  <2> QED BY <1>23, <2>3, <2>4, <2>5 DEF Rundown
<1>24. ASSUME NEW p \in Process, PollBroken(p) PROVE OnceInv'
  <2> DEFINE r == IF srv.filled THEN Append(srv.requests, pipe.client) ELSE srv.requests
             t == [Taken EXCEPT !.requests = IF srv.filled THEN Append(@, pipe.client) ELSE @]
  <2>1. Taken \in SrvType /\ Taken.requests = srv.requests /\ Taken.immediate = "none"
    BY <1>0, <1>24, TakenFields DEF PollBroken, Step
  <2>2. pipe.client \in Process
    BY <1>0, <1>24, BrokenHasClient DEF PollBroken, Step
  <2>3. ~pipe.open
    BY <1>0, <1>24 DEF PollBroken, Step, Completion, KernelCompletion, SenderInPipe
  <2>4. t.requests = r /\ t.immediate = "none" /\ srv' = Reconnect(t)
    BY <1>24, <2>1 DEF PollBroken, SrvType
  <2>5. srv'.requests = r /\ srv'.filled = FALSE /\ srv'.immediate = "none"
    BY <2>1, <2>4 DEF Reconnect, InFlight, Arm, SrvType
  <2>6. /\ opened' = opened /\ win' = win /\ pc' = pc
        /\ pipe'.client = None /\ ~pipe'.data
    BY <1>24 DEF PollBroken, Step, NoPipe
  <2>7. SenderInPipe'
    BY <1>0, <2>3, <2>5, <2>6 DEF SenderInPipe
  <2>8. \A q \in Process : ~Frame(q)'
    BY <1>0, <2>6 DEF Frame
  <2>9. CASE ~srv.filled
    BY <1>1, <2>5, <2>6, <2>7, <2>8, <2>9 DEF Sent
  <2>10. CASE srv.filled
    <3> DEFINE x == pipe.client
    <3>1. /\ opened[x] = 0 /\ Sent(x) /\ ~Elem(x, srv.requests)
          /\ \A q \in Process : ~Elem(x, win[q].queue)
      BY <2>2, <2>10 DEF OnceInv, FrameApart, Frame
    <3>2. /\ \A q \in Process : Elem(q, srv'.requests) <=> Elem(q, srv.requests) \/ q = x
          /\ Distinct(srv'.requests)
      <4>1. srv.requests \in Seq(Process) /\ srv'.requests = Append(srv.requests, x)
        BY <1>0, <2>5, <2>10 DEF SrvType
      <4> QED BY <2>2, <3>1, <4>1, AppendFacts DEF OnceInv, EachOnce
    <3>3. \A q \in Process : Sent(q)' <=> Sent(q)
      BY <2>6 DEF Sent
    <3>4. EachOnce' /\ OpenedWasSent'
      BY <2>6, <3>2, <3>3 DEF OnceInv, EachOnce, OpenedWasSent
    <3>5. TakenApart'
      BY <2>6, <3>1, <3>2, <3>3 DEF OnceInv, TakenApart
    <3>6. QueuedApart'
      BY <2>6, <3>3 DEF OnceInv, QueuedApart
    <3>7. FrameApart'
      BY <2>8 DEF FrameApart
    <3> QED BY <2>7, <3>4, <3>5, <3>6, <3>7 DEF OnceInv
  <2> QED BY <2>9, <2>10
<1>25. ASSUME NEW p \in Process, EndPoll(p) PROVE OnceInv'
  <2>1. /\ Polled(p) \in Seq(Process) /\ win[p].queue \in Seq(Process)
        /\ Polled(p) \in {srv.requests, <<>>}
        /\ srv'.requests = <<>> \/ (srv'.requests = srv.requests /\ Polled(p) = <<>>)
        /\ srv'.filled = srv.filled /\ srv'.immediate = srv.immediate /\ srv'.op = srv.op
    BY <1>0, <1>25, PolledTypes DEF EndPoll, Polled, Rested, WinType, SrvType
  <2>2. /\ opened' = opened /\ pc' = pc /\ pipe' = pipe
        /\ win'[p].queue = win[p].queue \o Polled(p)
        /\ \A q \in Process \ {p} : win'[q].queue = win[q].queue
    BY <1>0, <1>25 DEF EndPoll, WinType
  <2>3. /\ \A q \in Process : Elem(q, win'[p].queue) <=> Elem(q, win[p].queue) \/ Elem(q, Polled(p))
        /\ Distinct(win'[p].queue)
    <3>1. Distinct(win[p].queue) /\ Distinct(Polled(p))
      BY <2>1, EmptyDistinct DEF OnceInv, EachOnce
    <3>2. \A q \in Process : ~(Elem(q, win[p].queue) /\ Elem(q, Polled(p)))
      BY <2>1, EmptyFacts DEF OnceInv, TakenApart
    <3> QED BY <2>1, <2>2, <3>1, <3>2, ConcatFacts
  <2>4. /\ \A q \in Process : Elem(q, srv'.requests) => Elem(q, srv.requests) /\ ~Elem(q, Polled(p))
        /\ \A q \in Process : Elem(q, Polled(p)) => Elem(q, srv.requests)
        /\ Distinct(srv'.requests)
    BY <2>1, EmptyFacts, EmptyDistinct DEF OnceInv, EachOnce
  <2>5. \A q \in Process : (Sent(q)' <=> Sent(q)) /\ (Frame(q)' <=> Frame(q))
    BY <2>1, <2>2 DEF Sent, Frame
  <2>6. SenderInPipe'
    BY <1>0, <2>1, <2>2 DEF SenderInPipe
  <2>7. EachOnce' /\ OpenedWasSent'
    BY <2>2, <2>3, <2>4, <2>5 DEF OnceInv, EachOnce, OpenedWasSent
  <2>8. TakenApart'
    BY <2>2, <2>3, <2>4, <2>5 DEF OnceInv, TakenApart
  <2>9. QueuedApart'
    BY <2>2, <2>3, <2>4, <2>5 DEF OnceInv, QueuedApart, TakenApart
  <2>10. FrameApart'
    BY <2>2, <2>3, <2>4, <2>5 DEF OnceInv, FrameApart
  <2> QED BY <2>6, <2>7, <2>8, <2>9, <2>10 DEF OnceInv
<1>26. ASSUME NEW p \in Process, Handle(p), win[p].restoring PROVE OnceInv'
  <2>0. win' = [win EXCEPT ![p].posted = FALSE]
    BY <1>26 DEF Handle
  <2>1. Fewer
    BY <1>0, <1>26, <2>0 DEF Handle, WinType
  <2>2. Senders
    BY <1>0, <1>26 DEF Handle, Sent, Frame, SenderInPipe
  <2> QED BY <1>1, <2>1, <2>2
<1>27. ASSUME NEW p \in Process, Handle(p), ~win[p].restoring PROVE OnceInv'
  <2> DEFINE all == win[p].queue
  <2>1. /\ win[p].queue \in Seq(Process)
        /\ srv' = srv /\ Distinct(srv'.requests)
        /\ \A q \in Process : Elem(q, srv'.requests) => Elem(q, srv.requests)
    BY <1>0, <1>27 DEF Handle, WinType, OnceInv, EachOnce
  <2>2. /\ opened' = OpenAll(all) /\ pc' = pc /\ pipe' = pipe
        /\ win'[p].queue = <<>>
        /\ \A q \in Process \ {p} : win'[q].queue = win[q].queue
    <3>1. win' = [win EXCEPT ![p] = [win[p] EXCEPT !.posted = FALSE, !.queue = <<>>]]
      BY <1>27 DEF Handle
    <3> QED BY <1>0, <1>27, <3>1 DEF Handle, WinType
  <2>3. /\ all \in Seq(Process) /\ Distinct(all)
        /\ \A q \in Process : Elem(q, all) => opened[q] = 0 /\ Sent(q)
        /\ \A q \in Process : Elem(q, all) => ~Elem(q, srv'.requests)
        /\ \A q \in Process, r \in Process \ {p} : Elem(q, win[r].queue) => ~Elem(q, all)
        /\ \A q \in Process : Frame(q) => ~Elem(q, all)
    <3>1. all \in Seq(Process) /\ Distinct(all)
      BY <2>1 DEF OnceInv, EachOnce
    <3>2. \A q \in Process : Elem(q, all) => opened[q] = 0 /\ Sent(q)
      BY DEF OnceInv, QueuedApart
    <3>3. \A q \in Process : Elem(q, all) => ~Elem(q, srv.requests)
      BY DEF OnceInv, TakenApart
    <3>4. \A q \in Process, r \in Process \ {p} : Elem(q, win[r].queue) => ~Elem(q, all)
      BY DEF OnceInv, QueuedApart
    <3>5. \A q \in Process : Frame(q) => ~Elem(q, all)
      BY DEF OnceInv, FrameApart
    <3> QED BY <2>1, <3>1, <3>2, <3>3, <3>4, <3>5
  <2> HIDE DEF all
  <2>4. \A q \in Process : opened'[q] = IF Elem(q, all) THEN 1 ELSE opened[q]
    <3>1. \A q \in Process : opened'[q] = opened[q] + Opens(q, all)
      BY <1>0, <2>2 DEF OpenAll
    <3>2. \A q \in Process : Opens(q, all) = IF Elem(q, all) THEN 1 ELSE 0
      BY <2>3, OpensDistinct
    <3> QED BY <1>0, <2>3, <3>1, <3>2
  <2>5. \A q \in Process : (Sent(q)' <=> Sent(q)) /\ (Frame(q)' <=> Frame(q))
    BY <2>1, <2>2 DEF Sent, Frame
  <2>6. SenderInPipe'
    BY <1>0, <2>1, <2>2 DEF SenderInPipe
  <2>7. EachOnce' /\ OpenedWasSent'
    BY <2>1, <2>2, <2>3, <2>4, <2>5, EmptyDistinct DEF OnceInv, EachOnce, OpenedWasSent
  <2>8. TakenApart'
    BY <2>1, <2>2, <2>3, <2>4, <2>5, EmptyFacts DEF OnceInv, TakenApart
  <2>9. QueuedApart'
    BY <2>2, <2>3, <2>4, <2>5, EmptyFacts DEF OnceInv, QueuedApart
  <2>10. FrameApart'
    BY <2>1, <2>2, <2>3, <2>4, <2>5, EmptyFacts DEF OnceInv, FrameApart
  <2> QED BY <2>6, <2>7, <2>8, <2>9, <2>10 DEF OnceInv
<1>28. ASSUME NEW p \in Process, EndDrain(p) PROVE OnceInv'
  <2> DEFINE all == win[p].queue \o Polled(p)
  <2>1. /\ Polled(p) \in Seq(Process) /\ win[p].queue \in Seq(Process)
        /\ Polled(p) \in {srv.requests, <<>>}
        /\ srv'.requests = <<>> \/ (srv'.requests = srv.requests /\ Polled(p) = <<>>)
        /\ srv'.filled = srv.filled /\ srv'.immediate = srv.immediate /\ srv'.op = srv.op
        /\ Distinct(srv'.requests)
        /\ \A q \in Process : Elem(q, srv'.requests) => Elem(q, srv.requests)
    <3>1. /\ Polled(p) \in Seq(Process) /\ win[p].queue \in Seq(Process)
          /\ Polled(p) \in {srv.requests, <<>>}
          /\ srv'.requests = <<>> \/ (srv'.requests = srv.requests /\ Polled(p) = <<>>)
          /\ srv'.filled = srv.filled /\ srv'.immediate = srv.immediate /\ srv'.op = srv.op
      BY <1>0, <1>28, PolledTypes DEF EndDrain, Polled, Rested, WinType, SrvType
    <3> QED BY <3>1, EmptyFacts, EmptyDistinct DEF OnceInv, EachOnce
  <2>2. /\ opened' = OpenAll(all) /\ pc' = pc /\ pipe' = pipe
        /\ win'[p].queue = <<>>
        /\ \A q \in Process \ {p} : win'[q].queue = win[q].queue
    BY <1>0, <1>28 DEF EndDrain, WinType
  <2>3. /\ all \in Seq(Process) /\ Distinct(all)
        /\ \A q \in Process : Elem(q, all) => opened[q] = 0 /\ Sent(q)
        /\ \A q \in Process : Elem(q, all) => ~Elem(q, srv'.requests)
        /\ \A q \in Process, r \in Process \ {p} : Elem(q, win[r].queue) => ~Elem(q, all)
        /\ \A q \in Process : Frame(q) => ~Elem(q, all)
    <3>1. Distinct(win[p].queue) /\ Distinct(Polled(p))
      BY <2>1, EmptyDistinct DEF OnceInv, EachOnce
    <3>2. \A q \in Process : /\ Elem(q, Polled(p)) => Elem(q, srv.requests)
                            /\ ~(Elem(q, win[p].queue) /\ Elem(q, Polled(p)))
      BY <2>1, EmptyFacts DEF OnceInv, TakenApart
    <3>3. /\ all \in Seq(Process) /\ Distinct(all)
          /\ \A q \in Process : Elem(q, all) <=> Elem(q, win[p].queue) \/ Elem(q, Polled(p))
      BY <2>1, <3>1, <3>2, ConcatFacts
    <3>4. \A q \in Process : Elem(q, all) => opened[q] = 0 /\ Sent(q)
      BY <3>2, <3>3 DEF OnceInv, QueuedApart, TakenApart
    <3>5. \A q \in Process : Elem(q, srv'.requests) => ~Elem(q, all)
      BY <2>1, <3>3, EmptyFacts DEF OnceInv, TakenApart
    <3>6. \A q \in Process, r \in Process \ {p} : Elem(q, win[r].queue) => ~Elem(q, all)
      BY <3>2, <3>3 DEF OnceInv, QueuedApart, TakenApart
    <3>7. \A q \in Process : Frame(q) => ~Elem(q, all)
      BY <3>2, <3>3 DEF OnceInv, FrameApart
    <3> QED BY <3>3, <3>4, <3>5, <3>6, <3>7
  <2> HIDE DEF all
  <2>4. \A q \in Process : opened'[q] = IF Elem(q, all) THEN 1 ELSE opened[q]
    <3>1. \A q \in Process : opened'[q] = opened[q] + Opens(q, all)
      BY <1>0, <2>2 DEF OpenAll
    <3>2. \A q \in Process : Opens(q, all) = IF Elem(q, all) THEN 1 ELSE 0
      BY <2>3, OpensDistinct
    <3> QED BY <1>0, <2>3, <3>1, <3>2
  <2>5. \A q \in Process : (Sent(q)' <=> Sent(q)) /\ (Frame(q)' <=> Frame(q))
    BY <2>1, <2>2 DEF Sent, Frame
  <2>6. SenderInPipe'
    BY <1>0, <2>1, <2>2 DEF SenderInPipe
  <2>7. EachOnce' /\ OpenedWasSent'
    BY <2>1, <2>2, <2>3, <2>4, <2>5, EmptyDistinct DEF OnceInv, EachOnce, OpenedWasSent
  <2>8. TakenApart'
    BY <2>1, <2>2, <2>3, <2>4, <2>5, EmptyFacts DEF OnceInv, TakenApart
  <2>9. QueuedApart'
    BY <2>2, <2>3, <2>4, <2>5, EmptyFacts DEF OnceInv, QueuedApart
  <2>10. FrameApart'
    BY <2>1, <2>2, <2>3, <2>4, <2>5, EmptyFacts DEF OnceInv, FrameApart
  <2> QED BY <2>6, <2>7, <2>8, <2>9, <2>10 DEF OnceInv
<1> HIDE DEF Fewer, Senders
<1> QED
  BY <1>2, <1>3, <1>4, <1>5, <1>6, <1>7, <1>8, <1>9, <1>10, <1>11, <1>12, <1>13, <1>14, <1>15, <1>16, <1>17, <1>18, <1>19, <1>20, <1>21, <1>22, <1>23, <1>24, <1>25, <1>26, <1>27, <1>28 DEF Next, Launch, Thread, Poll

LEMMA OnceInit == Init => OnceInv
BY NoneIsNoProcess, EmptyFacts, EmptyDistinct
DEF Init, OnceInv, EachOnce, TakenApart, QueuedApart, FrameApart, OpenedWasSent, SenderInPipe,
    NoPipe, NoServer, NoWindow, Frame, Sent

LEMMA OnceStays == IInv /\ OnceInv /\ [Next]_vars => OnceInv'
<1>1. ASSUME OnceInv, UNCHANGED vars PROVE OnceInv'
  BY <1>1 DEF vars, OnceInv, EachOnce, TakenApart, QueuedApart, FrameApart, OpenedWasSent,
       SenderInPipe, Frame, Sent
<1> QED BY <1>1, OnceStep

(* A launch is carried out once: opened in one window, or run on its own.    *)
THEOREM OnceOnly == Spec => []OpenedOnce
<1>1. Init => OnceInv
  BY OnceInit
<1>2. IInv /\ OnceInv /\ [Next]_vars => OnceInv'
  BY OnceStays
<1>3. OnceInv => OpenedOnce
  BY DEF OnceInv, EachOnce, OpenedWasSent, OpenedOnce, Sent
<1> QED BY <1>1, <1>2, <1>3, Invariance, PTL DEF Spec

-----------------------------------------------------------------------------
(* Where a request that was written is, while the window it was written to   *)
(* lives: in its queue, taken by its poll, or in its pipe.                   *)
Alive(p) == pc[p] = "window" /\ win[p].ui # "leaving"
Serves(p) == pc[p] = "window" /\ pipe.server = p
Waits(q, p) == pc[q] \in {"written", "forwarded"} /\ opened[q] = 0 /\ target[q] = p

WrittenIsKept ==
  \A q, p \in Process : Waits(q, p) /\ Alive(p) =>
    Elem(q, win[p].queue) \/ (pipe.server = p /\ (Elem(q, srv.requests) \/ Frame(q)))

(* A server always listens or reads, with its event set where the kernel     *)
(* will not set it; only a poll has requests and steps of its own.           *)
ServerIsReady ==
  /\ srv.immediate # "none" => srv.event
  /\ srv.immediate = "broken" => srv.op = "read" /\ ~pipe.data /\ ~pipe.open
  /\ srv.op = "connect" => ~srv.filled
  /\ \A p \in Process : Serves(p) =>
       /\ win[p].ui = "binding" => srv = NoServer
       /\ win[p].ui # "binding" => srv.inFlight \/ srv.immediate # "none"
       /\ win[p].ui \in {"polling", "draining"} \/ (srv.steps = 0 /\ srv.requests = <<>>)

(* What a request was written to was a window, and stays it until it ends.   *)
TargetServed ==
  \A q \in Process :
    target[q] # None => pc[target[q]] \in {"window", "gone", "crashed"}

(* A launch that has exited has closed its end of the pipe.                  *)
ClientIsOpen ==
  \A q \in Process : pipe.client = q /\ pipe.open => pc[q] \in {"connected", "written", "crashed"}

(* A queue that is not empty has a message posted or held, or a restore that *)
(* will post one.                                                            *)
QueueIsAnnounced ==
  \A p \in Process :
    /\ win[p].queue # <<>> => win[p].posted \/ win[p].held \/ win[p].restoring
    /\ win[p].held => win[p].ui \in {"asking", "review", "leaving"}

OwedIsForwarded == \A p \in Process : \A q \in owed[p] : pc[q] = "forwarded" /\ target[q] = p

(* A forwarded request in the pipe is three steps of a poll away at most:    *)
(* the client, its frame, the end of it.                                     *)
Left == IF srv.op = "connect" THEN 3 ELSE IF pipe.data THEN 2 ELSE 1
DrainReaches ==
  \A p \in Process : Serves(p) /\ win[p].ui = "draining" =>
    \A q \in owed[p] : Frame(q) => srv.steps + Left <= 3

DrainInv ==
  /\ WrittenIsKept
  /\ ServerIsReady
  /\ TargetServed
  /\ ClientIsOpen
  /\ QueueIsAnnounced
  /\ OwedIsForwarded
  /\ DrainReaches

(* What both invariants say, for the steps below.                            *)
LEMMA DrainFacts ==
  ASSUME IInv, OnceInv
  PROVE  /\ pc \in [Process -> PcStates] /\ pipe \in PipeType /\ srv \in SrvType
         /\ win \in [Process -> WinType] /\ opened \in [Process -> Nat]
         /\ target \in [Process -> Process \cup {None}] /\ owed \in [Process -> SUBSET Process]
         /\ ServerHasClient /\ NoServerWithoutPipe /\ ServerHolds /\ BindingHasPipe /\ LeavingHasNoPipe
         /\ OffIsIdle
         /\ None \notin Process
         /\ SenderInPipe /\ FrameApart
BY TypeParts, NoneIsNoProcess DEF IInv, OnceInv

(* A launch that neither writes nor becomes a window.                        *)
LEMMA LaunchDrains ==
  ASSUME IInv, OnceInv, DrainInv, NEW p \in Process,
         Independent(p) \/ DropHandle(p) \/ GiveUp(p) \/ Claim(p)
  PROVE  DrainInv'
<1>1. /\ UNCHANGED <<pipe, srv, win, opened, target, owed>>
      /\ pc[p] \in {"off", "existed", "notRunning", "connecting"}
      /\ pc' = [pc EXCEPT ![p] = pc'[p]]
      /\ pc'[p] \notin {"written", "forwarded"}
  BY DrainFacts DEF Independent, DropHandle, GiveUp, Claim
<1>2. \A q \in Process \ {p} : pc'[q] = pc[q]
  BY <1>1, DrainFacts
<1>3. \A q \in Process : target[q] # p
  BY <1>1, DrainFacts DEF DrainInv, TargetServed
<1>4. WrittenIsKept'
  BY <1>1, <1>2, <1>3 DEF DrainInv, WrittenIsKept, Waits, Alive, Frame
<1>5. pipe.server # p
  BY <1>1, DrainFacts DEF ServerHolds
<1>6. ServerIsReady'
  BY <1>1, <1>2, <1>5 DEF DrainInv, ServerIsReady, Serves
<1>7. TargetServed'
  BY <1>1, <1>2, <1>3, DrainFacts DEF DrainInv, TargetServed
<1>8. ClientIsOpen'
  BY <1>1, <1>2 DEF DrainInv, ClientIsOpen
<1>9. QueueIsAnnounced' /\ OwedIsForwarded'
  BY <1>1, <1>2, DrainFacts DEF DrainInv, QueueIsAnnounced, OwedIsForwarded
<1>10. DrainReaches'
  BY <1>1, <1>2, <1>5 DEF DrainInv, DrainReaches, Serves, Frame, Left
<1> QED BY <1>4, <1>6, <1>7, <1>8, <1>9, <1>10 DEF DrainInv

(* A launch at its end of the pipe.                                          *)
LEMMA ConnectDrains ==
  ASSUME IInv, OnceInv, DrainInv, NEW p \in Process, Connect(p)
  PROVE  DrainInv'
<1>1. /\ UNCHANGED <<srv, win, opened, target, owed>>
      /\ pc[p] = "connecting" /\ pc' = [pc EXCEPT ![p] = "connected"]
      /\ pipe.server # None /\ pipe.client = None
      /\ pipe'.server = pipe.server /\ pipe'.client = p /\ pipe'.open /\ pipe'.data = pipe.data
  BY DrainFacts DEF Connect, Listening, PipeType
<1>2. \A q \in Process \ {p} : pc'[q] = pc[q]
  BY <1>1, DrainFacts
<1>3. ~pipe.data /\ ~srv.filled /\ srv.immediate = "none" /\ srv.op = "connect"
  BY <1>1, DrainFacts DEF SenderInPipe, ServerHasClient, SrvType
<1>4. \A q \in Process : ~Frame(q) /\ ~Frame(q)'
  BY <1>1, <1>3 DEF Frame
<1>5. \A q \in Process : target[q] # p
  BY <1>1, DrainFacts DEF DrainInv, TargetServed
<1>6. WrittenIsKept'
  BY <1>1, <1>2, <1>4, DrainFacts DEF DrainInv, WrittenIsKept, Waits, Alive
<1>7. ServerIsReady'
  BY <1>1, <1>2, <1>3, DrainFacts DEF DrainInv, ServerIsReady, Serves
<1>8. TargetServed' /\ ClientIsOpen'
  BY <1>1, <1>2, <1>5, DrainFacts DEF DrainInv, TargetServed, ClientIsOpen
<1>9. QueueIsAnnounced' /\ OwedIsForwarded'
  BY <1>1, <1>2, DrainFacts DEF DrainInv, QueueIsAnnounced, OwedIsForwarded
<1>10. DrainReaches'
  BY <1>1, <1>4, DrainFacts DEF DrainReaches
<1> QED BY <1>6, <1>7, <1>8, <1>9, <1>10 DEF DrainInv

LEMMA WriteDrains ==
  ASSUME IInv, OnceInv, DrainInv, NEW p \in Process, Write(p)
  PROVE  DrainInv'
<1>1. /\ UNCHANGED <<srv, win, opened, owed>>
      /\ pc[p] = "connected" /\ pc' = [pc EXCEPT ![p] = "written"]
      /\ pipe.server # None /\ pipe.client = p /\ pipe.open
      /\ pipe'.server = pipe.server /\ pipe'.client = p /\ pipe'.open /\ pipe'.data
      /\ target' = [target EXCEPT ![p] = pipe.server]
  BY DrainFacts DEF Write, SenderInPipe, PipeType
<1>2. \A q \in Process \ {p} : pc'[q] = pc[q] /\ target'[q] = target[q]
  BY <1>1, DrainFacts
<1>3. /\ pipe.server \in Process /\ pc[pipe.server] \in {"window", "crashed"} /\ pipe.server # p
      /\ target'[p] = pipe.server /\ pc'[p] = "written"
  BY <1>1, DrainFacts DEF ServerHolds, PipeType
<1>4. Frame(p)' /\ \A q \in Process \ {p} : ~Frame(q)' /\ ~Frame(q)
  BY <1>1 DEF Frame
<1>5. WrittenIsKept'
  BY <1>1, <1>2, <1>3, <1>4, DrainFacts DEF DrainInv, WrittenIsKept, Waits, Alive
<1>6. ServerIsReady'
  BY <1>1, <1>2, <1>3, DrainFacts DEF DrainInv, ServerIsReady, Serves
<1>7. TargetServed' /\ ClientIsOpen'
  BY <1>1, <1>2, <1>3, DrainFacts DEF DrainInv, TargetServed, ClientIsOpen
<1>8. \A r \in Process : p \notin owed[r]
  BY <1>1 DEF DrainInv, OwedIsForwarded
<1>9. QueueIsAnnounced' /\ OwedIsForwarded'
  BY <1>1, <1>2, <1>8, DrainFacts DEF DrainInv, QueueIsAnnounced, OwedIsForwarded
<1>10. DrainReaches'
  BY <1>1, <1>4, <1>8, DrainFacts DEF DrainReaches
<1> QED BY <1>5, <1>6, <1>7, <1>9, <1>10 DEF DrainInv

LEMMA SendFailsDrains ==
  ASSUME IInv, OnceInv, DrainInv, NEW p \in Process, SendFails(p)
  PROVE  DrainInv'
<1>1. /\ UNCHANGED <<srv, win, opened, target, owed>>
      /\ pc[p] = "connected" /\ pc' = [pc EXCEPT ![p] = "own"]
      /\ pipe.server = None /\ pipe' = NoPipe
  BY DrainFacts DEF SendFails, WithoutClient
<1>2. \A q \in Process \ {p} : pc'[q] = pc[q]
  BY <1>1, DrainFacts
<1>3. srv = NoServer /\ \A q \in Process : target[q] # p
  BY <1>1, DrainFacts DEF NoServerWithoutPipe, DrainInv, TargetServed
<1>4. WrittenIsKept'
  BY <1>1, <1>2, <1>3, DrainFacts DEF DrainInv, WrittenIsKept, Waits, Alive
<1>5. ServerIsReady' /\ DrainReaches'
  BY <1>1, <1>3, DrainFacts DEF ServerIsReady, DrainReaches, Serves, NoPipe, NoServer
<1>6. TargetServed' /\ ClientIsOpen'
  BY <1>1, <1>2, <1>3, DrainFacts DEF DrainInv, TargetServed, ClientIsOpen, NoPipe
<1>7. QueueIsAnnounced' /\ OwedIsForwarded'
  BY <1>1, <1>2, DrainFacts DEF DrainInv, QueueIsAnnounced, OwedIsForwarded
<1> QED BY <1>4, <1>5, <1>6, <1>7 DEF DrainInv

LEMMA CloseClientDrains ==
  ASSUME IInv, OnceInv, DrainInv, NEW p \in Process, CloseClient(p)
  PROVE  DrainInv'
<1>1. /\ UNCHANGED <<srv, win, opened, target, owed>>
      /\ pc[p] = "written" /\ pc' = [pc EXCEPT ![p] = "forwarded"]
      /\ pipe.client = p /\ pipe' = WithoutClient(pipe)
  BY DrainFacts DEF CloseClient, SenderInPipe
<1>2. \A q \in Process \ {p} : pc'[q] = pc[q]
  BY <1>1, DrainFacts
<1>3. pc'[p] = "forwarded" /\ \A r \in Process : p \notin owed[r] /\ target[r] # p
  BY <1>1, DrainFacts DEF DrainInv, OwedIsForwarded, TargetServed
<1>4. CASE pipe.server = None
  <2>1. pipe' = NoPipe /\ srv = NoServer
    BY <1>1, <1>4, DrainFacts DEF WithoutClient, NoServerWithoutPipe
  <2>2. WrittenIsKept'
    BY <1>1, <1>2, <1>3, <1>4, DrainFacts DEF DrainInv, WrittenIsKept, Waits, Alive
  <2>3. ServerIsReady' /\ DrainReaches' /\ ClientIsOpen'
    BY <1>1, <2>1, DrainFacts DEF ServerIsReady, DrainReaches, ClientIsOpen, Serves, NoPipe, NoServer
  <2>4. TargetServed' /\ QueueIsAnnounced' /\ OwedIsForwarded'
    BY <1>1, <1>2, <1>3, DrainFacts DEF DrainInv, TargetServed, QueueIsAnnounced, OwedIsForwarded
  <2> QED BY <2>2, <2>3, <2>4 DEF DrainInv
<1>5. CASE pipe.server # None
  <2>1. /\ pipe'.server = pipe.server /\ pipe'.client = p /\ ~pipe'.open /\ pipe'.data = pipe.data
    BY <1>1, <1>5, DrainFacts DEF WithoutClient, PipeType
  <2>2. \A q \in Process : Frame(q)' <=> Frame(q)
    BY <1>1, <2>1 DEF Frame
  <2>3. WrittenIsKept'
    BY <1>1, <1>2, <1>3, <2>1, <2>2, DrainFacts DEF DrainInv, WrittenIsKept, Waits, Alive
  <2>4. ServerIsReady' /\ ClientIsOpen'
    BY <1>1, <1>2, <1>3, <2>1, DrainFacts DEF DrainInv, ServerIsReady, ClientIsOpen, Serves
  <2>5. TargetServed' /\ QueueIsAnnounced' /\ OwedIsForwarded'
    BY <1>1, <1>2, <1>3, DrainFacts DEF DrainInv, TargetServed, QueueIsAnnounced, OwedIsForwarded
  <2>6. DrainReaches'
    BY <1>1, <1>2, <1>3, <2>1, <2>2, DrainFacts DEF DrainInv, DrainReaches, Serves, Left
  <2> QED BY <2>3, <2>4, <2>5, <2>6 DEF DrainInv
<1> QED BY <1>4, <1>5

(* A message of a window that leaves its queue and the pipe alone.           *)
LEMMA WindowDrains ==
  ASSUME IInv, OnceInv, DrainInv, NEW p \in Process, NEW w \in WinType,
         win' = [win EXCEPT ![p] = w],
         UNCHANGED <<pc, pipe, srv, opened, target>>,
         pc[p] = "window", win[p].ui \in {"idle", "asking", "review"},
         w.ui # "binding", w.queue = win[p].queue,
         w.queue # <<>> => w.posted \/ w.held \/ w.restoring,
         w.held => w.ui \in {"asking", "review", "leaving"},
         OwedIsForwarded', \A r \in Process \ {p} : owed'[r] \subseteq owed[r]
  PROVE  DrainInv'
<1>1. win'[p] = w /\ \A q \in Process \ {p} : win'[q] = win[q]
  BY DrainFacts, WinChanges
<1>2. \A q \in Process : (Frame(q)' <=> Frame(q)) /\ win'[q].queue = win[q].queue
  BY <1>1 DEF Frame
<1>3. WrittenIsKept'
  BY <1>1, <1>2 DEF DrainInv, WrittenIsKept, Waits, Alive
<1>4. Serves(p) => srv.steps = 0 /\ srv.requests = <<>> /\ (srv.inFlight \/ srv.immediate # "none")
  BY DEF DrainInv, ServerIsReady
<1>5. ServerIsReady'
  BY <1>1, <1>4 DEF DrainInv, ServerIsReady, Serves
<1>6. TargetServed' /\ ClientIsOpen'
  BY DEF DrainInv, TargetServed, ClientIsOpen
<1>7. QueueIsAnnounced'
  BY <1>1 DEF DrainInv, QueueIsAnnounced
<1>8. DrainReaches'
  <2>1. Left' = Left /\ Left \in 1..3
    BY DEF Left
  <2>2. Serves(p)' => srv'.steps + Left' <= 3
    BY <1>4, <2>1 DEF Serves
  <2>3. ASSUME NEW r \in Process \ {p}, Serves(r)', win'[r].ui = "draining", NEW q \in owed'[r], Frame(q)'
        PROVE  srv'.steps + Left' <= 3
    <3>1. Serves(r) /\ win[r].ui = "draining" /\ q \in owed[r] /\ q \in Process
      BY <1>1, <2>3, DrainFacts DEF Serves
    <3>2. srv.steps + Left <= 3
      BY <1>2, <2>3, <3>1 DEF DrainInv, DrainReaches
    <3> QED BY <2>1, <3>2
  <2> QED BY <2>2, <2>3 DEF DrainReaches
<1> QED BY <1>3, <1>5, <1>6, <1>7, <1>8 DEF DrainInv

LEMMA MessageDrains ==
  ASSUME IInv, OnceInv, DrainInv, NEW p \in Process,
         Wake(p) \/ FinishRestore(p) \/ Ask(p) \/ HoldWhileModal(p) \/ EndModal(p) \/ BeginClose(p)
           \/ (Handle(p) /\ win[p].restoring)
  PROVE  DrainInv'
<1>1. /\ win[p] \in WinType /\ win \in [Process -> WinType]
      /\ win[p].queue # <<>> => win[p].posted \/ win[p].held \/ win[p].restoring
      /\ win[p].held => win[p].ui \in {"asking", "review", "leaving"}
      /\ OwedIsForwarded /\ owed \in [Process -> SUBSET Process]
  BY DrainFacts DEF DrainInv, QueueIsAnnounced
<1>2. /\ UNCHANGED <<pc, pipe, srv, opened, target>>
      /\ pc[p] = "window" /\ win[p].ui \in {"idle", "asking", "review"}
  BY DEF Wake, FinishRestore, Ask, HoldWhileModal, EndModal, BeginClose, Handle, Ui
<1>3. OwedIsForwarded' /\ \A r \in Process \ {p} : owed'[r] \subseteq owed[r]
  <2>1. CASE owed' = owed \/ owed' = [owed EXCEPT ![p] = {}]
    BY <1>1, <1>2, <2>1 DEF OwedIsForwarded
  <2>2. CASE BeginClose(p)
    BY <1>1, <1>2, <2>2 DEF BeginClose, OwedIsForwarded
  <2> QED BY <2>1, <2>2 DEF Wake, FinishRestore, Ask, HoldWhileModal, EndModal, Handle
<1>4. \E w \in WinType :
        /\ win' = [win EXCEPT ![p] = w]
        /\ w.ui # "binding" /\ w.queue = win[p].queue
        /\ w.queue # <<>> => w.posted \/ w.held \/ w.restoring
        /\ w.held => w.ui \in {"asking", "review", "leaving"}
  <2>1. CASE Wake(p)
    <3> DEFINE w == [win[p] EXCEPT !.ui = "polling"]
    <3>1. win' = [win EXCEPT ![p] = w] /\ win[p].ui = "idle"
      BY <2>1 DEF Wake, Ui
    <3>2. /\ w \in WinType /\ w.ui = "polling" /\ w.queue = win[p].queue /\ w.posted = win[p].posted
          /\ w.held = win[p].held /\ w.restoring = win[p].restoring
      BY <1>1 DEF WinType, UiStates
    <3> QED BY <1>1, <3>1, <3>2
  <2>2. CASE FinishRestore(p)
    <3> DEFINE w == [win[p] EXCEPT !.restoring = FALSE, !.posted = TRUE]
    <3>1. win' = [win EXCEPT ![p] = w] /\ win[p].ui = "idle"
      BY <2>2 DEF FinishRestore, Ui
    <3>2. /\ w \in WinType /\ w.ui = win[p].ui /\ w.queue = win[p].queue /\ w.posted = TRUE
          /\ w.held = win[p].held
      BY <1>1 DEF WinType
    <3> QED BY <1>1, <3>1, <3>2
  <2>3. CASE Ask(p)
    <3> DEFINE w == [win[p] EXCEPT !.ui = "asking"]
    <3>1. win' = [win EXCEPT ![p] = w] /\ win[p].ui = "idle"
      BY <2>3 DEF Ask, Ui
    <3>2. /\ w \in WinType /\ w.ui = "asking" /\ w.queue = win[p].queue /\ w.posted = win[p].posted
          /\ w.held = win[p].held /\ w.restoring = win[p].restoring
      BY <1>1 DEF WinType, UiStates
    <3> QED BY <1>1, <3>1, <3>2
  <2>4. CASE HoldWhileModal(p)
    <3> DEFINE w == [win[p] EXCEPT !.posted = FALSE, !.held = TRUE]
    <3>1. win' = [win EXCEPT ![p] = w] /\ win[p].ui \in {"asking", "review"}
      BY <2>4 DEF HoldWhileModal, Ui
    <3>2. /\ w \in WinType /\ w.ui = win[p].ui /\ w.queue = win[p].queue /\ w.held = TRUE
      BY <1>1 DEF WinType
    <3> QED BY <1>1, <3>1, <3>2
  <2>5. CASE EndModal(p)
    <3> DEFINE w == [win[p] EXCEPT !.ui = "idle", !.posted = @ \/ win[p].held, !.held = FALSE]
    <3>1. win' = [win EXCEPT ![p] = w]
      BY <2>5 DEF EndModal, Ui
    <3>2. /\ w \in WinType /\ w.ui = "idle" /\ w.queue = win[p].queue
          /\ w.posted <=> (win[p].posted \/ win[p].held)
          /\ ~w.held /\ w.restoring = win[p].restoring
      BY <1>1 DEF WinType, UiStates
    <3> QED BY <1>1, <3>1, <3>2
  <2>6. CASE BeginClose(p)
    <3> DEFINE w == [win[p] EXCEPT !.ui = "draining"]
    <3>1. win' = [win EXCEPT ![p] = w] /\ win[p].ui = "idle"
      BY <2>6 DEF BeginClose, Ui
    <3>2. /\ w \in WinType /\ w.ui = "draining" /\ w.queue = win[p].queue /\ w.posted = win[p].posted
          /\ w.held = win[p].held /\ w.restoring = win[p].restoring
      BY <1>1 DEF WinType, UiStates
    <3> QED BY <1>1, <3>1, <3>2
  <2>7. CASE Handle(p) /\ win[p].restoring
    <3> DEFINE w == [win[p] EXCEPT !.posted = FALSE]
    <3>1. win' = [win EXCEPT ![p] = w] /\ win[p].ui = "idle"
      BY <2>7 DEF Handle, Ui
    <3>2. /\ w \in WinType /\ w.ui = "idle" /\ w.queue = win[p].queue
          /\ w.held = win[p].held /\ w.restoring
      BY <1>1, <2>7, <3>1 DEF WinType
    <3> QED BY <1>1, <3>1, <3>2
  <2> QED BY <2>1, <2>2, <2>3, <2>4, <2>5, <2>6, <2>7
<1> QED BY <1>2, <1>3, <1>4, WindowDrains

(* The pipe is created, or its name is still taken.                          *)
LEMMA BindDrains ==
  ASSUME IInv, OnceInv, DrainInv, NEW p \in Process, NEW restoring \in BOOLEAN, Bind(p, restoring)
  PROVE  DrainInv'
<1>1. /\ win[p] \in WinType /\ win \in [Process -> WinType]
      /\ win[p].queue # <<>> => win[p].posted \/ win[p].held \/ win[p].restoring
      /\ win[p].held => win[p].ui \in {"asking", "review", "leaving"}
      /\ OwedIsForwarded /\ owed \in [Process -> SUBSET Process]
  BY DrainFacts DEF DrainInv, QueueIsAnnounced
<1>2. /\ pc[p] = "window" /\ win[p].ui = "idle" /\ ~win[p].restoring
      /\ UNCHANGED <<pc, opened, target, owed>>
  BY DEF Bind, Ui
<1>3. OwedIsForwarded' /\ \A r \in Process \ {p} : owed'[r] \subseteq owed[r]
  BY <1>1, <1>2 DEF OwedIsForwarded
<1>4. CASE Exists(pipe)
  <2> DEFINE w == [win[p] EXCEPT !.restoring = restoring]
  <2>1. win' = [win EXCEPT ![p] = w] /\ UNCHANGED <<pipe, srv>>
    BY <1>4 DEF Bind
  <2>2. /\ w \in WinType /\ w.ui = "idle" /\ w.queue = win[p].queue /\ w.posted = win[p].posted
        /\ w.held = win[p].held
    BY <1>1, <1>2 DEF WinType
  <2> HIDE DEF w
  <2> QED BY <1>1, <1>2, <1>3, <2>1, <2>2, WindowDrains
<1>5. CASE ~Exists(pipe)
  <2> DEFINE w == [win[p] EXCEPT !.restoring = restoring, !.ui = "binding"]
  <2>1. /\ win' = [win EXCEPT ![p] = w] /\ srv' = NoServer
        /\ pipe' = [NoPipe EXCEPT !.server = p]
        /\ pipe.server = None
    BY <1>5 DEF Bind, Exists
  <2>2. /\ w \in WinType /\ w.ui = "binding" /\ w.queue = win[p].queue /\ w.posted = win[p].posted
        /\ w.held = win[p].held
    BY <1>1, <1>2 DEF WinType, UiStates
  <2>3. win'[p] = w /\ \A q \in Process \ {p} : win'[q] = win[q]
    BY <1>1, <2>1, <2>2, WinChanges
  <2>4. pipe'.server = p /\ pipe'.client = None /\ ~pipe'.open /\ ~pipe'.data
    BY <2>1 DEF NoPipe
  <2> HIDE DEF w
  <2>5. WrittenIsKept'
    BY <1>2, <2>1, <2>2, <2>3, DrainFacts DEF DrainInv, WrittenIsKept, Waits, Alive
  <2>6. ServerIsReady'
    BY <1>2, <2>1, <2>2, <2>3, <2>4 DEF ServerIsReady, Serves, NoServer
  <2>7. TargetServed' /\ ClientIsOpen'
    BY <1>2, <2>4, DrainFacts DEF DrainInv, TargetServed, ClientIsOpen
  <2>8. QueueIsAnnounced'
    BY <1>1, <1>2, <2>2, <2>3 DEF DrainInv, QueueIsAnnounced
  <2>9. DrainReaches'
    BY <2>2, <2>3, <2>4 DEF DrainReaches, Serves
  <2> QED BY <1>3, <2>5, <2>6, <2>7, <2>8, <2>9 DEF DrainInv
<1> QED BY <1>4, <1>5

(* The server's helpers, once a completion was taken.                        *)
LEMMA TakenSteps ==
  ASSUME srv \in SrvType, srv.steps < MaxSteps
  PROVE  Taken.steps = srv.steps + 1 /\ Taken.steps \in Nat
BY StepAssumption DEF Taken, TakeCompletion, SrvType

LEMMA ReadBegun ==
  ASSUME NEW s \in SrvType, s.immediate = "none", NEW data \in BOOLEAN, pipe \in PipeType
  PROVE  LET t == BeginRead(s, data)
         IN /\ t.op = "read" /\ t.filled = s.filled /\ t.requests = s.requests /\ t.steps = s.steps
            /\ t.immediate \in {"none", "broken"}
            /\ t.immediate = "none" => t.inFlight
            /\ t.immediate = "broken" => t.event /\ ~data /\ ~pipe.open
BY DEF BeginRead, Synthesize, InFlight, Arm, SrvType, PipeType

LEMMA BindConnectDrains ==
  ASSUME IInv, OnceInv, DrainInv, NEW p \in Process, BindConnect(p)
  PROVE  DrainInv'
<1> DEFINE w == [win[p] EXCEPT !.ui = "idle"]
<1>1. /\ pc[p] = "window" /\ win[p].ui = "binding" /\ pipe.server = p
      /\ win' = [win EXCEPT ![p] = w] /\ srv' = BeginConnect(srv)
      /\ UNCHANGED <<pc, pipe, opened, target, owed>>
  BY DrainFacts DEF BindConnect, Ui, BindingHasPipe
<1>2. /\ w \in WinType /\ w.ui = "idle" /\ w.queue = win[p].queue /\ w.posted = win[p].posted
      /\ w.held = win[p].held /\ w.restoring = win[p].restoring
  <2>1. win[p] \in WinType
    BY DrainFacts
  <2> QED BY <2>1 DEF WinType, UiStates
<1>3. win'[p] = w /\ \A q \in Process \ {p} : win'[q] = win[q]
  BY <1>1, <1>2, DrainFacts, WinChanges
<1> HIDE DEF w
<1>4. srv = NoServer
  BY <1>1 DEF DrainInv, ServerIsReady, Serves
<1>5. /\ srv'.op = "connect" /\ ~srv'.filled /\ srv'.requests = <<>> /\ srv'.steps = 0
      /\ srv'.immediate # "none" => srv'.event
      /\ srv'.immediate # "broken"
      /\ srv'.inFlight \/ srv'.immediate # "none"
  BY <1>1, <1>4 DEF BeginConnect, Synthesize, InFlight, Arm, NoServer
<1>6. /\ \A q \in Process : (Frame(q)' <=> Frame(q)) /\ win'[q].queue = win[q].queue
      /\ srv'.requests = srv.requests
  BY <1>1, <1>2, <1>3, <1>4, <1>5 DEF Frame, NoServer
<1>7. WrittenIsKept'
  BY <1>1, <1>2, <1>3, <1>6 DEF DrainInv, WrittenIsKept, Waits, Alive
<1>8. ServerIsReady'
  BY <1>1, <1>2, <1>3, <1>5 DEF ServerIsReady, Serves
<1>9. TargetServed' /\ ClientIsOpen' /\ OwedIsForwarded'
  BY <1>1 DEF DrainInv, TargetServed, ClientIsOpen, OwedIsForwarded
<1>10. QueueIsAnnounced'
  BY <1>1, <1>2, <1>3 DEF DrainInv, QueueIsAnnounced
<1>11. DrainReaches'
  BY <1>1, <1>2, <1>3 DEF DrainReaches, Serves
<1> QED BY <1>7, <1>8, <1>9, <1>10, <1>11 DEF DrainInv

(* The steps of a poll bring a request nearer, one each.                     *)
LEMMA PollConnectedDrains ==
  ASSUME IInv, OnceInv, DrainInv, NEW p \in Process, PollConnected(p)
  PROVE  DrainInv'
<1> DEFINE t == [Taken EXCEPT !.filled = FALSE]
<1>1. /\ pc[p] = "window" /\ win[p].ui \in {"polling", "draining"} /\ pipe.server = p
      /\ srv.op = "connect" /\ srv.steps < MaxSteps /\ srv' = BeginRead(t, pipe.data)
      /\ UNCHANGED <<pc, handles, win, pipe, opened, target, owed>>
  BY DEF PollConnected, Step, Ui
<1>2. /\ t \in SrvType /\ t.requests = srv.requests /\ t.immediate = "none" /\ t.filled = FALSE
      /\ t.steps = srv.steps + 1
  <2>1. Taken \in SrvType /\ Taken.requests = srv.requests /\ Taken.immediate = "none"
        /\ Taken.steps = srv.steps + 1
    BY <1>1, TakenFields, TakenSteps, DrainFacts
  <2> QED BY <2>1 DEF SrvType
<1> HIDE DEF t
<1>3. /\ srv'.op = "read" /\ ~srv'.filled /\ srv'.requests = srv.requests /\ srv'.steps = srv.steps + 1
      /\ srv'.immediate \in {"none", "broken"}
      /\ srv'.immediate = "none" => srv'.inFlight
      /\ srv'.immediate = "broken" => srv'.event /\ ~pipe.data /\ ~pipe.open
  <2>1. pipe \in PipeType /\ pipe.data \in BOOLEAN
    BY DrainFacts DEF PipeType
  <2> QED BY <1>1, <1>2, <2>1, ReadBegun
<1>4. ~srv.filled
  BY <1>1 DEF DrainInv, ServerIsReady
<1>5. \A q \in Process : Frame(q)' <=> Frame(q)
  BY <1>1, <1>3, <1>4 DEF Frame
<1>6. WrittenIsKept'
  BY <1>1, <1>3, <1>5 DEF DrainInv, WrittenIsKept, Waits, Alive
<1>7. ServerIsReady'
  BY <1>1, <1>3 DEF ServerIsReady, Serves
<1>8. TargetServed' /\ ClientIsOpen' /\ OwedIsForwarded' /\ QueueIsAnnounced'
  BY <1>1 DEF DrainInv, TargetServed, ClientIsOpen, OwedIsForwarded, QueueIsAnnounced
<1>9. DrainReaches'
  <2> SUFFICES ASSUME win[p].ui = "draining", NEW q \in owed[p], Frame(q)'
               PROVE  srv'.steps + Left' <= 3
    BY <1>1 DEF DrainReaches, Serves
  <2>1. q \in Process /\ Frame(q) /\ pipe.data
    BY <1>4, <1>5, DrainFacts DEF Frame
  <2>2. srv.steps + Left <= 3 /\ Left = 3 /\ Left' = 2
    BY <1>1, <1>3, <2>1 DEF DrainInv, DrainReaches, Serves, Left
  <2>3. srv.steps \in Nat
    BY DrainFacts, StepAssumption DEF SrvType
  <2> QED BY <1>3, <2>2, <2>3
<1> QED BY <1>6, <1>7, <1>8, <1>9 DEF DrainInv

LEMMA PollReadDrains ==
  ASSUME IInv, OnceInv, DrainInv, NEW p \in Process, PollRead(p)
  PROVE  DrainInv'
<1> DEFINE t == [Taken EXCEPT !.filled = TRUE]
<1>1. /\ pc[p] = "window" /\ win[p].ui \in {"polling", "draining"} /\ pipe.server = p
      /\ srv.op = "read" /\ srv.steps < MaxSteps /\ srv' = BeginRead(t, FALSE)
      /\ pipe'.server = p /\ pipe'.client = pipe.client /\ pipe'.open = pipe.open /\ ~pipe'.data
      /\ UNCHANGED <<pc, handles, win, opened, target, owed>>
  BY DrainFacts DEF PollRead, Step, Ui, PipeType
<1>2. pipe.data
  BY DrainFacts DEF PollRead, Step, Completion, KernelCompletion, SenderInPipe, PipeType
<1>3. /\ t \in SrvType /\ t.requests = srv.requests /\ t.immediate = "none" /\ t.filled = TRUE
      /\ t.steps = srv.steps + 1
  <2>1. Taken \in SrvType /\ Taken.requests = srv.requests /\ Taken.immediate = "none"
        /\ Taken.steps = srv.steps + 1
    BY <1>1, TakenFields, TakenSteps, DrainFacts
  <2> QED BY <2>1 DEF SrvType
<1> HIDE DEF t
<1>4. /\ srv'.op = "read" /\ srv'.filled /\ srv'.requests = srv.requests /\ srv'.steps = srv.steps + 1
      /\ srv'.immediate \in {"none", "broken"}
      /\ srv'.immediate = "none" => srv'.inFlight
      /\ srv'.immediate = "broken" => srv'.event /\ ~pipe.open
  BY <1>1, <1>3, DrainFacts, ReadBegun
<1>5. \A q \in Process : Frame(q)' <=> Frame(q)
  BY <1>1, <1>2, <1>4 DEF Frame
<1>6. WrittenIsKept'
  <2> SUFFICES ASSUME NEW q \in Process, NEW r \in Process, Waits(q, r)', Alive(r)'
               PROVE  Elem(q, win[r].queue) \/ (pipe'.server = r /\ (Elem(q, srv'.requests) \/ Frame(q)'))
    BY <1>1 DEF WrittenIsKept
  <2>1. Waits(q, r) /\ Alive(r)
    BY <1>1 DEF Waits, Alive
  <2>2. Elem(q, win[r].queue) \/ (pipe.server = r /\ (Elem(q, srv.requests) \/ Frame(q)))
    BY <2>1 DEF DrainInv, WrittenIsKept
  <2> QED BY <1>1, <1>4, <1>5, <2>2
<1>7. ServerIsReady'
  BY <1>1, <1>4 DEF ServerIsReady, Serves
<1>8. TargetServed' /\ ClientIsOpen' /\ OwedIsForwarded' /\ QueueIsAnnounced'
  BY <1>1 DEF DrainInv, TargetServed, ClientIsOpen, OwedIsForwarded, QueueIsAnnounced
<1>9. DrainReaches'
  <2> SUFFICES ASSUME win[p].ui = "draining", NEW q \in owed[p], Frame(q)'
               PROVE  srv'.steps + Left' <= 3
    BY <1>1 DEF DrainReaches, Serves
  <2>1. q \in Process /\ Frame(q)
    BY <1>5, DrainFacts
  <2>2. srv.steps + Left <= 3 /\ Left = 2 /\ Left' = 1
    BY <1>1, <1>2, <1>4, <2>1 DEF DrainInv, DrainReaches, Serves, Left
  <2>3. srv.steps \in Nat
    BY DrainFacts, StepAssumption DEF SrvType
  <2> QED BY <1>4, <2>2, <2>3
<1> QED BY <1>6, <1>7, <1>8, <1>9 DEF DrainInv

LEMMA PollBrokenDrains ==
  ASSUME IInv, OnceInv, DrainInv, NEW p \in Process, PollBroken(p)
  PROVE  DrainInv'
<1> DEFINE t == [Taken EXCEPT !.requests = IF srv.filled THEN Append(@, pipe.client) ELSE @]
           r == IF srv.filled THEN Append(srv.requests, pipe.client) ELSE srv.requests
<1>1. /\ pc[p] = "window" /\ win[p].ui \in {"polling", "draining"} /\ pipe.server = p
      /\ srv.steps < MaxSteps /\ srv' = Reconnect(t) /\ Completion = "broken"
      /\ pipe' = [NoPipe EXCEPT !.server = p]
      /\ UNCHANGED <<pc, handles, win, opened, target, owed>>
  BY DEF PollBroken, Step, Ui
<1>2. pipe.client \in Process /\ ~pipe.data
  <2>1. pipe.client \in Process
    BY <1>1, BrokenHasClient, DrainFacts
  <2>2. ~pipe.data
    BY <1>1 DEF Completion, KernelCompletion, DrainInv, ServerIsReady
  <2> QED BY <2>1, <2>2
<1>3. t.immediate = "none" /\ t.requests = r
  <2>1. Taken \in SrvType /\ Taken.requests = srv.requests /\ Taken.immediate = "none"
    BY <1>1, TakenFields, DrainFacts
  <2> QED BY <2>1 DEF SrvType
<1>4. /\ srv'.op = "connect" /\ ~srv'.filled /\ srv'.requests = r
      /\ srv'.immediate = "none" /\ srv'.inFlight
  <2>1. Taken \in SrvType
    BY <1>1, TakenFields, DrainFacts
  <2>2. DOMAIN t = DOMAIN Taken
    OBVIOUS
  <2> QED BY <1>1, <1>3, <2>1, <2>2 DEF Reconnect, InFlight, Arm, SrvType
<1> HIDE DEF t
<1>5. \A q \in Process : Elem(q, srv.requests) \/ Frame(q) => Elem(q, srv'.requests)
  <2>1. srv.requests \in Seq(Process)
    BY DrainFacts DEF SrvType
  <2>2. CASE srv.filled
    BY <1>2, <1>4, <2>1, <2>2, AppendFacts DEF Frame
  <2>3. CASE ~srv.filled
    BY <1>2, <1>4, <2>3 DEF Frame
  <2> QED BY <2>2, <2>3
<1> HIDE DEF r
<1>6. /\ pipe'.server = p /\ pipe'.client = None /\ ~pipe'.open /\ ~pipe'.data
      /\ \A q \in Process : ~Frame(q)'
  BY <1>1, DrainFacts DEF NoPipe, Frame
<1>7. WrittenIsKept'
  BY <1>1, <1>5, <1>6 DEF DrainInv, WrittenIsKept, Waits, Alive
<1>8. ServerIsReady'
  BY <1>1, <1>4, <1>6 DEF ServerIsReady, Serves
<1>9. TargetServed' /\ ClientIsOpen' /\ OwedIsForwarded' /\ QueueIsAnnounced'
  BY <1>1, <1>6 DEF DrainInv, TargetServed, ClientIsOpen, OwedIsForwarded, QueueIsAnnounced
<1>10. DrainReaches'
  BY <1>1, <1>6, DrainFacts DEF DrainReaches
<1> QED BY <1>7, <1>8, <1>9, <1>10 DEF DrainInv

(* After a poll its requests are in the queue, with a message posted.        *)
LEMMA EndPollDrains ==
  ASSUME IInv, OnceInv, DrainInv, NEW p \in Process, EndPoll(p)
  PROVE  DrainInv'
<1> DEFINE w == [win[p] EXCEPT !.ui = "idle", !.queue = @ \o Polled(p), !.posted = @ \/ Polled(p) # <<>>]
<1>1. /\ pc[p] = "window" /\ win[p].ui = "polling" /\ srv' = Rested(p)
      /\ win' = [win EXCEPT ![p] = w]
      /\ UNCHANGED <<pc, pipe, opened, target, owed>>
  BY DEF EndPoll, Ui
<1>2. /\ Polled(p) \in Seq(Process) /\ win[p].queue \in Seq(Process) /\ win[p] \in WinType
  BY DrainFacts, PolledTypes DEF WinType
<1>3. win[p].queue \o Polled(p) \in Seq(Process)
  BY <1>2, ConcatFacts
<1>4. /\ w \in WinType /\ w.ui = "idle" /\ w.queue = win[p].queue \o Polled(p)
      /\ w.posted <=> (win[p].posted \/ Polled(p) # <<>>)
      /\ w.held = win[p].held /\ w.restoring = win[p].restoring
  BY <1>2, <1>3 DEF WinType, UiStates
<1>5. win'[p] = w /\ \A q \in Process \ {p} : win'[q] = win[q]
  BY <1>1, <1>4, DrainFacts, WinChanges
<1> HIDE DEF w
<1>6. \A q \in Process : Elem(q, win[p].queue) \/ Elem(q, Polled(p)) => Elem(q, win'[p].queue)
  <2>1. win'[p].queue = win[p].queue \o Polled(p)
    BY <1>4, <1>5
  <2>2. \A q \in Process : Elem(q, win[p].queue) \/ Elem(q, Polled(p))
                             => Elem(q, win[p].queue \o Polled(p))
    BY <1>2, ConcatFacts
  <2> QED BY <2>1, <2>2
<1>7. Polled(p) = <<>> => win'[p].queue = win[p].queue
  BY <1>2, <1>4, <1>5
<1>8. /\ pipe.server = p => srv'.requests = <<>> /\ srv'.steps = 0 /\ Polled(p) = srv.requests
      /\ pipe.server # p => srv' = srv
      /\ srv'.op = srv.op /\ srv'.filled = srv.filled /\ srv'.immediate = srv.immediate
      /\ srv'.inFlight = srv.inFlight /\ srv'.event = srv.event
  BY <1>1, DrainFacts DEF Rested, Polled, SrvType
<1>9. \A q \in Process : Frame(q)' <=> Frame(q)
  BY <1>1, <1>8 DEF Frame
<1>10. WrittenIsKept'
  BY <1>1, <1>4, <1>5, <1>6, <1>8, <1>9 DEF DrainInv, WrittenIsKept, Waits, Alive
<1>11. ServerIsReady'
  <2>1. \A q \in Process : Serves(q)' <=> Serves(q)
    BY <1>1 DEF Serves
  <2> QED BY <1>1, <1>4, <1>5, <1>8, <2>1 DEF DrainInv, ServerIsReady, Serves
<1>12. TargetServed' /\ ClientIsOpen' /\ OwedIsForwarded'
  BY <1>1 DEF DrainInv, TargetServed, ClientIsOpen, OwedIsForwarded
<1>13. QueueIsAnnounced'
  BY <1>1, <1>4, <1>5, <1>7 DEF DrainInv, QueueIsAnnounced
<1>14. DrainReaches'
  <2>1. Left' = Left
    BY <1>1, <1>8 DEF Left
  <2> SUFFICES ASSUME NEW r \in Process, Serves(r)', win'[r].ui = "draining", NEW q \in owed[r], Frame(q)'
               PROVE  srv'.steps + Left' <= 3
    BY <1>1 DEF DrainReaches
  <2>2. r # p /\ Serves(r) /\ win[r].ui = "draining" /\ q \in Process /\ Frame(q)
    BY <1>1, <1>4, <1>5, <1>9, DrainFacts DEF Serves
  <2>3. srv.steps + Left <= 3 /\ pipe.server # p
    BY <2>2 DEF DrainInv, DrainReaches, Serves
  <2> QED BY <1>8, <2>1, <2>3
<1> QED BY <1>10, <1>11, <1>12, <1>13, <1>14 DEF DrainInv

(* Opening a queue opens each of its requests, and forgets nothing opened.   *)
LEMMA OpenedGrows ==
  ASSUME opened \in [Process -> Nat], NEW s \in Seq(Process), opened' = OpenAll(s),
         NEW q \in Process
  PROVE  opened'[q] >= opened[q] /\ (Elem(q, s) => opened'[q] # 0)
<1> DEFINE places == {i \in DOMAIN s : s[i] = q}
<1>1. opened'[q] = opened[q] + Opens(q, s) /\ Opens(q, s) \in Nat /\ opened[q] \in Nat
  BY OpensIsNat DEF OpenAll
<1>2. IsFiniteSet(places)
  <2>1. DOMAIN s = 1..Len(s) /\ Len(s) \in Nat
    BY LenProperties
  <2>2. IsFiniteSet(1..Len(s))
    BY <2>1, FS_Interval
  <2> QED BY <2>1, <2>2, FS_Subset
<1>3. ASSUME Elem(q, s) PROVE Opens(q, s) # 0
  <2>1. places # {}
    BY <1>3 DEF Elem
  <2> QED BY <1>2, <2>1, FS_EmptySet DEF Opens
<1> QED BY <1>1, <1>3

(* The posted message opens the queue.                                       *)
LEMMA HandleDrains ==
  ASSUME IInv, OnceInv, DrainInv, NEW p \in Process, Handle(p), ~win[p].restoring
  PROVE  DrainInv'
<1> DEFINE w == [win[p] EXCEPT !.posted = FALSE, !.queue = <<>>]
<1>1. /\ pc[p] = "window" /\ win[p].ui = "idle" /\ win' = [win EXCEPT ![p] = w]
      /\ opened' = OpenAll(win[p].queue)
      /\ UNCHANGED <<pc, pipe, srv, target, owed>>
  BY DEF Handle, Ui
<1>2. win[p] \in WinType /\ win[p].queue \in Seq(Process) /\ <<>> \in Seq(Process)
  BY DrainFacts DEF WinType
<1>3. w \in WinType /\ w.ui = "idle" /\ w.queue = <<>> /\ w.held = win[p].held
  BY <1>1, <1>2 DEF WinType
<1>4. win'[p] = w /\ \A q \in Process \ {p} : win'[q] = win[q]
  BY <1>1, <1>3, DrainFacts, WinChanges
<1> HIDE DEF w
<1>5. \A q \in Process : opened'[q] = 0 => opened[q] = 0 /\ ~Elem(q, win[p].queue)
  <2> SUFFICES ASSUME NEW q \in Process, opened'[q] = 0
               PROVE  opened[q] = 0 /\ ~Elem(q, win[p].queue)
    OBVIOUS
  <2>1. opened[q] \in Nat
    BY DrainFacts
  <2>2. opened'[q] >= opened[q] /\ (Elem(q, win[p].queue) => opened'[q] # 0)
    BY <1>1, <1>2, DrainFacts, OpenedGrows
  <2> QED BY <2>1, <2>2
<1>6. \A q \in Process : Frame(q)' <=> Frame(q)
  BY <1>1 DEF Frame
<1>7. WrittenIsKept'
  <2> SUFFICES ASSUME NEW q \in Process, NEW r \in Process, Waits(q, r)', Alive(r)'
               PROVE  Elem(q, win'[r].queue) \/ (pipe.server = r /\ (Elem(q, srv.requests) \/ Frame(q)))
    BY <1>1, <1>6 DEF WrittenIsKept
  <2>1. Waits(q, r) /\ ~Elem(q, win[p].queue)
    BY <1>1, <1>5 DEF Waits
  <2>2. Alive(r)
    BY <1>1, <1>4 DEF Alive
  <2>3. Elem(q, win[r].queue) \/ (pipe.server = r /\ (Elem(q, srv.requests) \/ Frame(q)))
    BY <2>1, <2>2 DEF DrainInv, WrittenIsKept
  <2> QED BY <1>4, <2>1, <2>3
<1>8. ServerIsReady'
  BY <1>1, <1>3, <1>4 DEF DrainInv, ServerIsReady, Serves
<1>9. TargetServed' /\ ClientIsOpen' /\ OwedIsForwarded'
  BY <1>1 DEF DrainInv, TargetServed, ClientIsOpen, OwedIsForwarded
<1>10. QueueIsAnnounced'
  BY <1>1, <1>3, <1>4 DEF DrainInv, QueueIsAnnounced
<1>11. DrainReaches'
  <2>1. Left' = Left
    BY <1>1 DEF Left
  <2> QED BY <1>1, <1>3, <1>4, <1>6, <2>1, DrainFacts DEF DrainInv, DrainReaches, Serves
<1> QED BY <1>7, <1>8, <1>9, <1>10, <1>11 DEF DrainInv

(* A close opens its queue and what its poll brought.                        *)
LEMMA EndDrainDrains ==
  ASSUME IInv, OnceInv, DrainInv, NEW p \in Process, EndDrain(p)
  PROVE  DrainInv'
<1> DEFINE w == [win[p] EXCEPT !.ui = "review", !.queue = <<>>, !.posted = @ \/ Polled(p) # <<>>]
           all == win[p].queue \o Polled(p)
<1>1. /\ pc[p] = "window" /\ win[p].ui = "draining" /\ srv' = Rested(p)
      /\ win' = [win EXCEPT ![p] = w] /\ opened' = OpenAll(all)
      /\ UNCHANGED <<pc, pipe, target, owed>>
  BY DEF EndDrain, Ui
<1>2. /\ Polled(p) \in Seq(Process) /\ win[p].queue \in Seq(Process) /\ win[p] \in WinType
      /\ <<>> \in Seq(Process)
  BY DrainFacts, PolledTypes DEF WinType
<1>3. w \in WinType /\ w.ui = "review" /\ w.queue = <<>> /\ w.held = win[p].held
  BY <1>2 DEF WinType, UiStates
<1>4. win'[p] = w /\ \A q \in Process \ {p} : win'[q] = win[q]
  BY <1>1, <1>3, DrainFacts, WinChanges
<1>5. /\ all \in Seq(Process)
      /\ \A q \in Process : Elem(q, win[p].queue) \/ Elem(q, Polled(p)) => Elem(q, all)
  BY <1>2, ConcatFacts
<1> HIDE DEF w, all
<1>6. \A q \in Process : opened'[q] = 0
        => opened[q] = 0 /\ ~Elem(q, win[p].queue) /\ ~Elem(q, Polled(p))
  <2> SUFFICES ASSUME NEW q \in Process, opened'[q] = 0 PROVE opened[q] = 0 /\ ~Elem(q, all)
    BY <1>5
  <2>1. opened[q] \in Nat
    BY DrainFacts
  <2>2. opened'[q] >= opened[q] /\ (Elem(q, all) => opened'[q] # 0)
    BY <1>1, <1>5, DrainFacts, OpenedGrows
  <2> QED BY <2>1, <2>2
<1>7. /\ pipe.server = p => srv'.requests = <<>> /\ srv'.steps = 0 /\ Polled(p) = srv.requests
      /\ pipe.server # p => srv' = srv
      /\ srv'.op = srv.op /\ srv'.filled = srv.filled /\ srv'.immediate = srv.immediate
      /\ srv'.inFlight = srv.inFlight /\ srv'.event = srv.event
  BY <1>1, DrainFacts DEF Rested, Polled, SrvType
<1>8. \A q \in Process : Frame(q)' <=> Frame(q)
  BY <1>1, <1>7 DEF Frame
<1>9. WrittenIsKept'
  <2> SUFFICES ASSUME NEW q \in Process, NEW r \in Process, Waits(q, r)', Alive(r)'
               PROVE  Elem(q, win'[r].queue) \/ (pipe.server = r /\ (Elem(q, srv'.requests) \/ Frame(q)))
    BY <1>1, <1>8 DEF WrittenIsKept
  <2>1. Waits(q, r) /\ ~Elem(q, win[p].queue) /\ ~Elem(q, Polled(p))
    BY <1>1, <1>6 DEF Waits
  <2>2. Alive(r)
    BY <1>1, <1>4 DEF Alive
  <2>3. Elem(q, win[r].queue) \/ (pipe.server = r /\ (Elem(q, srv.requests) \/ Frame(q)))
    BY <2>1, <2>2 DEF DrainInv, WrittenIsKept
  <2> QED BY <1>4, <1>7, <2>1, <2>3
<1>10. ServerIsReady'
  <2>1. \A q \in Process : Serves(q)' <=> Serves(q)
    BY <1>1 DEF Serves
  <2> QED BY <1>1, <1>3, <1>4, <1>7, <2>1 DEF DrainInv, ServerIsReady, Serves
<1>11. TargetServed' /\ ClientIsOpen' /\ OwedIsForwarded'
  BY <1>1 DEF DrainInv, TargetServed, ClientIsOpen, OwedIsForwarded
<1>12. QueueIsAnnounced'
  BY <1>1, <1>3, <1>4 DEF DrainInv, QueueIsAnnounced
<1>13. DrainReaches'
  <2>1. Left' = Left
    BY <1>1, <1>7 DEF Left
  <2> SUFFICES ASSUME NEW r \in Process, Serves(r)', win'[r].ui = "draining", NEW q \in owed[r], Frame(q)'
               PROVE  srv'.steps + Left' <= 3
    BY <1>1 DEF DrainReaches
  <2>2. r # p /\ Serves(r) /\ win[r].ui = "draining" /\ q \in Process /\ Frame(q)
    BY <1>1, <1>3, <1>4, <1>8, DrainFacts DEF Serves
  <2>3. srv.steps + Left <= 3 /\ pipe.server # p
    BY <2>2 DEF DrainInv, DrainReaches, Serves
  <2> QED BY <1>7, <2>1, <2>3
<1> QED BY <1>9, <1>10, <1>11, <1>12, <1>13 DEF DrainInv

(* The server end is closed: its window is leaving, or dead.                 *)
LEMMA ServerEndCloses ==
  ASSUME pipe \in PipeType, pipe' = WithoutServer(pipe)
  PROVE  /\ pipe'.server = None
         /\ pipe'.open => pipe.open /\ pipe'.client = pipe.client
BY DEF WithoutServer, NoPipe, PipeType

LEMMA DropPipeDrains ==
  ASSUME IInv, OnceInv, DrainInv, NEW p \in Process, DropPipe(p)
  PROVE  DrainInv'
<1> DEFINE w == [win[p] EXCEPT !.ui = "leaving"]
<1>1. /\ pc[p] = "window" /\ win[p].ui = "review" /\ win' = [win EXCEPT ![p] = w]
      /\ UNCHANGED <<pc, opened, target, owed>>
  BY DEF DropPipe, Ui
<1>2. /\ w \in WinType /\ w.ui = "leaving" /\ w.queue = win[p].queue /\ w.posted = win[p].posted
      /\ w.held = win[p].held /\ w.restoring = win[p].restoring
  <2>1. win[p] \in WinType
    BY DrainFacts
  <2> QED BY <2>1 DEF WinType, UiStates
<1>3. win'[p] = w /\ \A q \in Process \ {p} : win'[q] = win[q]
  BY <1>1, <1>2, DrainFacts, WinChanges
<1> HIDE DEF w
<1>4. TargetServed' /\ OwedIsForwarded' /\ QueueIsAnnounced'
  BY <1>1, <1>2, <1>3 DEF DrainInv, TargetServed, OwedIsForwarded, QueueIsAnnounced
<1>5. \A q, r \in Process : Waits(q, r)' /\ Alive(r)' => r # p /\ Waits(q, r) /\ Alive(r)
  BY <1>1, <1>2, <1>3 DEF Waits, Alive
<1>6. CASE pipe.server = p
  <2>1. pipe' = WithoutServer(pipe) /\ srv' = NoServer
    BY <1>6 DEF DropPipe
  <2>2. pipe'.server = None /\ (pipe'.open => pipe.open /\ pipe'.client = pipe.client)
    BY <2>1, DrainFacts, ServerEndCloses
  <2>3. WrittenIsKept'
    BY <1>3, <1>5, <1>6 DEF DrainInv, WrittenIsKept
  <2>4. ServerIsReady' /\ DrainReaches'
    BY <2>1, <2>2, DrainFacts DEF ServerIsReady, DrainReaches, Serves, NoServer
  <2>5. ClientIsOpen'
    BY <1>1, <2>2 DEF DrainInv, ClientIsOpen
  <2> QED BY <1>4, <2>3, <2>4, <2>5 DEF DrainInv
<1>7. CASE pipe.server # p
  <2>1. pipe' = pipe /\ srv' = srv
    BY <1>7 DEF DropPipe
  <2>2. \A q \in Process : Frame(q)' <=> Frame(q)
    BY <2>1 DEF Frame
  <2>3. WrittenIsKept'
    BY <1>3, <1>5, <2>1, <2>2 DEF DrainInv, WrittenIsKept
  <2>4. ServerIsReady'
    BY <1>1, <1>3, <1>7, <2>1 DEF DrainInv, ServerIsReady, Serves
  <2>5. ClientIsOpen'
    BY <1>1, <2>1 DEF DrainInv, ClientIsOpen
  <2>6. DrainReaches'
    <3>1. Left' = Left
      BY <2>1 DEF Left
    <3> QED BY <1>1, <1>3, <1>7, <2>1, <2>2, <3>1, DrainFacts DEF DrainInv, DrainReaches, Serves
  <2> QED BY <1>4, <2>3, <2>4, <2>5, <2>6 DEF DrainInv
<1> QED BY <1>6, <1>7

(* A process ends, in good order or not, with its window.                    *)
LEMMA EndDrains ==
  ASSUME IInv, OnceInv, DrainInv, NEW p \in Process, ReleaseMutex(p) \/ Crash(p)
  PROVE  DrainInv'
<1>1. /\ UNCHANGED <<pipe, srv, opened, target>>
      /\ pc[p] # "forwarded"
      /\ pc' = [pc EXCEPT ![p] = pc'[p]] /\ pc'[p] \in {"gone", "crashed"}
      /\ pc'[p] = "gone" => pc[p] = "window" /\ win[p].ui = "leaving"
      /\ win' = [win EXCEPT ![p] = NoWindow]
      /\ owed' = [owed EXCEPT ![p] = {}]
  BY DrainFacts DEF ReleaseMutex, Crash, Ended, Ui
<1>2. \A q \in Process \ {p} : pc'[q] = pc[q] /\ win'[q] = win[q] /\ owed'[q] = owed[q]
  BY <1>1, DrainFacts
<1>3. win'[p] = NoWindow /\ owed'[p] = {}
  BY <1>1, DrainFacts
<1>4. \A q \in Process : Frame(q)' <=> Frame(q)
  BY <1>1 DEF Frame
<1>5. \A q, r \in Process : Waits(q, r)' /\ Alive(r)' => r # p /\ Waits(q, r) /\ Alive(r)
  BY <1>1, <1>2 DEF Waits, Alive
<1>6. WrittenIsKept'
  BY <1>1, <1>2, <1>4, <1>5 DEF DrainInv, WrittenIsKept
<1>7. \A q \in Process : Serves(q)' => q # p /\ Serves(q)
  BY <1>1, <1>2 DEF Serves
<1>8. ServerIsReady'
  BY <1>1, <1>2, <1>7 DEF DrainInv, ServerIsReady
<1>9. TargetServed'
  BY <1>1, <1>2, DrainFacts DEF DrainInv, TargetServed
<1>10. ClientIsOpen'
  BY <1>1, <1>2 DEF DrainInv, ClientIsOpen
<1>11. QueueIsAnnounced'
  BY <1>2, <1>3 DEF DrainInv, QueueIsAnnounced, NoWindow
<1>12. OwedIsForwarded'
  BY <1>1, <1>2, <1>3, DrainFacts DEF DrainInv, OwedIsForwarded
<1>13. DrainReaches'
  <2>1. Left' = Left
    BY <1>1 DEF Left
  <2> QED BY <1>1, <1>2, <1>4, <1>7, <2>1, DrainFacts DEF DrainInv, DrainReaches
<1> QED BY <1>6, <1>8, <1>9, <1>10, <1>11, <1>12, <1>13 DEF DrainInv

(* The kernel closes a handle of a dead process.                             *)
LEMMA RundownDrains ==
  ASSUME IInv, OnceInv, DrainInv, NEW p \in Process, Rundown(p)
  PROVE  DrainInv'
<1>1. pc[p] = "crashed" /\ UNCHANGED <<pc, win, opened, target, owed>>
  BY DEF Rundown
<1>2. TargetServed' /\ OwedIsForwarded' /\ QueueIsAnnounced'
  BY <1>1 DEF DrainInv, TargetServed, OwedIsForwarded, QueueIsAnnounced
<1>3. \A q, r \in Process : Waits(q, r)' /\ Alive(r)' => r # p /\ q # p /\ Waits(q, r) /\ Alive(r)
  BY <1>1 DEF Waits, Alive
<1>4. CASE UNCHANGED <<pipe, srv>>
  BY <1>1, <1>2, <1>3, <1>4 DEF DrainInv, WrittenIsKept, ServerIsReady, ClientIsOpen, DrainReaches,
                                Serves, Frame, Left
<1>5. CASE pipe' = WithoutServer(pipe) /\ srv' = NoServer /\ pipe.server = p
  <2>1. pipe'.server = None /\ (pipe'.open => pipe.open /\ pipe'.client = pipe.client)
    BY <1>5, DrainFacts, ServerEndCloses
  <2>2. WrittenIsKept'
    BY <1>1, <1>3, <1>5 DEF DrainInv, WrittenIsKept
  <2>3. ServerIsReady' /\ DrainReaches'
    BY <1>5, <2>1, DrainFacts DEF ServerIsReady, DrainReaches, Serves, NoServer
  <2>4. ClientIsOpen'
    BY <1>1, <2>1 DEF DrainInv, ClientIsOpen
  <2> QED BY <1>2, <2>2, <2>3, <2>4 DEF DrainInv
<1>6. CASE pipe' = WithoutClient(pipe) /\ srv' = srv /\ pipe.client = p
  <2>1. CASE pipe.server = None
    <3>1. pipe' = NoPipe /\ srv = NoServer
      BY <1>6, <2>1, DrainFacts DEF WithoutClient, NoServerWithoutPipe
    <3>2. WrittenIsKept'
      BY <1>1, <1>3, <2>1, DrainFacts DEF DrainInv, WrittenIsKept
    <3>3. ServerIsReady' /\ DrainReaches' /\ ClientIsOpen'
      BY <1>6, <3>1, DrainFacts DEF ServerIsReady, DrainReaches, ClientIsOpen, Serves, NoPipe, NoServer
    <3> QED BY <1>2, <3>2, <3>3 DEF DrainInv
  <2>2. CASE pipe.server # None
    <3>1. /\ pipe'.server = pipe.server /\ pipe'.client = p /\ ~pipe'.open /\ pipe'.data = pipe.data
      BY <1>6, <2>2, DrainFacts DEF WithoutClient, PipeType
    <3>2. \A q \in Process : Frame(q)' <=> Frame(q)
      BY <1>6, <3>1 DEF Frame
    <3>3. WrittenIsKept'
      BY <1>1, <1>3, <1>6, <3>1, <3>2 DEF DrainInv, WrittenIsKept
    <3>4. ServerIsReady' /\ ClientIsOpen'
      BY <1>1, <1>6, <3>1 DEF DrainInv, ServerIsReady, ClientIsOpen, Serves
    <3>5. DrainReaches'
      BY <1>1, <1>6, <3>1, <3>2, DrainFacts DEF DrainInv, DrainReaches, Serves, Left
    <3> QED BY <1>2, <3>3, <3>4, <3>5 DEF DrainInv
  <2> QED BY <2>1, <2>2
<1> QED BY <1>4, <1>5, <1>6 DEF Rundown

LEMMA DrainStep == IInv /\ OnceInv /\ DrainInv /\ [Next]_vars => DrainInv'
<1> SUFFICES ASSUME IInv, OnceInv, DrainInv, [Next]_vars PROVE DrainInv'
  OBVIOUS
<1>1. CASE UNCHANGED vars
  BY <1>1 DEF vars, DrainInv, WrittenIsKept, ServerIsReady, TargetServed, ClientIsOpen,
     QueueIsAnnounced, OwedIsForwarded, DrainReaches, Waits, Alive, Serves, Frame, Left
<1>2. CASE Next
  BY <1>2, LaunchDrains, ConnectDrains, WriteDrains, SendFailsDrains, CloseClientDrains,
     MessageDrains, BindDrains, BindConnectDrains, PollConnectedDrains, PollReadDrains,
     PollBrokenDrains, EndPollDrains, HandleDrains, EndDrainDrains, DropPipeDrains, EndDrains,
     RundownDrains DEF Next, Launch, Thread, Poll
<1> QED BY <1>1, <1>2

LEMMA DrainInit == Init => DrainInv
BY NoneIsNoProcess, EmptyFacts
DEF Init, DrainInv, WrittenIsKept, ServerIsReady, TargetServed, ClientIsOpen, QueueIsAnnounced,
    OwedIsForwarded, DrainReaches, Waits, Serves, Frame, NoPipe, NoServer, NoWindow

THEOREM DrainInvariance == Spec => [](IInv /\ OnceInv /\ DrainInv)
<1>1. Init => OnceInv /\ DrainInv
  BY OnceInit, DrainInit
<1>2. IInv /\ OnceInv /\ [Next]_vars => OnceInv'
  BY OnceStays
<1>3. IInv /\ OnceInv /\ DrainInv /\ [Next]_vars => DrainInv'
  BY DrainStep
<1> QED BY <1>1, <1>2, <1>3, Invariance, PTL DEF Spec
-----------------------------------------------------------------------------
(* A whole frame of a launch that has exited keeps its server busy: there is *)
(* a completion to take, and the event the loop waits on is set.             *)
LEMMA FrameCompletes ==
  ASSUME IInv, OnceInv, DrainInv, NEW p \in Process, NEW q \in Process,
         Serves(p), win[p].ui # "binding", pc[q] = "forwarded", Frame(q)
  PROVE  Completion # "pending" /\ Signalled
<1>1. pipe.client = q /\ ~pipe.open /\ pipe.client # None
  BY DrainFacts DEF Frame, DrainInv, ClientIsOpen
<1>2. srv.inFlight \/ srv.immediate # "none"
  BY DEF DrainInv, ServerIsReady
<1>3. srv.op \in {"connect", "read"} /\ srv.immediate \in {"none", "done", "broken"}
  BY DrainFacts DEF SrvType
<1>4. KernelCompletion # "pending"
  <2>1. CASE srv.op = "connect"
    BY <1>1, <2>1 DEF KernelCompletion
  <2>2. CASE srv.op = "read" /\ pipe.data
    BY <2>2 DEF KernelCompletion
  <2>3. CASE srv.op = "read" /\ ~pipe.data
    BY <1>1, <2>3 DEF KernelCompletion
  <2> QED BY <1>3, <2>1, <2>2, <2>3
<1>5. CASE srv.immediate # "none"
  BY <1>3, <1>5 DEF Completion, Signalled, DrainInv, ServerIsReady
<1>6. CASE srv.immediate = "none"
  BY <1>2, <1>4, <1>6 DEF Completion, Signalled
<1> QED BY <1>5, <1>6

(* What a close owes is in its queue or its poll when the drain ends: the    *)
(* poll takes three steps at most to the end of a request's frame.           *)
LEMMA DrainHasIt ==
  ASSUME MaxSteps >= 3, IInv, OnceInv, DrainInv, NEW p \in Process, EndDrain(p), NEW q \in owed[p],
         opened[q] = 0
  PROVE  Elem(q, win[p].queue) \/ Elem(q, Polled(p))
<1>1. q \in Process /\ pc[q] = "forwarded" /\ target[q] = p
  BY DrainFacts DEF DrainInv, OwedIsForwarded
<1>2. pc[p] = "window" /\ win[p].ui = "draining" /\ PollOver(p)
  BY DEF EndDrain, Ui
<1>3. Elem(q, win[p].queue) \/ (pipe.server = p /\ (Elem(q, srv.requests) \/ Frame(q)))
  BY <1>1, <1>2 DEF DrainInv, WrittenIsKept, Waits, Alive
<1>4. ASSUME pipe.server = p, Frame(q) PROVE FALSE
  <2>1. Serves(p) /\ win[p].ui = "draining"
    BY <1>2, <1>4 DEF Serves
  <2>2. Completion # "pending"
    BY <1>1, <1>4, <2>1, FrameCompletes
  <2>3. srv.steps = MaxSteps /\ MaxSteps \in Nat
    BY <1>2, <1>4, <2>2, StepAssumption DEF PollOver
  <2>4. srv.steps + Left <= 3 /\ Left \in 1..3
    BY <1>4, <2>1 DEF DrainInv, DrainReaches, Left
  <2> QED BY <2>3, <2>4
<1> QED BY <1>3, <1>4 DEF Polled

(* Only the end of a drain begins a review, and only the beginning of a      *)
(* close owes anything.                                                      *)
LEMMA OwedStays ==
  ASSUME IInv, [Next]_vars, ~\E p \in Process : EndDrain(p), NEW r \in Process,
         Ui(r, {"review", "leaving"})'
  PROVE  Ui(r, {"review", "leaving"}) /\ owed'[r] \subseteq owed[r]
<1>1. /\ pc \in [Process -> PcStates] /\ win \in [Process -> WinType]
      /\ owed \in [Process -> SUBSET Process] /\ OffIsIdle
  BY TypeParts DEF IInv
<1>2. \A p \in Process : win[p] \in WinType
  BY <1>1
<1>3. CASE pc' = pc /\ win' = win /\ owed' = owed
  BY <1>3 DEF Ui
<1>4. ASSUME NEW p \in Process, Claim(p) \/ Independent(p) \/ Launch(p) \/ Crash(p) \/ ReleaseMutex(p)
      PROVE  Ui(r, {"review", "leaving"}) /\ owed'[r] \subseteq owed[r]
  <2>1. /\ win' = win \/ win' = [win EXCEPT ![p] = NoWindow]
        /\ owed' = owed \/ owed' = [owed EXCEPT ![p] = {}]
        /\ \A q \in Process \ {p} : pc'[q] = pc[q]
        /\ pc'[p] = "window" => pc[p] = "off" /\ win' = win
    BY <1>1, <1>4 DEF Claim, Independent, Launch, DropHandle, Connect, GiveUp, Write, SendFails,
       CloseClient, Crash, ReleaseMutex
  <2>2. r # p
    BY <1>1, <2>1 DEF Ui, OffIsIdle
  <2> QED BY <1>1, <2>1, <2>2 DEF Ui
<1>5. ASSUME NEW p \in Process, EndModal(p) \/ BeginClose(p) \/ DropPipe(p) \/ HoldWhileModal(p)
                                \/ Wake(p) \/ Ask(p)
      PROVE  Ui(r, {"review", "leaving"}) /\ owed'[r] \subseteq owed[r]
  <2>1. /\ pc' = pc
        /\ \A q \in Process \ {p} : win'[q] = win[q] /\ owed'[q] = owed[q]
    BY <1>1, <1>5 DEF EndModal, BeginClose, DropPipe, HoldWhileModal, Wake, Ask
  <2>2. CASE r # p
    BY <2>1, <2>2 DEF Ui
  <2>3. \/ win'[p].ui \in {"idle", "polling", "asking", "draining"}
        \/ owed' = owed /\ pc[p] = "window" /\ win[p].ui = "review"
        \/ owed' = owed /\ win'[p].ui = win[p].ui
    <3>1. CASE EndModal(p)
      BY <1>1, <1>2, <3>1 DEF EndModal, WinType
    <3>2. CASE HoldWhileModal(p)
      BY <1>1, <1>2, <3>2 DEF HoldWhileModal, WinType
    <3>3. CASE Wake(p) \/ Ask(p) \/ BeginClose(p)
      BY <1>1, <1>2, <3>3 DEF Wake, Ask, BeginClose, WinType
    <3>4. CASE DropPipe(p)
      BY <3>4 DEF DropPipe, Ui
    <3> QED BY <1>5, <3>1, <3>2, <3>3, <3>4
  <2>4. CASE r = p
    BY <2>1, <2>3, <2>4 DEF Ui
  <2> QED BY <2>2, <2>4
<1>6. ASSUME NEW p \in Process,
             FinishRestore(p) \/ Handle(p) \/ EndPoll(p) \/ BindConnect(p)
               \/ (\E restoring \in BOOLEAN : Bind(p, restoring))
      PROVE  Ui(r, {"review", "leaving"}) /\ owed'[r] \subseteq owed[r]
  <2>1. /\ pc' = pc /\ owed' = owed
        /\ \A q \in Process \ {p} : win'[q] = win[q]
    BY <1>1, <1>6 DEF FinishRestore, Handle, EndPoll, BindConnect, Bind
  <2>2. CASE r # p
    BY <2>1, <2>2 DEF Ui
  <2>3. win'[p].ui \in {"idle", "binding"}
    <3>1. CASE FinishRestore(p)
      BY <1>1, <1>2, <3>1 DEF FinishRestore, Ui, WinType
    <3>2. CASE Handle(p)
      <4>1. win'[p] = [win[p] EXCEPT !.posted = FALSE]
              \/ win'[p] = [win[p] EXCEPT !.posted = FALSE, !.queue = <<>>]
        BY <1>1, <3>2 DEF Handle
      <4>2. win[p].ui = "idle" /\ win[p] \in WinType
        BY <1>2, <3>2 DEF Handle, Ui
      <4> QED BY <4>1, <4>2 DEF WinType
    <3>3. CASE EndPoll(p)
      BY <1>1, <1>2, <3>3 DEF EndPoll, WinType
    <3>4. CASE BindConnect(p)
      BY <1>1, <1>2, <3>4 DEF BindConnect, WinType
    <3>5. CASE \E restoring \in BOOLEAN : Bind(p, restoring)
      <4>1. PICK restoring \in BOOLEAN :
              \/ win'[p] = [win[p] EXCEPT !.restoring = restoring]
              \/ win'[p] = [win[p] EXCEPT !.restoring = restoring, !.ui = "binding"]
        BY <1>1, <3>5 DEF Bind
      <4>2. win[p].ui = "idle" /\ win[p] \in WinType
        BY <1>2, <3>5 DEF Bind, Ui
      <4> QED BY <4>1, <4>2 DEF WinType
    <3> QED BY <1>6, <3>1, <3>2, <3>3, <3>4, <3>5
  <2>4. CASE r = p
    BY <2>3, <2>4 DEF Ui
  <2> QED BY <2>2, <2>4
<1>7. ASSUME NEW p \in Process, Poll(p) \/ Rundown(p)
      PROVE  pc' = pc /\ win' = win /\ owed' = owed
  BY <1>7 DEF Poll, PollConnected, PollRead, PollBroken, Step, Rundown
<1> QED BY <1>3, <1>4, <1>5, <1>6, <1>7 DEF Next, Thread, vars

LEMMA OwedStep ==
  ASSUME MaxSteps >= 3
  PROVE  IInv /\ OnceInv /\ DrainInv /\ OnceInv' /\ DrainOpensOwed /\ [Next]_vars => DrainOpensOwed'
<1> SUFFICES ASSUME IInv, OnceInv, DrainInv, OnceInv', DrainOpensOwed, [Next]_vars
             PROVE  DrainOpensOwed'
  OBVIOUS
<1>1. \A q \in Process : opened[q] \in {0, 1} /\ opened'[q] \in {0, 1}
  BY DEF OnceInv, EachOnce
<1>2. \A q \in Process : opened[q] = 1 => opened'[q] = 1
  <2>1. ASSUME NEW p \in Process, Handle(p) \/ EndDrain(p), NEW q \in Process
        PROVE  opened'[q] = opened[q] \/ opened'[q] >= opened[q]
    <3>1. win[p].queue \in Seq(Process) /\ win[p].queue \o Polled(p) \in Seq(Process)
      <4>1. win[p].queue \in Seq(Process) /\ Polled(p) \in Seq(Process)
        BY DrainFacts, PolledTypes DEF WinType
      <4> QED BY <4>1, ConcatFacts
    <3>2. \/ opened' = opened
          \/ opened' = OpenAll(win[p].queue)
          \/ opened' = OpenAll(win[p].queue \o Polled(p))
      BY <2>1 DEF Handle, EndDrain
    <3> QED BY <3>1, <3>2, DrainFacts, OpenedGrows
  <2>2. CASE \E p \in Process : Handle(p) \/ EndDrain(p)
    BY <1>1, <2>1, <2>2
  <2>3. CASE opened' = opened
    BY <2>3
  <2> QED BY <2>2, <2>3
      DEF Next, Launch, Thread, Poll, vars, Claim, Independent, DropHandle, Connect, GiveUp, Write,
          SendFails, CloseClient, Bind, Wake, FinishRestore, Ask, HoldWhileModal, BeginClose,
          BindConnect, PollConnected, PollRead, PollBroken, Step, EndPoll, EndModal, DropPipe,
          ReleaseMutex, Crash, Rundown
<1>3. CASE \E p \in Process : EndDrain(p)
  <2>1. PICK p \in Process : EndDrain(p)
    BY <1>3
  <2>2. /\ pc' = pc /\ owed' = owed /\ \A r \in Process \ {p} : win'[r] = win[r]
        /\ opened' = OpenAll(win[p].queue \o Polled(p))
    BY <2>1, DrainFacts DEF EndDrain
  <2>3. ASSUME NEW q \in owed[p] PROVE opened'[q] = 1
    <3>1. q \in Process
      BY DrainFacts
    <3>2. win[p].queue \in Seq(Process) /\ Polled(p) \in Seq(Process)
      BY DrainFacts, PolledTypes DEF WinType
    <3>3. CASE opened[q] = 0
      <4>1. Elem(q, win[p].queue) \/ Elem(q, Polled(p))
        BY <2>1, <3>3, DrainHasIt
      <4>2. /\ win[p].queue \o Polled(p) \in Seq(Process)
            /\ Elem(q, win[p].queue \o Polled(p))
        BY <3>1, <3>2, <4>1, ConcatFacts
      <4>3. opened'[q] # 0
        BY <2>2, <3>1, <4>2, DrainFacts, OpenedGrows
      <4> QED BY <1>1, <3>1, <4>3
    <3> QED BY <1>1, <1>2, <3>1, <3>3
  <2>4. ASSUME NEW r \in Process, Ui(r, {"review", "leaving"})', NEW q \in owed'[r], r # p
        PROVE  opened'[q] = 1
    BY <1>2, <2>2, <2>4, DrainFacts DEF DrainOpensOwed, Ui
  <2> QED BY <2>2, <2>3, <2>4 DEF DrainOpensOwed
<1>4. CASE ~\E p \in Process : EndDrain(p)
  <2>1. \A r \in Process : Ui(r, {"review", "leaving"})'
                             => Ui(r, {"review", "leaving"}) /\ owed'[r] \subseteq owed[r]
    BY <1>4, OwedStays
  <2> QED BY <1>2, <2>1, DrainFacts DEF DrainOpensOwed
<1> QED BY <1>3, <1>4

(* What was forwarded before a close is opened before the tabs are reviewed, *)
(* for any number of launches, wherever a poll may take three steps or more. *)
THEOREM DrainOpensAll ==
  ASSUME MaxSteps >= 3
  PROVE  Spec => []DrainOpensOwed
<1>1. Init => DrainOpensOwed
  BY DEF Init, DrainOpensOwed, Ui
<1>2. IInv /\ OnceInv /\ DrainInv /\ OnceInv' /\ DrainOpensOwed /\ [Next]_vars => DrainOpensOwed'
  BY OwedStep
<1> QED BY <1>1, <1>2, DrainInvariance, PTL DEF Spec

(* A forwarded request is never left with nobody to take it further: no      *)
(* wake-up and no posted message is lost, for any number of launches.        *)
THEOREM RequestsMoveOn == Spec => []ForwardedIsOnItsWay
<1>1. IInv /\ OnceInv /\ DrainInv => ForwardedIsOnItsWay
  <2> SUFFICES ASSUME IInv, OnceInv, DrainInv, NEW p \in Process, NEW q \in Process,
                      pc[q] = "forwarded", opened[q] = 0, target[q] = p, Ui(p, {"idle"})
               PROVE  \/ Queued(q, p) /\ (win[p].posted \/ win[p].restoring)
                      \/ pipe.server = p /\ pipe.client = q /\ Signalled
    BY DEF ForwardedIsOnItsWay
  <2>1. pc[p] = "window" /\ win[p].ui = "idle"
    BY DEF Ui
  <2>2. Elem(q, win[p].queue) \/ (pipe.server = p /\ (Elem(q, srv.requests) \/ Frame(q)))
    BY <2>1 DEF DrainInv, WrittenIsKept, Waits, Alive
  <2>3. CASE Elem(q, win[p].queue)
    <3>1. Queued(q, p) /\ win[p].queue # <<>>
      BY <2>3, EmptyFacts DEF Elem, Queued
    <3> QED BY <2>1, <3>1 DEF DrainInv, QueueIsAnnounced
  <2>4. CASE pipe.server = p /\ Elem(q, srv.requests)
    BY <2>1, <2>4, EmptyFacts DEF DrainInv, ServerIsReady, Serves
  <2>5. CASE pipe.server = p /\ Frame(q)
    BY <2>1, <2>5, FrameCompletes DEF Serves, Frame
  <2> QED BY <2>2, <2>3, <2>4, <2>5
<1> QED BY <1>1, DrainInvariance, PTL
=============================================================================
