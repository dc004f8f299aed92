--------------------------- MODULE SingleInstance ---------------------------
(***************************************************************************)
(* One FastPad window per session: the instance mutex, the named pipe of    *)
(* the process that created it, and the launches that hand their request   *)
(* over and exit (src/ipc, src/window/main_window/ipc_host.rs).            *)
(*                                                                         *)
(* Every process is one launch and carries one request, named by the       *)
(* process.  A process claims the mutex: the creator opens a window and,   *)
(* later, the pipe; any other forwards, or runs on its own when it cannot. *)
(* The kernel's part (handles, the pipe's instance, the end of a crashed   *)
(* process) is modelled from how the code uses it.                         *)
(***************************************************************************)
EXTENDS Naturals, Sequences, FiniteSets

CONSTANTS FastPads,   \* launches of a full FastPad
          Captures,   \* launches with --capture, which never keep the mutex
          None,
          MaxSteps    \* steps of one poll (MAX_STEPS_PER_POLL)

ASSUME LaunchAssumption == FastPads \cap Captures = {} /\ None \notin FastPads \cup Captures
ASSUME StepAssumption == MaxSteps \in Nat \ {0}

Process == FastPads \cup Captures

VARIABLES
  pc,       \* what each process is doing
  handles,  \* the processes with the mutex open; it exists while there is one
  pipe,     \* the one instance of the pipe, in the kernel
  srv,      \* the IpcServer of the process that serves the pipe
  win,      \* the window of a process that created the mutex
  opened,   \* how often each request was opened in a window
  target,   \* history: the server each request was written to
  owed      \* history: requests forwarded to a window when it began to close

vars == <<pc, handles, pipe, srv, win, opened, target, owed>>
-----------------------------------------------------------------------------
(* The pipe: who has its server end, who is or was connected, whether that   *)
(* client's end is open, and whether its frame is in the pipe, unread.       *)
NoPipe == [server |-> None, client |-> None, open |-> FALSE, data |-> FALSE]

(* An instance is deleted with the last handle to it, of either end.         *)
Exists(p) == p.server # None \/ p.open

WithoutServer(p) == IF p.open THEN [p EXCEPT !.server = None, !.data = FALSE] ELSE NoPipe
WithoutClient(p) == IF p.server = None THEN NoPipe ELSE [p EXCEPT !.open = FALSE]

(* The server: the operation begun, whether the kernel has it, a completion  *)
(* made up without the kernel, the event set for it, the frame read so far,  *)
(* and the requests and steps of the poll under way.                         *)
NoServer == [op |-> "connect", inFlight |-> FALSE, immediate |-> "none", event |-> FALSE,
             filled |-> FALSE, requests |-> <<>>, steps |-> 0]

(* A window: what its one thread is doing, whether a session restore is      *)
(* under way, the queue of requests, and the message that they wait posted   *)
(* or held back by a question on the screen.                                 *)
NoWindow == [ui |-> "idle", restoring |-> FALSE, posted |-> FALSE, held |-> FALSE, queue |-> <<>>]

(* At rest a server has this operation under way: arm resets the event.      *)
Arm(s, op) == [s EXCEPT !.op = op, !.event = FALSE]

(* Mutant: the event is left as arm reset it. *)
SynthesizeSilently(s, completion) == [s EXCEPT !.immediate = completion]

(* The kernel signals the event of an operation it has; for one it never     *)
(* took the server must set the event itself.                                *)
InFlight(s, op) == [Arm(s, op) EXCEPT !.inFlight = TRUE]
Synthesize(s, completion) == [s EXCEPT !.immediate = completion, !.event = TRUE]

BeginConnect(s) ==
  IF pipe.client # None THEN Synthesize(Arm(s, "connect"), "done") ELSE InFlight(s, "connect")

(* A read of a pipe that is empty and closed fails at once.                  *)
BeginRead(s, data) ==
  IF ~data /\ ~pipe.open THEN Synthesize(Arm(s, "read"), "broken") ELSE InFlight(s, "read")

(* Disconnected, the pipe listens again with nobody in it.                   *)
Reconnect(s) == InFlight([s EXCEPT !.filled = FALSE], "connect")

KernelCompletion ==
  CASE srv.op = "connect" /\ pipe.client # None         -> "done"
    [] srv.op = "read" /\ pipe.data                     -> "done"
    [] srv.op = "read" /\ ~pipe.data /\ ~pipe.open      -> "broken"
    [] OTHER                                            -> "pending"

Completion ==
  IF srv.immediate # "none" THEN srv.immediate
  ELSE IF srv.inFlight THEN KernelCompletion ELSE "pending"

TakeCompletion(s) ==
  IF s.immediate # "none" THEN [s EXCEPT !.immediate = "none"] ELSE [s EXCEPT !.inFlight = FALSE]

Signalled == srv.event \/ (srv.inFlight /\ KernelCompletion # "pending")
-----------------------------------------------------------------------------
(* Launches.                                                                 *)

(* CreateMutexW opens the mutex, creating it when nobody has it open.  A     *)
(* FastPad that created it keeps it; every other caller closes it again.     *)
Claim(p) ==
  /\ pc[p] = "off"
  /\ handles' = handles \cup {p}
  /\ pc' = [pc EXCEPT ![p] = IF handles # {} THEN "existed"
                             ELSE IF p \in Captures THEN "notRunning" ELSE "window"]
  /\ UNCHANGED <<pipe, srv, win, opened, target, owed>>

(* --new-window never claims, and a launch that cannot claim is on its own.  *)
Independent(p) ==
  /\ pc[p] = "off" /\ p \in FastPads
  /\ pc' = [pc EXCEPT ![p] = "own"]
  /\ UNCHANGED <<handles, pipe, srv, win, opened, target, owed>>

DropHandle(p) ==
  /\ pc[p] \in {"existed", "notRunning"}
  /\ handles' = handles \ {p}
  /\ pc' = [pc EXCEPT ![p] = IF @ = "existed" THEN "connecting" ELSE "own"]
  /\ UNCHANGED <<pipe, srv, win, opened, target, owed>>

Listening == pipe.server # None /\ pipe.client = None

Connect(p) ==
  /\ pc[p] = "connecting" /\ Listening
  /\ pc' = [pc EXCEPT ![p] = "connected"]
  /\ pipe' = [pipe EXCEPT !.client = p, !.open = TRUE]
  /\ UNCHANGED <<handles, srv, win, opened, target, owed>>

(* Mutant: a missing pipe is waited for without end. *)
GiveUpWhenBusy(p) ==
  /\ pc[p] = "connecting" /\ pipe.server # None /\ ~Listening
  /\ pc' = [pc EXCEPT ![p] = "own"]
  /\ UNCHANGED <<handles, pipe, srv, win, opened, target, owed>>

(* The budget runs out at a try that finds no pipe, or a busy one.           *)
GiveUp(p) ==
  /\ pc[p] = "connecting" /\ ~Listening
  /\ pc' = [pc EXCEPT ![p] = "own"]
  /\ UNCHANGED <<handles, pipe, srv, win, opened, target, owed>>

(* The whole frame fits the pipe's buffer: one write takes it.               *)
Write(p) ==
  /\ pc[p] = "connected" /\ pipe.server # None
  /\ pc' = [pc EXCEPT ![p] = "written"]
  /\ pipe' = [pipe EXCEPT !.data = TRUE]
  /\ target' = [target EXCEPT ![p] = pipe.server]
  /\ UNCHANGED <<handles, srv, win, opened, owed>>

(* The server went away: nothing was written, and the launch is on its own.  *)
SendFails(p) ==
  /\ pc[p] = "connected" /\ pipe.server = None
  /\ pc' = [pc EXCEPT ![p] = "own"]
  /\ pipe' = WithoutClient(pipe)
  /\ UNCHANGED <<handles, srv, win, opened, target, owed>>

(* send_frame returns, closing its end, and the process exits with success.  *)
CloseClient(p) ==
  /\ pc[p] = "written"
  /\ pc' = [pc EXCEPT ![p] = "forwarded"]
  /\ pipe' = WithoutClient(pipe)
  /\ UNCHANGED <<handles, srv, win, opened, target, owed>>

Launch(p) ==
  DropHandle(p) \/ Connect(p) \/ GiveUp(p) \/ Write(p) \/ SendFails(p) \/ CloseClient(p)
-----------------------------------------------------------------------------
(* The window's server.  Everything here runs on the window's one thread,    *)
(* and launches run between any two of its calls.                            *)

Ui(p, states) == pc[p] = "window" /\ win[p].ui \in states

(* The pipe is created when a session restore begins, or later, when the     *)
(* start-up chain gets there.  A name still taken makes it fail: the window  *)
(* gives the mutex up and goes on without a pipe.                            *)
Bind(p, restoring) ==
  /\ Ui(p, {"idle"}) /\ p \in handles /\ pipe.server # p /\ ~win[p].restoring
  /\ IF Exists(pipe)
     THEN /\ handles' = handles \ {p}
          /\ win' = [win EXCEPT ![p].restoring = restoring]
          /\ UNCHANGED <<pipe, srv>>
     ELSE /\ pipe' = [NoPipe EXCEPT !.server = p]
          /\ srv' = NoServer
          /\ win' = [win EXCEPT ![p] = [win[p] EXCEPT !.restoring = restoring, !.ui = "binding"]]
          /\ UNCHANGED handles
  /\ UNCHANGED <<pc, opened, target, owed>>

(* The pipe takes clients from its creation on: one may be in it already.    *)
BindConnect(p) ==
  /\ Ui(p, {"binding"})
  /\ srv' = BeginConnect(srv)
  /\ win' = [win EXCEPT ![p].ui = "idle"]
  /\ UNCHANGED <<pc, handles, pipe, opened, target, owed>>

(* The message loop waits on the event and polls the pipe when it is set.    *)
Wake(p) ==
  /\ Ui(p, {"idle"}) /\ pipe.server = p /\ Signalled
  /\ win' = [win EXCEPT ![p].ui = "polling"]
  /\ UNCHANGED <<pc, handles, pipe, srv, opened, target, owed>>

Step(p, completion) ==
  /\ Ui(p, {"polling", "draining"}) /\ pipe.server = p
  /\ srv.steps < MaxSteps /\ Completion = completion
  /\ UNCHANGED <<pc, handles, win, opened, target, owed>>

Taken == [TakeCompletion(srv) EXCEPT !.steps = @ + 1]

PollConnected(p) ==
  /\ Step(p, "done") /\ srv.op = "connect"
  /\ srv' = BeginRead([Taken EXCEPT !.filled = FALSE], pipe.data)
  /\ UNCHANGED pipe

PollRead(p) ==
  /\ Step(p, "done") /\ srv.op = "read"
  /\ srv' = BeginRead([Taken EXCEPT !.filled = TRUE], FALSE)
  /\ pipe' = [pipe EXCEPT !.data = FALSE]

(* The client's end is closed: a whole frame is a request, and the pipe      *)
(* listens for the next client.                                              *)
PollBroken(p) ==
  /\ Step(p, "broken")
  /\ srv' = Reconnect([Taken EXCEPT !.requests =
                         IF srv.filled THEN Append(@, pipe.client) ELSE @])
  /\ pipe' = [NoPipe EXCEPT !.server = p]

Poll(p) == PollConnected(p) \/ PollRead(p) \/ PollBroken(p)

(* The poll ends with nothing completed, or after its last step.             *)
PollOver(p) ==
  pipe.server = p => srv.steps = MaxSteps \/ Completion = "pending"

Polled(p) == IF pipe.server = p THEN srv.requests ELSE <<>>

Rested(p) == IF pipe.server = p THEN [srv EXCEPT !.requests = <<>>, !.steps = 0] ELSE srv

(* Its requests are queued, and a message posted to open them.               *)
EndPoll(p) ==
  /\ Ui(p, {"polling"}) /\ PollOver(p)
  /\ srv' = Rested(p)
  /\ win' = [win EXCEPT ![p] = [win[p] EXCEPT !.ui = "idle",
                                              !.queue = @ \o Polled(p),
                                              !.posted = @ \/ Polled(p) # <<>>]]
  /\ UNCHANGED <<pc, handles, pipe, opened, target, owed>>
-----------------------------------------------------------------------------
(* The window.                                                               *)

Opens(q, seq) == Cardinality({i \in DOMAIN seq : seq[i] = q})
OpenAll(seq) == [q \in Process |-> opened[q] + Opens(q, seq)]

(* Mutant: the queue is read and not taken. *)
HandleCopy(p) ==
  /\ Ui(p, {"idle"}) /\ win[p].posted
  /\ win' = [win EXCEPT ![p].posted = FALSE]
  /\ opened' = IF win[p].restoring THEN opened ELSE OpenAll(win[p].queue)
  /\ UNCHANGED <<pc, handles, pipe, srv, target, owed>>

(* The posted message opens the whole queue, but not while a restore runs.   *)
Handle(p) ==
  /\ Ui(p, {"idle"}) /\ win[p].posted
  /\ IF win[p].restoring
     THEN /\ win' = [win EXCEPT ![p].posted = FALSE]
          /\ UNCHANGED opened
     ELSE /\ win' = [win EXCEPT ![p] = [win[p] EXCEPT !.posted = FALSE, !.queue = <<>>]]
          /\ opened' = OpenAll(win[p].queue)
  /\ UNCHANGED <<pc, handles, pipe, srv, target, owed>>

(* Mutant: what came during the restore is not looked at again. *)
FinishRestoreSilently(p) ==
  /\ Ui(p, {"idle"}) /\ win[p].restoring
  /\ win' = [win EXCEPT ![p].restoring = FALSE]
  /\ UNCHANGED <<pc, handles, pipe, srv, opened, target, owed>>

FinishRestore(p) ==
  /\ Ui(p, {"idle"}) /\ win[p].restoring
  /\ win' = [win EXCEPT ![p] = [win[p] EXCEPT !.restoring = FALSE, !.posted = TRUE]]
  /\ UNCHANGED <<pc, handles, pipe, srv, opened, target, owed>>

(* A question's own loop dispatches messages and never waits on the pipe;    *)
(* the message to open requests is held until it ends.                       *)
Ask(p) ==
  /\ Ui(p, {"idle"})
  /\ win' = [win EXCEPT ![p].ui = "asking"]
  /\ UNCHANGED <<pc, handles, pipe, srv, opened, target, owed>>

HoldWhileModal(p) ==
  /\ Ui(p, {"asking", "review"}) /\ win[p].posted
  /\ win' = [win EXCEPT ![p] = [win[p] EXCEPT !.posted = FALSE, !.held = TRUE]]
  /\ UNCHANGED <<pc, handles, pipe, srv, opened, target, owed>>

(* The question is answered, or the review of a close cancelled.             *)
EndModal(p) ==
  /\ Ui(p, {"asking", "review"})
  /\ win' = [win EXCEPT ![p] = [win[p] EXCEPT !.ui = "idle", !.posted = @ \/ win[p].held,
                                              !.held = FALSE]]
  /\ owed' = [owed EXCEPT ![p] = {}]
  /\ UNCHANGED <<pc, handles, pipe, srv, opened, target>>

(* WM_CLOSE polls the pipe, whatever the event says, and opens all that is   *)
(* queued, a restore or not, before it reviews the tabs.                     *)
BeginClose(p) ==
  /\ Ui(p, {"idle"})
  /\ win' = [win EXCEPT ![p].ui = "draining"]
  /\ owed' = [owed EXCEPT ![p] =
                {q \in Process : pc[q] = "forwarded" /\ target[q] = p /\ opened[q] = 0}]
  /\ UNCHANGED <<pc, handles, pipe, srv, opened, target>>

(* Mutant: the drain waits for the restore like the posted message. *)
EndDrainUnlessRestoring(p) ==
  /\ Ui(p, {"draining"}) /\ PollOver(p)
  /\ srv' = Rested(p)
  /\ LET all == win[p].queue \o Polled(p)
         left == IF win[p].restoring THEN all ELSE <<>>
     IN /\ opened' = IF win[p].restoring THEN opened ELSE OpenAll(all)
        /\ win' = [win EXCEPT ![p] = [win[p] EXCEPT !.ui = "review", !.queue = left,
                                                    !.posted = @ \/ Polled(p) # <<>>]]
  /\ UNCHANGED <<pc, handles, pipe, target, owed>>

EndDrain(p) ==
  /\ Ui(p, {"draining"}) /\ PollOver(p)
  /\ srv' = Rested(p)
  /\ opened' = OpenAll(win[p].queue \o Polled(p))
  /\ win' = [win EXCEPT ![p] = [win[p] EXCEPT !.ui = "review", !.queue = <<>>,
                                              !.posted = @ \/ Polled(p) # <<>>]]
  /\ UNCHANGED <<pc, handles, pipe, target, owed>>

(* Mutant: the mutex goes first. *)
DropMutexFirst(p) ==
  /\ Ui(p, {"review"})
  /\ win' = [win EXCEPT ![p].ui = "leaving"]
  /\ handles' = handles \ {p}
  /\ UNCHANGED <<pc, pipe, srv, opened, target, owed>>

(* shutdown_ipc: the pipe goes first, then the mutex.                        *)
DropPipe(p) ==
  /\ Ui(p, {"review"})
  /\ win' = [win EXCEPT ![p].ui = "leaving"]
  /\ pipe' = IF pipe.server = p THEN WithoutServer(pipe) ELSE pipe
  /\ srv' = IF pipe.server = p THEN NoServer ELSE srv
  /\ UNCHANGED <<pc, handles, opened, target, owed>>

ReleaseMutex(p) ==
  /\ Ui(p, {"leaving"})
  /\ handles' = handles \ {p}
  /\ pc' = [pc EXCEPT ![p] = "gone"]
  /\ win' = [win EXCEPT ![p] = NoWindow]
  /\ owed' = [owed EXCEPT ![p] = {}]
  /\ UNCHANGED <<pipe, srv, opened, target>>

Thread(p) ==
  \/ BindConnect(p) \/ Poll(p) \/ EndPoll(p) \/ EndModal(p) \/ EndDrain(p) \/ DropPipe(p)
  \/ ReleaseMutex(p)
-----------------------------------------------------------------------------
(* A process dies; the kernel then closes its handles in an order of its own.*)
Ended == {"forwarded", "own", "gone", "crashed"}

Crash(p) ==
  /\ pc[p] \notin Ended \cup {"off"}
  /\ pc' = [pc EXCEPT ![p] = "crashed"]
  /\ win' = [win EXCEPT ![p] = NoWindow]
  /\ owed' = [owed EXCEPT ![p] = {}]
  /\ UNCHANGED <<handles, pipe, srv, opened, target>>

Rundown(p) ==
  /\ pc[p] = "crashed"
  /\ \/ /\ p \in handles
        /\ handles' = handles \ {p}
        /\ UNCHANGED <<pipe, srv>>
     \/ /\ pipe.server = p
        /\ pipe' = WithoutServer(pipe)
        /\ srv' = NoServer
        /\ UNCHANGED handles
     \/ /\ pipe.client = p /\ pipe.open
        /\ pipe' = WithoutClient(pipe)
        /\ UNCHANGED <<handles, srv>>
  /\ UNCHANGED <<pc, win, opened, target, owed>>
-----------------------------------------------------------------------------
Init ==
  /\ pc = [p \in Process |-> "off"]
  /\ handles = {}
  /\ pipe = NoPipe
  /\ srv = NoServer
  /\ win = [p \in Process |-> NoWindow]
  /\ opened = [p \in Process |-> 0]
  /\ target = [p \in Process |-> None]
  /\ owed = [p \in Process |-> {}]

Next ==
  \E p \in Process :
    \/ Claim(p) \/ Independent(p) \/ Launch(p)
    \/ \E restoring \in BOOLEAN : Bind(p, restoring)
    \/ Wake(p) \/ Handle(p) \/ FinishRestore(p) \/ Ask(p) \/ HoldWhileModal(p)
    \/ BeginClose(p) \/ Thread(p)
    \/ Crash(p) \/ Rundown(p)

Spec == Init /\ [][Next]_vars

(* A launch runs on, a window's thread finishes what it is doing, and the    *)
(* kernel closes the handles of the dead.  The message loop looks at the     *)
(* event first and takes messages in order, so it comes to each of them      *)
(* however often a question interrupts; a question is answered in the end.   *)
Fairness ==
  /\ \A p \in Process : WF_vars(Launch(p) \/ Thread(p) \/ Rundown(p))
  /\ \A p \in FastPads : SF_vars(Wake(p)) /\ SF_vars(Handle(p)) /\ SF_vars(FinishRestore(p))

FairSpec == Spec /\ Fairness
-----------------------------------------------------------------------------
(* Properties.                                                               *)

(* Every variable keeps its kind.                                            *)
TypeOK ==
  /\ pc \in [Process -> Ended \cup {"off", "existed", "notRunning", "connecting", "connected",
                                    "written", "window"}]
  /\ handles \subseteq Process
  /\ pipe \in [server : Process \cup {None}, client : Process \cup {None},
               open : BOOLEAN, data : BOOLEAN]
  /\ srv \in [op : {"connect", "read"}, inFlight : BOOLEAN,
              immediate : {"none", "done", "broken"}, event : BOOLEAN, filled : BOOLEAN,
              requests : Seq(Process), steps : 0..MaxSteps]
  /\ win \in [Process -> [ui : {"idle", "binding", "polling", "asking", "draining", "review",
                                "leaving"},
                          restoring : BOOLEAN, posted : BOOLEAN, held : BOOLEAN,
                          queue : Seq(Process)]]
  /\ opened \in [Process -> Nat]
  /\ target \in [Process -> Process \cup {None}]
  /\ owed \in [Process -> SUBSET Process]

(* The window that holds the mutex is the only one, and where it is to       *)
(* create its pipe no other living process serves one: shutdown_ipc drops    *)
(* the pipe before the mutex that invites the next primary.                  *)
PrimaryMeetsNoServer ==
  \A p \in Process : pc[p] = "window" /\ p \in handles =>
    /\ \A q \in Process \ {p} : ~(pc[q] = "window" /\ q \in handles)
    /\ pipe.server \notin {None, p} => pc[pipe.server] = "crashed"

(* A launch is carried out once: its request is opened in one window, and    *)
(* never again, and never both there and by a process on its own.            *)
OpenedOnce ==
  \A p \in Process : opened[p] <= 1 /\ (opened[p] = 1 => pc[p] \notin {"own", "window"})

(* What was forwarded before a close is opened before the tabs are reviewed, *)
(* in the middle of a session restore too: the launch has exited by then, so *)
(* a request dropped with the window is lost.                                *)
DrainOpensOwed ==
  \A p \in Process : Ui(p, {"review", "leaving"}) => \A q \in owed[p] : opened[q] = 1

Queued(q, p) == \E i \in DOMAIN win[p].queue : win[p].queue[i] = q

(* Something will take a forwarded request further wherever a window is at   *)
(* rest: its message is posted, or the end of the restore will post it, or   *)
(* the event the loop waits on is set.                                       *)
ForwardedIsOnItsWay ==
  \A p, q \in Process :
    pc[q] = "forwarded" /\ opened[q] = 0 /\ target[q] = p /\ Ui(p, {"idle"}) =>
      \/ Queued(q, p) /\ (win[p].posted \/ win[p].restoring)
      \/ pipe.server = p /\ pipe.client = q /\ Signalled

(* A forwarded launch is opened, unless its window closes or dies: no wake-  *)
(* up of the pipe and no message to open requests is lost.                   *)
ForwardedIsOpened ==
  \A q \in Process :
    LET waits == pc[q] = "forwarded" /\ opened[q] = 0 /\ pc[target[q]] = "window"
    IN  waits ~> ~waits

(* A second launch is not kept waiting: it ends up forwarded or on its own.  *)
LaunchSettles ==
  \A p \in Process : (pc[p] \in {"existed", "connecting", "connected", "written"})
                       ~> (pc[p] \in Ended)
=============================================================================
