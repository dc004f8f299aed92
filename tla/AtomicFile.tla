----------------------------- MODULE AtomicFile -----------------------------
(***************************************************************************)
(* What file/saver.rs promises its callers: a save replaces the whole file *)
(* in one step or leaves it alone, and the caller is told which.  The one  *)
(* exception its comments name is a swap that removes the file without     *)
(* putting the new text in its place (Vanish).  Other programs may write   *)
(* or delete the file whenever they like, and a saver may die.             *)
(***************************************************************************)
CONSTANTS
  Saver,   \* the threads that save this file, of any process
  Text,    \* whole texts
  NoFile   \* the file while it is missing

VARIABLES
  file,    \* the file as any program reads it
  request  \* for each saver, the save it was asked for and its outcome

avars == <<file, request>>

Nothing == [state |-> "none", text |-> NoFile, new |-> FALSE]

AInit ==
  /\ file \in Text \cup {NoFile}
  /\ request = [s \in Saver |-> Nothing]

Become(s, state) == request' = [request EXCEPT ![s].state = state]

Ask(s) ==
  /\ request[s].state = "none"
  /\ \E t \in Text, new \in BOOLEAN :
       request' = [request EXCEPT ![s] = [state |-> "asked", text |-> t, new |-> new]]
  /\ UNCHANGED file

\* A save under a new name takes effect only while no file has that name.
Commit(s) ==
  /\ request[s].state = "asked"
  /\ request[s].new => file = NoFile
  /\ file' = request[s].text
  /\ Become(s, "saved")

Refuse(s) ==
  /\ request[s].state = "asked"
  /\ Become(s, "failed")
  /\ UNCHANGED file

Vanish(s) ==
  /\ request[s].state = "asked"
  /\ ~request[s].new
  /\ file' = NoFile
  /\ \/ UNCHANGED request
     \/ Become(s, "failed")

Answer(s) ==
  /\ request[s].state \in {"saved", "failed"}
  /\ request' = [request EXCEPT ![s] = Nothing]
  /\ UNCHANGED file

Die(s) ==
  /\ request' = [request EXCEPT ![s] = [state |-> "dead", text |-> NoFile, new |-> FALSE]]
  /\ UNCHANGED file

Elsewhere ==
  /\ file' \in Text \cup {NoFile}
  /\ UNCHANGED request

ANext ==
  \/ Elsewhere
  \/ \E s \in Saver : Ask(s) \/ Commit(s) \/ Refuse(s) \/ Vanish(s) \/ Answer(s) \/ Die(s)

ASpec == AInit /\ [][ANext]_avars
=============================================================================
