---------------------------- MODULE RequestQueue ----------------------------
(***************************************************************************)
(* What the agent promises about the modification requests of its users:   *)
(* each is queued once; the whole queue is taken at once, by one phase     *)
(* generation at a time; that generation either answers all it took or     *)
(* loses them.  A request in the queue is never lost, one that was taken   *)
(* never comes back, and none is answered twice.                           *)
(***************************************************************************)
EXTENDS FiniteSets

CONSTANT Requests

VARIABLE status

Status == {"unsent", "queued", "taken", "answered", "lost"}

In(s) == {q \in Requests : status[q] = s}

Moved(batch, s) ==
  status' = [q \in Requests |-> IF q \in batch THEN s ELSE status[q]]

Init == status = [q \in Requests |-> "unsent"]

Queue(q) == status[q] = "unsent" /\ Moved({q}, "queued")

Take == In("queued") # {} /\ In("taken") = {} /\ Moved(In("queued"), "taken")

Answer == In("taken") # {} /\ Moved(In("taken"), "answered")

Lose == In("taken") # {} /\ Moved(In("taken"), "lost")

Next == (\E q \in Requests : Queue(q)) \/ Take \/ Answer \/ Lose

(* What is taken is settled in the end, one way or the other.              *)
Spec == Init /\ [][Next]_status /\ WF_status(Answer \/ Lose)

=============================================================================
