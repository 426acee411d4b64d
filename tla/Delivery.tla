------------------------------ MODULE Delivery ------------------------------
(***************************************************************************)
(* What the notification outbox promises the code that calls it, with the  *)
(* database, the worker and time left out: a submitted message is tried    *)
(* some number of times and then settled once and for all, as delivered    *)
(* (which it then was) or as abandoned.  A copy may go out without being   *)
(* confirmed, so delivery is at least once and never exactly once.         *)
(***************************************************************************)
EXTENDS Naturals

CONSTANT Messages

VARIABLES
  state,   \* message -> "none", "queued", "delivered", "abandoned"
  copies   \* message -> how many copies the recipient has got

vars == <<state, copies>>

Init ==
  /\ state = [m \in Messages |-> "none"]
  /\ copies = [m \in Messages |-> 0]

Submit(m) ==
  /\ state[m] = "none"
  /\ state' = [state EXCEPT ![m] = "queued"]
  /\ UNCHANGED copies

SendCopy(m) ==
  /\ state[m] = "queued"
  /\ copies' = [copies EXCEPT ![m] = @ + 1]
  /\ UNCHANGED state

Confirm(m) ==
  /\ state[m] = "queued" /\ copies[m] > 0
  /\ state' = [state EXCEPT ![m] = "delivered"]
  /\ UNCHANGED copies

Abandon(m) ==
  /\ state[m] = "queued"
  /\ state' = [state EXCEPT ![m] = "abandoned"]
  /\ UNCHANGED copies

Next == \E m \in Messages : Submit(m) \/ SendCopy(m) \/ Confirm(m) \/ Abandon(m)

Spec == Init /\ [][Next]_vars

\* No message stays in the queue for ever.
FairSpec == Spec /\ \A m \in Messages : WF_vars(Confirm(m) \/ Abandon(m))
=============================================================================
