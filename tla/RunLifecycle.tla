---------------------------- MODULE RunLifecycle ----------------------------
(***************************************************************************)
(* What the queue promises about each analysis job, without the registry,  *)
(* the threads and the locks: the life of a run as its owner sees it.      *)
(* Runs are independent, so a step may move any number of them.            *)
(***************************************************************************)
EXTENDS Naturals

CONSTANT Runs

VARIABLES
  status,    \* run -> where it is in its life
  owes,      \* the runs that owe their library job a product
  delivered, \* the runs whose product can no longer be lost
  restarts   \* restarts of the server so far

vars == <<status, owes, delivered, restarts>>

Init ==
  /\ status    = [r \in Runs |-> "none"]
  /\ owes      = {}
  /\ delivered = {}
  /\ restarts  = 0

Submit(r)    == status[r] = "none" /\ status'[r] = "queued"
Start(r)     == status[r] = "queued" /\ status'[r] = "running"
Cancel(r)    == status[r] = "queued" /\ status'[r] = "canceled"
Fail(r)      == status[r] = "running" /\ status'[r] = "failed"
\* Success is announced only when the product is safe.
Succeed(r)   == /\ status[r] = "running" /\ status'[r] = "succeeded"
                /\ r \in owes => r \in delivered
\* A run is only ever started again because the server restarted.
Interrupt(r) == /\ status[r] = "running" /\ status'[r] = "queued"
                /\ restarts' = restarts + 1
Forget(r)    == status[r] # "none" /\ status'[r] = "gone"

Move(r) == \/ Submit(r) \/ Start(r) \/ Cancel(r) \/ Fail(r) \/ Succeed(r)
           \/ Interrupt(r) \/ Forget(r)

Next ==
  /\ \A r \in Runs : status'[r] = status[r] \/ Move(r)
  /\ \A r \in owes' \ owes : status[r] = "none" /\ status'[r] = "queued"
  /\ owes \subseteq owes' /\ delivered \subseteq delivered'
  /\ restarts' \in {restarts, restarts + 1}

Spec == Init /\ [][Next]_vars

=============================================================================
