------------------------- MODULE AlignmentLifecycle -------------------------
(***************************************************************************)
(* The alignment status machine of a library job (its kanban badge), as    *)
(* data: the statuses, the transition matrix and the test that             *)
(* transition_alignment applies before every write it makes.               *)
(***************************************************************************)

AlignmentStatus == {"idle", "queued", "running", "succeeded", "failed"}

\* prev -> the statuses a write may move to.
AllowedTransitions ==
  [idle      |-> {"queued"},
   queued    |-> {"queued", "running", "failed", "idle"},
   running   |-> {"running", "succeeded", "failed", "queued"},
   succeeded |-> {"succeeded", "queued"},
   failed    |-> {"failed", "queued"}]

\* A self-transition is always allowed: idempotent rewrites and retriggers.
CanTransition(prev, new) == new = prev \/ new \in AllowedTransitions[prev]

=============================================================================
