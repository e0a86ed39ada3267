----------------------------- MODULE BatchAlign -----------------------------
(***************************************************************************)
(* A batch of alignment runs (batch.py, api/services/batch.py): one row    *)
(* per library job, kept in memory, while the truth about its run is in    *)
(* the job registry.  The monitor thread, status requests and cancel       *)
(* requests each copy the rows, compare the copy with the registry, one    *)
(* run after the other, and write the whole copy back.                     *)
(*                                                                         *)
(* A step is one call on the batch store or on the registry.  A row is     *)
(* named by the run queued for it.  A restart ends batch and threads, and  *)
(* is not modelled.                                                        *)
(***************************************************************************)
EXTENDS JobRegistry

CONSTANTS
  BatchRuns,  \* the runs of the batch; other runs share the registry
  Place,      \* run of the batch -> place of its row
  Monitor,    \* the monitor thread
  Creator,    \* the request that creates the batch, and then reads it once
  Polls,      \* status requests
  Cancels     \* cancel requests

Clients == Polls \cup Cancels
Threads == {Monitor, Creator} \cup Clients

ASSUME BatchAssumption ==
  /\ BatchRuns \subseteq Runs
  /\ Place \in [BatchRuns -> Nat]
  /\ \A r, s \in BatchRuns : Place[r] = Place[s] => r = s
  /\ Monitor # Creator
  /\ {Monitor, Creator} \cap Clients = {} /\ Polls \cap Cancels = {}

VARIABLES
  batch,    \* where the batch is
  status,   \* run -> status of its row in the store
  at,       \* thread -> where it is
  copy,     \* thread -> its copy of the rows
  todo,     \* thread -> runs it has still to look at
  changed   \* threads whose copy differs, as far as they know

threadVars == <<at, copy, todo, changed>>
vars == <<registryVars, batch, status, threadVars>>

RowStates == InFlight \cup Terminal
Rows      == [BatchRuns -> RowStates]

\* "orphan": queueing raised midway, and nobody knows the id of the batch.
BatchStates == {"queueing", "open", "orphan", "gone"}
Ended  == {"over", "missed", "raised"}
Places == {"idle", "sync", "read", "cancel", "canceling"} \cup Ended

TypeOK ==
  /\ RegistryTypeOK
  /\ batch   \in BatchStates
  /\ status  \in Rows
  /\ at      \in [Threads -> Places]
  /\ copy    \in [Threads -> Rows]
  /\ todo    \in [Threads -> SUBSET BatchRuns]
  /\ changed \in SUBSET Threads

AllQueued == [r \in BatchRuns |-> "queued"]

Init ==
  /\ RegistryInit
  /\ batch   = "queueing"
  /\ status  = AllQueued
  /\ at      = [t \in Threads |-> "idle"]
  /\ copy    = [t \in Threads |-> AllQueued]
  /\ todo    = [t \in Threads |-> {}]
  /\ changed = {}

-----------------------------------------------------------------------------
(* queue_batch_align *)

\* _queue_job and set_analysis_job, row after row.
QueueRow(r) ==
  /\ batch = "queueing"
  /\ \A s \in BatchRuns : Place[s] < Place[r] => row[s] # "none"
  /\ Create(r)
  /\ UNCHANGED <<batch, status, threadVars>>

\* The monitor is started, and the creating request goes on to read the batch.
OpenBatch ==
  /\ batch = "queueing" /\ \A r \in BatchRuns : row[r] # "none"
  /\ batch' = "open"
  /\ UNCHANGED <<registryVars, status, threadVars>>

\* A guard of the task entry refuses a row: those queued before it stay queued.
QueueRaises ==
  /\ batch = "queueing" /\ \E r \in BatchRuns : row[r] = "none"
  /\ batch' = "orphan"
  /\ UNCHANGED <<registryVars, status, threadVars>>

\* Past its TTL the batch goes with the next call on the store.
BatchExpires ==
  /\ batch = "open"
  /\ batch' = "gone"
  /\ UNCHANGED <<registryVars, status, threadVars>>

-----------------------------------------------------------------------------
(* _sync_batch *)

Move(t, place) == at' = [at EXCEPT ![t] = place]

\* The copy is not used again.
DropCopy(t) == /\ copy' = [copy EXCEPT ![t] = AllQueued]
               /\ todo' = [todo EXCEPT ![t] = {}]
               /\ changed' = changed \ {t}

\* A client has the id of the batch from the response of the creating request.
KnowsBatch(t) ==
  /\ batch \in {"open", "gone"}
  /\ t \in Clients => at[Creator] \in {"over", "missed"}

TakeCopy(t) ==
  /\ at[t] = "idle" /\ KnowsBatch(t)
  /\ IF batch = "gone"
     THEN Move(t, "missed") /\ UNCHANGED <<copy, todo, changed>>
     ELSE /\ Move(t, "sync")
          /\ copy' = [copy EXCEPT ![t] = status]
          /\ todo' = [todo EXCEPT ![t] = BatchRuns]
          /\ changed' = changed \ {t}
  /\ UNCHANGED <<registryVars, batch, status>>

IsNext(t, r) == r \in todo[t] /\ \A s \in todo[t] : Place[r] <= Place[s]
Done(t, r)   == todo' = [todo EXCEPT ![t] = @ \ {r}]

\* Mutants of CompareRow: a lost run gives its row a status that nobody knows; an
\* outcome is no change.
CompareLost(t, r) ==
  /\ at[t] = "sync" /\ IsNext(t, r)
  /\ Done(t, r)
  /\ copy' = [copy EXCEPT ![t][r] = IF IsVisible(r) THEN row[r] ELSE "gone"]
  /\ changed' = changed \cup {t}
  /\ IF ~IsVisible(r) /\ row[r] \in InFlight THEN ReadReclaim(r)
                                             ELSE UNCHANGED registryVars
  /\ UNCHANGED <<batch, status, at>>
CompareWork(t, r) ==
  /\ at[t] = "sync" /\ IsNext(t, r)
  /\ Done(t, r)
  /\ IF IsVisible(r)
     THEN /\ copy' = [copy EXCEPT ![t][r] = row[r]]
          /\ changed' = IF row[r] \in InFlight /\ copy[t][r] # row[r]
                        THEN changed \cup {t} ELSE changed
          /\ UNCHANGED registryVars
     ELSE /\ IF row[r] \in InFlight THEN ReadReclaim(r) ELSE UNCHANGED registryVars
          /\ UNCHANGED <<copy, changed>>
  /\ UNCHANGED <<batch, status, at>>

\* A row whose run the registry no longer shows keeps what it says.
CompareRow(t, r) ==
  /\ at[t] = "sync" /\ IsNext(t, r)
  /\ Done(t, r)
  /\ IF IsVisible(r)
     THEN /\ copy' = [copy EXCEPT ![t][r] = row[r]]
          /\ changed' = IF row[r] \in Terminal \/ copy[t][r] # row[r]
                        THEN changed \cup {t} ELSE changed
          /\ UNCHANGED registryVars
     ELSE /\ IF row[r] \in InFlight THEN ReadReclaim(r) ELSE UNCHANGED registryVars
          /\ UNCHANGED <<copy, changed>>
  /\ UNCHANGED <<batch, status, at>>

\* update_rows: whatever another thread has written meanwhile is lost.
WriteBack(t) == status' = IF batch = "open" THEN copy[t] ELSE status

FinishSync(t) ==
  /\ at[t] = "sync" /\ todo[t] = {}
  /\ IF t \in changed THEN WriteBack(t) ELSE UNCHANGED status
  /\ Move(t, "read")
  /\ DropCopy(t)
  /\ UNCHANGED <<registryVars, batch>>

-----------------------------------------------------------------------------
(* After the sync: the batch is read again *)

\* _monitor_batch ends when every row it reads is terminal, or without a batch.
Watch(t) ==
  /\ t = Monitor /\ at[t] = "read"
  /\ Move(t, IF batch = "gone" THEN "missed"
             ELSE IF \A r \in BatchRuns : status[r] \in Terminal THEN "over" ELSE "idle")
  /\ UNCHANGED <<registryVars, batch, status, copy, todo, changed>>

Respond(t) ==
  /\ t \in {Creator} \cup Polls /\ at[t] = "read"
  /\ Move(t, IF batch = "gone" THEN "missed" ELSE "over")
  /\ UNCHANGED <<registryVars, batch, status, copy, todo, changed>>

-----------------------------------------------------------------------------
(* cancel_batch_align *)

ReadForCancel(t) ==
  /\ t \in Cancels /\ at[t] = "read"
  /\ IF batch = "gone"
     THEN Move(t, "missed") /\ UNCHANGED <<copy, todo>>
     ELSE /\ Move(t, "cancel")
          /\ copy' = [copy EXCEPT ![t] = status]
          /\ todo' = [todo EXCEPT ![t] = {r \in BatchRuns : status[r] = "queued"}]
  /\ UNCHANGED <<registryVars, batch, status, changed>>

\* registry.get: a run that is lost is no cancel of the user's.
LookAtRun(t, r) ==
  /\ at[t] = "cancel" /\ IsNext(t, r)
  /\ IF IsVisible(r)
     THEN /\ IF row[r] = "queued" THEN Move(t, "canceling") /\ UNCHANGED todo
                                  ELSE Done(t, r) /\ UNCHANGED at
          /\ UNCHANGED <<registryVars, copy>>
     ELSE /\ copy' = [copy EXCEPT ![t][r] = "failed"]
          /\ Done(t, r)
          /\ IF row[r] \in InFlight THEN ReadReclaim(r) ELSE UNCHANGED registryVars
          /\ UNCHANGED at
  /\ UNCHANGED <<batch, status, changed>>

\* Mutants of CancelOne: the answer of registry.cancel is not looked at; the
\* request gives up at the first run that it comes too late for.
CancelBlindly(t, r) ==
  /\ at[t] = "canceling" /\ IsNext(t, r)
  /\ IF row[r] = "queued" THEN Cancel(r) ELSE UNCHANGED registryVars
  /\ copy' = [copy EXCEPT ![t][r] = "canceled"]
  /\ Done(t, r)
  /\ Move(t, "cancel")
  /\ UNCHANGED <<batch, status, changed>>
CancelUntilLate(t, r) ==
  /\ at[t] = "canceling" /\ IsNext(t, r)
  /\ IF row[r] = "queued"
     THEN Cancel(r) /\ copy' = [copy EXCEPT ![t][r] = "canceled"] /\ Done(t, r)
     ELSE /\ todo' = [todo EXCEPT ![t] = {}]
          /\ UNCHANGED <<registryVars, copy>>
  /\ Move(t, "cancel")
  /\ UNCHANGED <<batch, status, changed>>

\* registry.cancel, which the claim of a worker can have forestalled.
CancelOne(t, r) ==
  /\ at[t] = "canceling" /\ IsNext(t, r)
  /\ IF row[r] = "queued"
     THEN Cancel(r) /\ copy' = [copy EXCEPT ![t][r] = "canceled"]
     ELSE UNCHANGED <<registryVars, copy>>
  /\ Done(t, r)
  /\ Move(t, "cancel")
  /\ UNCHANGED <<batch, status, changed>>

FinishCancel(t) ==
  /\ at[t] = "cancel" /\ todo[t] = {}
  /\ WriteBack(t)
  /\ Move(t, "over")
  /\ DropCopy(t)
  /\ UNCHANGED <<registryVars, batch>>

-----------------------------------------------------------------------------

\* A registry call raises: the monitor tries again later, a request ends.
CallRaises(t) ==
  /\ at[t] \in {"sync", "cancel", "canceling"} /\ todo[t] # {}
  /\ Move(t, IF t = Monitor THEN "idle" ELSE "raised")
  /\ DropCopy(t)
  /\ UNCHANGED <<registryVars, batch, status>>

ThreadStep(t) ==
  \/ TakeCopy(t) \/ FinishSync(t) \/ Watch(t) \/ Respond(t)
  \/ ReadForCancel(t) \/ FinishCancel(t) \/ CallRaises(t)
  \/ \E r \in BatchRuns : CompareRow(t, r) \/ LookAtRun(t, r) \/ CancelOne(t, r)

\* What else happens in the registry: workers, the watchdog, other routes, time.
\* The end of a row's retention shows only in the deletion it leads to.
Elsewhere(r) ==
  /\ \/ r \notin BatchRuns /\ Create(r)
     \/ ClaimRunning(r) \/ Cancel(r)
     \/ row[r] = "running" /\ (Succeed(r) \/ Fail(r))
     \/ HasRow(r) /\ Delete(r)
     \/ ReadReclaim(r) \/ Expire(r)
  /\ UNCHANGED <<batch, status, threadVars>>

Next ==
  \/ \E r \in BatchRuns : QueueRow(r)
  \/ OpenBatch \/ QueueRaises \/ BatchExpires
  \/ \E t \in Threads : ThreadStep(t)
  \/ \E r \in Runs : Elsewhere(r)

Spec == Init /\ [][Next]_vars

\* The monitor is a thread that is scheduled, its loop survives exceptions, and a
\* look at a run does not raise for ever.  Nothing is promised of requests and runs.
FairSpec ==
  /\ Spec
  /\ WF_vars(ThreadStep(Monitor))
  /\ \A r \in BatchRuns : SF_vars(CompareRow(Monitor, r))

-----------------------------------------------------------------------------
(* Properties *)

\* Deleted, or past its TTL.
Lost(r) == row[r] # "none" /\ ~IsVisible(r)

\* Does a row that says s tell the truth about run r?
Agrees(s, r) ==
  CASE s \in {"succeeded", "canceled"} -> row[r] \in {s, "gone"}
    [] s = "failed"                    -> row[r] = "failed" \/ Lost(r)
    [] OTHER                           -> TRUE

\* An outcome that a row shows is the outcome of its run, whichever threads have
\* overwritten each other's rows.
RowsTellTheTruth == \A r \in BatchRuns : Agrees(status[r], r)

\* When a cancel request has been answered, no run of the batch is queued that
\* was queued when it began: stale copies never hide one from it.
CancelTakesAll ==
  \A t \in Cancels : at[t] = "over" => \A r \in BatchRuns : row[r] # "queued"

\* As long as the monitor is at work, the outcome of a run reaches its row.
OutcomesAreShown ==
  \A r \in BatchRuns :
    batch = "open" /\ at[Monitor] \notin Ended /\ row[r] \in Terminal
      ~> batch = "gone" \/ Lost(r) \/ status[r] = row[r]

=============================================================================
