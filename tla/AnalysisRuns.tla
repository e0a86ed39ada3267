---------------------------- MODULE AnalysisRuns ----------------------------
(***************************************************************************)
(* The alignment pipeline of the server process: the routes that queue and *)
(* cancel runs and delete library jobs, one worker thread per run behind a *)
(* per-tenant gate and a global semaphore, the watchdog, and startup       *)
(* recovery after a crash.  They share the job registry (JobRegistry) and  *)
(* the library job's alignment_status, its "badge".                        *)
(*                                                                         *)
(* A step is what one thread does between two points where another thread  *)
(* can be seen: one call on a store, or the acquisition of a lock.  In     *)
(* particular transition_alignment is two steps, since it reads the badge, *)
(* tests the transition and only then writes.                              *)
(***************************************************************************)
EXTENDS JobRegistry, AlignmentLifecycle

CONSTANTS
  Jobs,         \* library job ids
  Tenants,      \* user ids
  RunOwner,     \* run -> the tenant that queues it
  JobOwner,     \* library job -> its tenant
  Slots,        \* RESUALIGN_WORKER_CONCURRENCY
  MaxCached,    \* _MAX_CACHED_PAYLOADS
  MaxRestarts,  \* bound: restarts of the process
  MaxFaults,    \* bound: store calls that raise
  MaxTicks,     \* bound: rows that reach their TTL or the retention
  NoRun, NoJob

ASSUME ConstantsAssumption ==
  /\ RunOwner \in [Runs -> Tenants]
  /\ JobOwner \in [Jobs -> Tenants]
  /\ Slots \in Nat \ {0}
  /\ MaxCached \in Nat \ {0}
  /\ MaxRestarts \in Nat
  /\ MaxFaults \in Nat
  /\ MaxTicks \in Nat
  /\ NoRun \notin Runs
  /\ NoJob \notin Jobs

VARIABLES
  at,        \* run -> where its worker thread is
  target,    \* run -> library_job_id of its payload, or NoJob
  cached,    \* the runs with an entry in the in-memory _payloads cache
  gate,      \* tenant -> the run whose thread holds the tenant's gate
  free,      \* permits left in _WORKER_SEMAPHORE
  present,   \* the library jobs that exist
  badge,     \* library job -> alignment_status
  pin,       \* library job -> workbench_job_id
  saved,     \* history: the runs whose product was written to their library job
  flip,      \* runs whose route has started the thread but not yet set the badge
  canceling, \* run -> step of the cancel route after the registry's cancel
  dropping,  \* library job -> analysis job its delete route has still to delete
  watchdog,  \* the watchdog thread: what it does next, and for which run
  restarts,  \* restarts so far
  faults,    \* store calls that raised so far
  ticks      \* TTLs and retentions reached so far

threadVars  == <<at, target, cached, gate, free>>
libraryVars == <<present, badge, pin, saved>>
requestVars == <<flip, canceling, dropping>>
boundVars   == <<restarts, faults, ticks>>
vars == <<registryVars, threadVars, libraryVars, requestVars, watchdog, boundVars>>

-----------------------------------------------------------------------------
(* Where a worker thread can be.  The comments name the call made next.    *)

Waiting == {"start",   \* find the tenant of the payload
            "gate"}    \* gate.acquire()
Running == {"sync", "syncWrite",     \* _sync_alignment_status(running)
            "run",                   \* context.run(...), the LLM pipeline
            "save",                  \* save_alignment
            "saved",                 \* registry.succeed
            "noText", "noTextWrite", \* _sync_alignment_status(failed)
            "fail",                  \* registry.fail, in the handler
            "unsaved",               \* the same, when save_alignment raised
            "mirror",                \* update_job(alignment_status='failed')
            "release"}               \* _release_job_resources
\* The outcome is in the registry: what is left is the badge and the resources.
Leaving   == {"noText", "noTextWrite", "mirror", "release"}
\* Holding the tenant gate: "slot" is waiting for the semaphore.
Gated     == {"slot"} \cup Running
Locations == {"none", "done"} \cup Waiting \cup Gated

TypeOK ==
  /\ RegistryTypeOK
  /\ at        \in [Runs -> Locations]
  /\ target    \in [Runs -> Jobs \cup {NoJob}]
  /\ cached    \in SUBSET Runs
  /\ gate      \in [Tenants -> Runs \cup {NoRun}]
  /\ free      \in 0 .. Slots
  /\ present   \in SUBSET Jobs
  /\ badge     \in [Jobs -> AlignmentStatus]
  /\ pin       \in [Jobs -> Runs \cup {NoRun}]
  /\ saved     \in SUBSET Runs
  /\ flip      \in SUBSET Runs
  /\ canceling \in [Runs -> {"no", "read", "write"}]
  /\ dropping  \in [Jobs -> Runs \cup {NoRun}]
  /\ watchdog  \in [at : {"idle", "read", "write"}, run : Runs \cup {NoRun}]
  /\ restarts  \in 0 .. MaxRestarts
  /\ faults    \in 0 .. MaxFaults
  /\ ticks     \in 0 .. MaxTicks

Init ==
  /\ RegistryInit
  /\ at        = [r \in Runs |-> "none"]
  /\ target    = [r \in Runs |-> NoJob]
  /\ cached    = {}
  /\ gate      = [t \in Tenants |-> NoRun]
  /\ free      = Slots
  /\ present   = Jobs
  /\ badge     = [j \in Jobs |-> "idle"]
  /\ pin       = [j \in Jobs |-> NoRun]
  /\ saved     = {}
  /\ flip      = {}
  /\ canceling = [r \in Runs |-> "no"]
  /\ dropping  = [j \in Jobs |-> NoRun]
  /\ watchdog  = [at |-> "idle", run |-> NoRun]
  /\ restarts  = 0
  /\ faults    = 0
  /\ ticks     = 0

-----------------------------------------------------------------------------
(* Helpers *)

Goto(r, from, to) == at[r] = from /\ at' = [at EXCEPT ![r] = to]

\* update_job(alignment_status = s): nothing happens when the job was deleted.
SetBadge(j, s) ==
  badge' = IF j \in present THEN [badge EXCEPT ![j] = s] ELSE badge

\* The read half of transition_alignment: does it go on to write?
MayTransition(j, s) == j \in present /\ CanTransition(badge[j], s)

\* _prune_payload_cache, for the cache to which run r has just been added.
CacheWith(r) ==
  {r} \cup {s \in cached :
              Cardinality({q \in cached : born[q] > born[s]}) + 2 <= MaxCached}

HasPayload(r) == r \in cached \/ r \in payload

StoreFault == faults < MaxFaults /\ faults' = faults + 1

-----------------------------------------------------------------------------
(* Routes *)

\* run_workbench, batch alignment, analyze, diagnose: _queue_job creates the
\* run and starts its thread.  Only then is the badge set, in a step of its own.
QueueJob(r, j) ==
  /\ \/ j = NoJob
     \/ j \in present /\ JobOwner[j] = RunOwner[r]
  /\ Create(r)
  /\ Goto(r, "none", "start")
  /\ target' = [target EXCEPT ![r] = j]
  /\ cached' = CacheWith(r)
  /\ flip'   = IF j = NoJob THEN flip ELSE flip \cup {r}
  /\ UNCHANGED <<gate, free, libraryVars, canceling, dropping, watchdog, boundVars>>

FlipToQueued(r) ==
  /\ r \in flip
  /\ flip' = flip \ {r}
  /\ LET j == target[r] IN
       IF MayTransition(j, "queued")
       THEN SetBadge(j, "queued") /\ pin' = [pin EXCEPT ![j] = r]
       ELSE UNCHANGED <<badge, pin>>
  /\ UNCHANGED <<registryVars, threadVars, present, saved, canceling, dropping,
                 watchdog, boundVars>>

\* The client learns the id of a run from the response of the route that queued
\* it, so the badge of that route is set by then.
CancelRun(r) ==
  /\ r \notin flip
  /\ IsVisible(r)
  /\ Cancel(r)
  /\ canceling' = [canceling EXCEPT ![r] = "read"]
  /\ UNCHANGED <<threadVars, libraryVars, flip, dropping, watchdog, boundVars>>

CancelRead(r) ==
  /\ canceling[r] = "read"
  /\ canceling' = [canceling EXCEPT
       ![r] = IF r \in payload /\ MayTransition(target[r], "idle")
              THEN "write" ELSE "no"]
  /\ UNCHANGED <<registryVars, threadVars, libraryVars, flip, dropping,
                 watchdog, boundVars>>

CancelWrite(r) ==
  /\ canceling[r] = "write"
  /\ canceling' = [canceling EXCEPT ![r] = "no"]
  /\ SetBadge(target[r], "idle")
  /\ UNCHANGED <<registryVars, threadVars, present, pin, saved, flip, dropping,
                 watchdog, boundVars>>

\* Any read of a run through the API.
PollRun(r) ==
  /\ ReadReclaim(r)
  /\ UNCHANGED <<threadVars, libraryVars, requestVars, watchdog, boundVars>>

DeleteLibraryJob(j) ==
  /\ j \in present
  /\ present'  = present \ {j}
  /\ dropping' = [dropping EXCEPT ![j] = pin[j]]
  /\ UNCHANGED <<registryVars, threadVars, badge, pin, saved, flip, canceling,
                 watchdog, boundVars>>

DeletePinnedRun(j) ==
  /\ dropping[j] # NoRun
  /\ Delete(dropping[j])
  /\ dropping' = [dropping EXCEPT ![j] = NoRun]
  /\ UNCHANGED <<threadVars, libraryVars, flip, canceling, watchdog, boundVars>>

-----------------------------------------------------------------------------
(* The worker thread of a run *)

othersUnchanged == UNCHANGED <<target, requestVars, watchdog>>

\* _run_job: without a payload in memory or in the table the thread just ends.
FindTenant(r) ==
  /\ Goto(r, "start", IF HasPayload(r) THEN "gate" ELSE "done")
  /\ UNCHANGED <<registryVars, cached, gate, free, libraryVars, boundVars>>
  /\ othersUnchanged

\* Mutant of AcquireGate: the thread does not wait for the gate.
EnterUngated(r) ==
  /\ gate' = [gate EXCEPT ![RunOwner[r]] = r]
  /\ Goto(r, "gate", "slot")
  /\ UNCHANGED <<registryVars, cached, free, libraryVars, boundVars>>
  /\ othersUnchanged

AcquireGate(r) ==
  /\ gate[RunOwner[r]] = NoRun
  /\ gate' = [gate EXCEPT ![RunOwner[r]] = r]
  /\ Goto(r, "gate", "slot")
  /\ UNCHANGED <<registryVars, cached, free, libraryVars, boundVars>>
  /\ othersUnchanged

\* _claim_queued_job under the semaphore: the compare-and-swap succeeds ...
Claim(r) ==
  /\ free > 0
  /\ HasPayload(r) /\ IsVisible(r)
  /\ ClaimRunning(r)
  /\ free' = free - 1
  /\ Goto(r, "slot", IF target[r] = NoJob THEN "run" ELSE "sync")
  /\ UNCHANGED <<cached, gate, libraryVars, boundVars>>
  /\ othersUnchanged

\* Mutants of Abandon: a permit that was never taken is given back; the early
\* return skips the gate.
AbandonTwice(r) ==
  /\ ~(HasPayload(r) /\ IsVisible(r) /\ row[r] = "queued")
  /\ Goto(r, "slot", "done")
  /\ gate' = [gate EXCEPT ![RunOwner[r]] = NoRun]
  /\ free' = free + 1
  /\ UNCHANGED <<registryVars, cached, libraryVars, boundVars>>
  /\ othersUnchanged
AbandonGated(r) ==
  /\ free > 0
  /\ ~(HasPayload(r) /\ IsVisible(r) /\ row[r] = "queued")
  /\ Goto(r, "slot", "done")
  /\ UNCHANGED <<registryVars, cached, gate, free, libraryVars, boundVars>>
  /\ othersUnchanged

\* ... or the run was canceled, deleted or is past its TTL: both locks are given
\* back at once, and neither the payload nor the cache entry is touched.
Abandon(r) ==
  /\ free > 0
  /\ ~(HasPayload(r) /\ IsVisible(r) /\ row[r] = "queued")
  /\ IF HasPayload(r) /\ row[r] \in InFlight /\ age[r] # "fresh"
     THEN ReadReclaim(r)
     ELSE UNCHANGED registryVars
  /\ Goto(r, "slot", "done")
  /\ gate' = [gate EXCEPT ![RunOwner[r]] = NoRun]
  /\ UNCHANGED <<cached, free, libraryVars, boundVars>>
  /\ othersUnchanged

\* _sync_alignment_status: an illegal transition is logged and swallowed.
SyncRead(r, from, write, next, s) ==
  /\ Goto(r, from, IF MayTransition(target[r], s) THEN write ELSE next)
  /\ UNCHANGED <<registryVars, cached, gate, free, libraryVars, boundVars>>
  /\ othersUnchanged

SyncWrite(r, write, next, s) ==
  /\ Goto(r, write, next)
  /\ SetBadge(target[r], s)
  /\ UNCHANGED <<registryVars, cached, gate, free, present, pin, saved, boundVars>>
  /\ othersUnchanged

SyncRunning(r) ==
  \/ SyncRead(r, "sync", "syncWrite", "run", "running")
  \/ SyncWrite(r, "syncWrite", "run", "running")

SyncNoText(r) ==
  \/ SyncRead(r, "noText", "noTextWrite", "release", "failed")
  \/ SyncWrite(r, "noTextWrite", "release", "failed")

\* _execute_claimed_job returns a report or raises.
Execute(r) ==
  /\ \/ Goto(r, "run", IF target[r] = NoJob THEN "saved" ELSE "save")
     \/ Goto(r, "run", "fail")
  /\ UNCHANGED <<registryVars, cached, gate, free, libraryVars, boundVars>>
  /\ othersUnchanged

\* _execute_claimed_job finds a job with a link but no JD text.
RefuseNoText(r) ==
  /\ Fail(r)
  /\ Goto(r, "run", IF target[r] = NoJob THEN "release" ELSE "noText")
  /\ UNCHANGED <<cached, gate, free, libraryVars, boundVars>>
  /\ othersUnchanged

\* persist_alignment: product and status in one UPDATE, before registry.succeed.
\* A run whose library job is gone goes on as if the product had been written.
SaveAlignment(r) ==
  /\ Goto(r, "save", "saved")
  /\ \E outcome \in {"succeeded", "failed"} : SetBadge(target[r], outcome)
  /\ saved' = IF target[r] \in present THEN saved \cup {r} ELSE saved
  /\ UNCHANGED <<registryVars, cached, gate, free, present, pin, boundVars>>
  /\ othersUnchanged

\* Mutant of PersistRaises: the failed save is swallowed.
PersistSwallowed(r) ==
  /\ Goto(r, "save", "saved")
  /\ StoreFault
  /\ UNCHANGED <<registryVars, cached, gate, free, libraryVars, restarts, ticks>>
  /\ othersUnchanged

\* save_alignment raises, or what follows it up to registry.succeed does.
PersistRaises(r) ==
  /\ \/ Goto(r, "save", "unsaved")
     \/ Goto(r, "saved", "fail")
  /\ StoreFault
  /\ UNCHANGED <<registryVars, cached, gate, free, libraryVars, restarts, ticks>>
  /\ othersUnchanged

\* The daily usage is read after the claim and before the try block: when that
\* raises both locks are given back, but the row stays running with no thread.
UsageRaises(r) ==
  /\ Goto(r, "run", "done")
  /\ StoreFault
  /\ gate' = [gate EXCEPT ![RunOwner[r]] = NoRun]
  /\ free' = free + 1
  /\ UNCHANGED <<registryVars, cached, libraryVars, restarts, ticks>>
  /\ othersUnchanged

SucceedRun(r) ==
  /\ Succeed(r)
  /\ Goto(r, "saved", "release")
  /\ UNCHANGED <<cached, gate, free, libraryVars, boundVars>>
  /\ othersUnchanged

\* Mutant of FailRun: the badge is only written when this call failed the run.
FailRunIfFirst(r) ==
  /\ Fail(r)
  /\ Goto(r, "fail", IF target[r] = NoJob \/ row[r] \notin InFlight
                     THEN "release" ELSE "mirror")
  /\ UNCHANGED <<cached, gate, free, libraryVars, boundVars>>
  /\ othersUnchanged

\* _fail_claimed_job: registry.fail, then the badge, whatever it says by now.
FailRun(r) ==
  /\ Fail(r)
  /\ \/ Goto(r, "fail", IF target[r] = NoJob THEN "release" ELSE "mirror")
     \/ Goto(r, "unsaved", "mirror")
  /\ UNCHANGED <<cached, gate, free, libraryVars, boundVars>>
  /\ othersUnchanged

\* registry.fail raises inside the handler: only the finally clauses still run.
FailRaises(r) ==
  /\ Goto(r, "fail", "release") \/ Goto(r, "unsaved", "release")
  /\ StoreFault
  /\ UNCHANGED <<registryVars, cached, gate, free, libraryVars, restarts, ticks>>
  /\ othersUnchanged

MirrorFailure(r) ==
  /\ Goto(r, "mirror", "release")
  /\ \/ SetBadge(target[r], "failed") /\ UNCHANGED faults
     \/ StoreFault /\ UNCHANGED badge     \* logged and swallowed
  /\ UNCHANGED <<registryVars, cached, gate, free, present, pin, saved, restarts, ticks>>
  /\ othersUnchanged

\* _release_job_resources, then the semaphore and the gate.
Release(r) ==
  /\ Goto(r, "release", "done")
  /\ DeletePayload(r)
  /\ cached' = cached \ {r}
  /\ gate'   = [gate EXCEPT ![RunOwner[r]] = NoRun]
  /\ free'   = free + 1
  /\ UNCHANGED <<libraryVars, boundVars>>
  /\ othersUnchanged

-----------------------------------------------------------------------------
(* The watchdog: scan_once on one overdue row *)

watchdogOnly == UNCHANGED <<threadVars, requestVars, present, pin, saved, boundVars>>

\* Mutant of WatchdogFail: only runs whose library job can be looked up.
WatchdogFailKnown(r) ==
  /\ watchdog.at = "idle"
  /\ r \in overdue /\ r \in payload
  /\ Fail(r)
  /\ watchdog' = [at |-> "read", run |-> r]
  /\ UNCHANGED badge
  /\ watchdogOnly

WatchdogFail(r) ==
  /\ watchdog.at = "idle"
  /\ r \in overdue
  /\ Fail(r)
  /\ watchdog' = [at |-> "read", run |-> r]
  /\ UNCHANGED badge
  /\ watchdogOnly

\* The library job is only known from the payload row, if it is still there.
WatchdogRead ==
  /\ watchdog.at = "read"
  /\ LET r == watchdog.run IN
       watchdog' = IF r \in payload /\ target[r] # NoJob
                   THEN [at |-> "write", run |-> r]
                   ELSE [at |-> "idle", run |-> NoRun]
  /\ UNCHANGED <<registryVars, badge>>
  /\ watchdogOnly

WatchdogWrite ==
  /\ watchdog.at = "write"
  /\ SetBadge(target[watchdog.run], "failed")
  /\ watchdog' = [at |-> "idle", run |-> NoRun]
  /\ UNCHANGED registryVars
  /\ watchdogOnly

-----------------------------------------------------------------------------
(* A crash of the process followed by its startup recovery.  The API and the
   watchdog only start afterwards, so nobody sees a state in between.        *)

Pending == {j \in present : badge[j] \in {"queued", "running"}}
\* Mutant of Backed: any row of the pinned run counts.
BackedByRow(j) == pin[j] # NoRun /\ HasRow(pin[j])

\* A pinned run that recovery finds in flight (registry.get hides expired rows).
Backed(j) == pin[j] # NoRun /\ IsVisible(pin[j]) /\ row[pin[j]] \in InFlight
\* Rows in flight that the same registry.get finds past their TTL and deletes.
Reclaimed ==
  {r \in Runs : /\ row[r] \in InFlight /\ age[r] # "fresh"
                /\ \E j \in Pending : pin[j] = r}
\* Mutant of Recovered: only interrupted runs get a new thread.
RecoveredRunning == {r \in Runs : row[r] = "running"} \ Reclaimed
Recovered == {r \in Runs : row[r] \in InFlight} \ Reclaimed

CrashAndRecover ==
  /\ restarts < MaxRestarts
  /\ restarts' = restarts + 1
  /\ badge' = [j \in Jobs |-> IF j \in Pending /\ ~Backed(j) THEN "failed" ELSE badge[j]]
  /\ row' = [r \in Runs |-> IF r \in Reclaimed THEN "gone"
                            ELSE IF r \in Recovered THEN "queued" ELSE row[r]]
  /\ payload' = payload \ Reclaimed
  /\ overdue' = {}
  /\ at' = [r \in Runs |-> IF r \in Recovered THEN "start"
                           ELSE IF at[r] = "none" THEN "none" ELSE "done"]
  /\ cached'    = {}
  /\ gate'      = [t \in Tenants |-> NoRun]
  /\ free'      = Slots
  /\ flip'      = {}
  /\ canceling' = [r \in Runs |-> "no"]
  /\ dropping'  = [j \in Jobs |-> NoRun]
  /\ watchdog'  = [at |-> "idle", run |-> NoRun]
  /\ UNCHANGED <<born, issued, age, target, present, pin, saved, faults, ticks>>

-----------------------------------------------------------------------------

Clock(r) ==
  /\ \/ Expire(r) /\ ticks < MaxTicks /\ ticks' = ticks + 1
     \/ Retire(r) /\ ticks < MaxTicks /\ ticks' = ticks + 1
     \/ Overrun(r) /\ UNCHANGED ticks
  /\ UNCHANGED <<threadVars, libraryVars, requestVars, watchdog, restarts, faults>>

Worker(r) ==
  \/ FindTenant(r)
  \/ AcquireGate(r)
  \/ Claim(r)
  \/ Abandon(r)
  \/ SyncRunning(r)
  \/ SyncNoText(r)
  \/ Execute(r)
  \/ RefuseNoText(r)
  \/ SaveAlignment(r)
  \/ PersistRaises(r)
  \/ UsageRaises(r)
  \/ SucceedRun(r)
  \/ FailRun(r)
  \/ FailRaises(r)
  \/ MirrorFailure(r)
  \/ Release(r)

Request(r) ==
  \/ \E j \in Jobs \cup {NoJob} : QueueJob(r, j)
  \/ FlipToQueued(r)
  \/ CancelRun(r)
  \/ CancelRead(r)
  \/ CancelWrite(r)
  \/ PollRun(r)

LibraryRequest(j) == DeleteLibraryJob(j) \/ DeletePinnedRun(j)

Watchdog == (\E r \in Runs : WatchdogFail(r)) \/ WatchdogRead \/ WatchdogWrite

Next ==
  \/ \E r \in Runs : Worker(r) \/ Request(r) \/ Clock(r)
  \/ \E j \in Jobs : LibraryRequest(j)
  \/ Watchdog
  \/ CrashAndRecover

Spec == Init /\ [][Next]_vars
-----------------------------------------------------------------------------
(* Fairness.  Threads are scheduled, their store calls return and the watchdog
   loop keeps ticking.  Nothing is promised of users, faults and crashes.     *)

\* What a worker thread does besides the LLM pipeline.
OwnStep(r) ==
  \/ FindTenant(r) \/ AcquireGate(r) \/ Claim(r) \/ Abandon(r)
  \/ SyncRunning(r) \/ SyncNoText(r)
  \/ SaveAlignment(r) \/ SucceedRun(r) \/ FailRun(r) \/ MirrorFailure(r)
  \/ Release(r)

\* A pipeline may hang: time passes and the watchdog is all there is.
HungSpec ==
  /\ Spec
  /\ \A r \in Runs : WF_vars(OwnStep(r)) /\ WF_vars(Clock(r))
  /\ WF_vars(Watchdog)

\* Every LLM call has a timeout, so that a pipeline ends or raises.
FairSpec == HungSpec /\ \A r \in Runs : WF_vars(Execute(r))

-----------------------------------------------------------------------------
(* Safety *)

\* A run is reported succeeded only when its product is in its library job,
\* whatever crashed, raised or was canceled on the way.
SucceededIsDurable ==
  \A r \in Runs : row[r] = "succeeded" /\ target[r] \in present => r \in saved

\* At most one run of a tenant is between its gate and the release of it, and at
\* most Slots runs of all tenants execute.
RunsAreSerialized ==
  /\ \A r, s \in Runs :
       at[r] \in Gated /\ at[s] \in Gated /\ RunOwner[r] = RunOwner[s] => r = s
  /\ Cardinality({r \in Runs : at[r] \in Running}) <= Slots

\* As long as no store call raised, a queued run has its payload and a thread
\* that is still to claim it, and a running one has a thread that is still to
\* finish it, also right after a crash.
NoLostRun ==
  faults = 0 =>
    \A r \in Runs :
      /\ row[r] = "queued"  => r \in payload /\ at[r] \in Waiting \cup {"slot"}
      /\ row[r] = "running" => r \in payload /\ at[r] \in Running \ Leaving

\* A badge says "running" only while a worker of that job is on its way to write
\* the outcome (before any crash, and as long as no store call raised).
RunningBadgeHasWorker ==
  restarts = 0 /\ faults = 0 =>
    \A j \in present : badge[j] = "running" =>
      \E r \in Runs : target[r] = j /\ at[r] \in Running

\* Work in flight within its TTL leaves the registry only because its library
\* job was deleted: neither the cap nor a purge drops it.
FreshWorkIsKept ==
  [][\A r \in Runs :
       row[r] \in InFlight /\ age[r] = "fresh" /\ row'[r] = "gone"
         => \E j \in Jobs : dropping[j] = r]_vars

\* Recovery leaves a badge in flight only where a queued run with a started
\* thread will move it on.
RecoveryReconciles ==
  [][restarts' # restarts =>
       \A j \in present : badge'[j] \in {"queued", "running"} =>
         pin[j] \in Runs /\ row'[pin[j]] = "queued" /\ at'[pin[j]] = "start"]_vars

-----------------------------------------------------------------------------
(* Liveness *)

\* Even when a pipeline hangs, or a store call raises in a failure handler, no
\* run stays running.
RunningEnds == \A r \in Runs : row[r] = "running" ~> row[r] # "running"

\* When every pipeline ends, every queued run gets its turn.
QueuedIsServed == \A r \in Runs : row[r] = "queued" ~> row[r] # "queued"

-----------------------------------------------------------------------------
(* Statements of the repository that the code does not keep *)

\* watchdog.py:7: a late write of a hung thread "is a no-op and never
\* overwrites".  That is so in the registry; the badge is overwritten.
LateWorkerWritesNothing ==
  [][\A r \in Runs :
       at[r] = "save" /\ at'[r] = "saved" /\ row[r] = "failed"
         => UNCHANGED badge]_vars

\* routers/jobs.py:456: a cancel takes the badge back to idle so that the board
\* does not show a job that is queued for ever.
CanceledLeavesBoard ==
  \A r \in Runs :
    LET j == target[r] IN
      /\ row[r] = "canceled" /\ canceling[r] = "no"
      /\ j \in present /\ pin[j] = r
      /\ \A s \in Runs : target[s] = j => at[s] \in {"none", "done"} /\ s \notin flip
      => badge[j] \notin {"queued", "running"}

-----------------------------------------------------------------------------
(* The abstract life of a run, which every step implements *)

Lifecycle == INSTANCE RunLifecycle
  WITH status    <- row,
       owes      <- {r \in Runs : target[r] # NoJob},
       delivered <- saved \cup {r \in Runs : target[r] \in Jobs \ present}

ImplementsLifecycle == Lifecycle!Spec

=============================================================================
