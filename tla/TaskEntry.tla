------------------------------ MODULE TaskEntry -----------------------------
(***************************************************************************)
(* The guards every LLM task of a tenant passes (cost_guard.py) and the    *)
(* ledger behind them (llm_usage.py): the daily cap, booked atomically at  *)
(* the entry and settled when the task ends, and the circuit breaker that  *)
(* counts the latest failures of a library job (recent_fail_streak).       *)
(*                                                                         *)
(* One tenant with a daily cap is modelled: ledger rows are keyed by       *)
(* tenant and UTC day, and tenants share nothing here.  Only today's row   *)
(* is kept, for no code writes an older one.  The tasks that go through    *)
(* _queue_job all work for one library job; the direct ones are the routes *)
(* that call the LLM while they answer.                                    *)
(***************************************************************************)
EXTENDS Naturals, FiniteSets

CONSTANTS
  Queued,       \* tasks that go through _queue_job
  Direct,       \* tasks of the routes that call the LLM themselves
  Cap,          \* daily_llm_cap
  StreakLimit,  \* _FAIL_STREAK_LIMIT, also the LIMIT of recent_fail_streak
  MaxCalls,     \* bound: LLM calls of one task
  MaxDays,      \* bound: changes of the UTC day
  MaxRestarts   \* bound: restarts of the process

Tasks == Queued \cup Direct

ASSUME TaskAssumption ==
  /\ IsFiniteSet(Tasks) /\ Queued \cap Direct = {}
  /\ Cap \in Nat
  /\ StreakLimit \in Nat \ {0}
  /\ MaxCalls \in Nat /\ MaxDays \in Nat /\ MaxRestarts \in Nat

VARIABLES
  callsToday, \* today's row: calls recorded
  reserves,   \* today's row: bookings not consumed yet
  taskStage,  \* task -> how far it is
  taskEnd,    \* task -> terminal status of its registry row, or "none"
  payload,    \* tasks that have a row in job_payloads
  rank,       \* task -> creation rank of its registry row; 0 without one
  before,     \* task -> calls_before
  made,       \* history: task -> calls it recorded
  day,        \* days gone by
  restarts    \* restarts so far

taskVars == <<callsToday, reserves, taskStage, taskEnd, payload, rank, before, made, day, restarts>>
ledger == <<callsToday, reserves>>
runTable == <<taskEnd, payload, rank>>
clocks == <<day, restarts>>

\* "ending" .. "closing" are the steps of _release_job_resources.
TaskStages == {"out", "booked", "admitted", "queued", "running", "ending", "unused",
               "closing", "over"}
\* The thread of a queued task holds the tenant gate.
Gated  == {"running", "ending", "unused", "closing"}

TaskTypeOK ==
  /\ callsToday \in Nat
  /\ reserves   \in Nat
  /\ taskStage  \in [Tasks -> TaskStages]
  /\ taskEnd    \in [Tasks -> {"none", "succeeded", "failed", "canceled"}]
  /\ payload    \in SUBSET Queued
  /\ rank       \in [Tasks -> Nat]
  /\ before     \in [Tasks -> Nat]
  /\ made       \in [Tasks -> 0 .. MaxCalls]
  /\ day        \in 0 .. MaxDays
  /\ restarts   \in 0 .. MaxRestarts

TaskInit ==
  /\ callsToday = 0
  /\ reserves   = 0
  /\ taskStage  = [t \in Tasks |-> "out"]
  /\ taskEnd    = [t \in Tasks |-> "none"]
  /\ payload    = {}
  /\ rank       = [t \in Tasks |-> 0]
  /\ before     = [t \in Tasks |-> 0]
  /\ made       = [t \in Tasks |-> 0]
  /\ day        = 0
  /\ restarts   = 0

Goto(t, from, to) == taskStage[t] = from /\ taskStage' = [taskStage EXCEPT ![t] = to]

-----------------------------------------------------------------------------
(* The ledger: one conditional statement per operation *)

\* Mutant of ReserveCall: the bookings of others are not counted.
ReserveUncounted ==
  /\ callsToday < Cap
  /\ reserves' = reserves + 1
  /\ UNCHANGED callsToday

ReserveCall ==
  /\ callsToday + reserves < Cap
  /\ reserves' = reserves + 1
  /\ UNCHANGED callsToday

\* Mutant of Consumed: without the floor.
ConsumedUnfloored == reserves - 1

\* MAX(reserves - 1, 0)
Consumed == IF reserves = 0 THEN 0 ELSE reserves - 1

ReleaseCall == reserves' = Consumed /\ UNCHANGED callsToday
RecordCall  == reserves' = Consumed /\ callsToday' = callsToday + 1

\* A new day is a new row.
NewRow == callsToday' = 0 /\ reserves' = 0

-----------------------------------------------------------------------------
(* The breaker *)

\* The finished runs that recent_fail_streak sees: it joins the payloads.
Judged == {t \in payload : taskEnd[t] # "none"}
\* The newest StreakLimit runs of a set of runs.
Newest(S) == {t \in S : Cardinality({u \in S : rank[u] > rank[t]}) < StreakLimit}
AllFailed(S) == Cardinality(S) = StreakLimit /\ \A t \in S : taskEnd[t] = "failed"

FailStreakReached == AllFailed(Newest(Judged))

-----------------------------------------------------------------------------
(* Entry *)

\* enforce_daily_llm_cap: the cap is checked and a slot booked in one statement.
Book(t) ==
  /\ Goto(t, "out", IF t \in Direct THEN "running" ELSE "booked")
  /\ ReserveCall
  /\ UNCHANGED <<runTable, before, made, clocks>>

\* enforce_llm_task_entry: a refused task does not give its booking back.
CheckStreak(t) ==
  /\ Goto(t, "booked", IF FailStreakReached THEN "over" ELSE "admitted")
  /\ UNCHANGED <<ledger, runTable, before, made, clocks>>

\* _queue_job: the row, the payload and the thread.
Enqueue(t) ==
  /\ Goto(t, "admitted", "queued")
  /\ payload' = payload \cup {t}
  /\ rank' = [rank EXCEPT ![t] = 1 + Cardinality({u \in Tasks : rank[u] > 0})]
  /\ UNCHANGED <<ledger, taskEnd, before, made, clocks>>

\* The cancel route touches neither the ledger nor the payload.
Cancel(t) ==
  /\ Goto(t, "queued", "over")
  /\ taskEnd' = [taskEnd EXCEPT ![t] = "canceled"]
  /\ UNCHANGED <<ledger, payload, rank, before, made, clocks>>

-----------------------------------------------------------------------------
(* Execution *)

Start(t) ==
  /\ \A u \in Queued : taskStage[u] \notin Gated
  /\ Goto(t, "queued", "running")
  /\ before' = [before EXCEPT ![t] = callsToday]
  /\ UNCHANGED <<ledger, runTable, made, clocks>>

\* record_daily_llm_usage, from any stage of the pipeline or of a route.
Call(t) ==
  /\ taskStage[t] = "running"
  /\ made[t] < MaxCalls
  /\ RecordCall
  /\ made' = [made EXCEPT ![t] = made[t] + 1]
  /\ UNCHANGED <<taskStage, runTable, before, clocks>>

\* registry.succeed or registry.fail; only the first outcome counts.
FinishRun(t) ==
  /\ t \in Queued
  /\ Goto(t, "running", "ending")
  /\ \E o \in {"succeeded", "failed"} :
       taskEnd' = IF taskEnd[t] = "none" THEN [taskEnd EXCEPT ![t] = o] ELSE taskEnd
  /\ UNCHANGED <<ledger, payload, rank, before, made, clocks>>

FinishDirect(t) ==
  /\ t \in Direct
  /\ Goto(t, "running", "over")
  /\ UNCHANGED <<ledger, runTable, before, made, clocks>>

\* The watchdog fails the row of a run whose thread is still out.
TimeOut(t) ==
  /\ t \in Queued
  /\ taskStage[t] = "running" /\ taskEnd[t] = "none"
  /\ taskEnd' = [taskEnd EXCEPT ![t] = "failed"]
  /\ UNCHANGED <<ledger, taskStage, payload, rank, before, made, clocks>>

\* _release_job_resources: usage is read, compared with calls_before, and in a
\* statement of its own the booking of a run without calls is returned.
CompareUsage(t) ==
  /\ Goto(t, "ending", IF callsToday = before[t] THEN "unused" ELSE "closing")
  /\ UNCHANGED <<ledger, runTable, before, made, clocks>>

ReturnSlot(t) ==
  /\ Goto(t, "unused", "closing")
  /\ ReleaseCall
  /\ UNCHANGED <<runTable, before, made, clocks>>

DropPayload(t) ==
  /\ Goto(t, "closing", "over")
  /\ payload' = payload \ {t}
  /\ UNCHANGED <<ledger, taskEnd, rank, before, made, clocks>>

-----------------------------------------------------------------------------
(* Days and restarts *)

NextDay ==
  /\ day < MaxDays
  /\ day' = day + 1
  /\ NewRow
  /\ UNCHANGED <<taskStage, runTable, before, made, restarts>>

\* Runs without an outcome are queued again, with the booking flag of their
\* stored payload; requests in progress are gone.  The ledger is on disk.
Restart ==
  /\ restarts < MaxRestarts
  /\ restarts' = restarts + 1
  /\ taskStage' = [t \in Tasks |->
       IF taskStage[t] = "out" THEN "out"
       ELSE IF t \in payload /\ taskEnd[t] = "none" THEN "queued" ELSE "over"]
  /\ UNCHANGED <<ledger, runTable, before, made, day>>

TaskNext ==
  \/ \E t \in Tasks :
       \/ Book(t) \/ CheckStreak(t) \/ Enqueue(t) \/ Cancel(t) \/ Start(t)
       \/ Call(t) \/ FinishRun(t) \/ FinishDirect(t) \/ TimeOut(t)
       \/ CompareUsage(t) \/ ReturnSlot(t) \/ DropPayload(t)
  \/ NextDay
  \/ Restart

TaskSpec == TaskInit /\ [][TaskNext]_taskVars

-----------------------------------------------------------------------------
(* Properties *)

SameDayNoRestart == day = 0 /\ restarts = 0

\* However many tasks enter at once, today's calls and bookings stay within the
\* cap as long as no task makes more than the one call it booked.
BookingsHoldTheCap ==
  SameDayNoRestart /\ (\A t \in Tasks : made[t] <= 1) => callsToday + reserves <= Cap

-----------------------------------------------------------------------------
(* Statements of the repository that the code does not keep *)

\* cost_guard.py:64-67: concurrent entries can no longer break the daily cap, and
\* bookings only ever under-use it.  A run makes several calls on one booking.
NeverOverCap == callsToday <= Cap

\* jobs.py:535: after StreakLimit failures in a row of a library job the next
\* task is refused.  The payload that the count joins is gone by then.
FailuresTripTheBreaker ==
  [][\A t \in Queued :
       taskStage[t] = "booked" /\ taskStage'[t] = "admitted"
         => ~AllFailed(Newest({u \in Queued : taskEnd[u] # "none"}))]_taskVars

=============================================================================
