---------------------------- MODULE JobRegistry -----------------------------
(***************************************************************************)
(* JobRegistry (jobs.py): the SQLite table of analysis jobs ("runs") with  *)
(* its payload table, a time-to-live and a cap on the number of rows.      *)
(*                                                                         *)
(* Every public method of the class holds the registry lock for its whole  *)
(* body, so each one is a single step here.  Job ids are fresh uuids: an   *)
(* id that was deleted is never issued again.  Wall-clock time appears     *)
(* only through the three thresholds the code compares it with: the TTL of *)
(* a row, the retention of a terminal row, and the watchdog's cap on the   *)
(* time a run may be running.                                              *)
(***************************************************************************)
EXTENDS Naturals, FiniteSets

CONSTANTS
  Runs,     \* the analysis job ids that may be issued
  MaxJobs   \* max_jobs: the size cap that creation enforces

ASSUME RegistryAssumption ==
  /\ IsFiniteSet(Runs)
  /\ MaxJobs \in Nat \ {0}

VARIABLES
  row,      \* run -> status of its row; "none": not issued yet, "gone": deleted
  payload,  \* the runs that have a row in job_payloads
  born,     \* run -> creation rank (created_at, rowid); 0 when not issued
  issued,   \* the number of runs issued so far
  age,      \* run -> "fresh", "expired" (past the TTL) or "retired" (past retention)
  overdue   \* running rows whose started_at is at or before the watchdog's cutoff

registryVars == <<row, payload, born, issued, age, overdue>>

InFlight  == {"queued", "running"}
Terminal  == {"succeeded", "failed", "canceled"}
RowStatus == InFlight \cup Terminal \cup {"none", "gone"}
Ages      == {"fresh", "expired", "retired"}

RegistryTypeOK ==
  /\ row     \in [Runs -> RowStatus]
  /\ payload \in SUBSET Runs
  /\ born    \in [Runs -> Nat]
  /\ issued  \in Nat
  /\ age     \in [Runs -> Ages]
  /\ overdue \in SUBSET Runs

RegistryInit ==
  /\ row     = [r \in Runs |-> "none"]
  /\ payload = {}
  /\ born    = [r \in Runs |-> 0]
  /\ issued  = 0
  /\ age     = [r \in Runs |-> "fresh"]
  /\ overdue = {}

-----------------------------------------------------------------------------
(* Reading the table *)

HasRow(r)    == row[r] \in InFlight \cup Terminal
\* A row past its TTL is invisible to every reader of the API.
IsVisible(r) == HasRow(r) /\ age[r] = "fresh"
\* What _purge_expired deletes: stale work at the TTL, history at retention.
Purgeable(r) == \/ row[r] \in InFlight /\ age[r] # "fresh"
                \/ row[r] \in Terminal /\ age[r] = "retired"

\* The row as it is after an UPDATE of the status of run r.
SetRow(r, status) == [row EXCEPT ![r] = status]

-----------------------------------------------------------------------------
(* Creating a run *)

Survivors == {s \in Runs : HasRow(s) /\ ~Purgeable(s)}

\* Mutant of Evicted: work in flight is evicted like history.
EvictedWork ==
  {s \in Survivors :
     MaxJobs + Cardinality({q \in Survivors : born[q] < born[s]})
       < Cardinality(Survivors) + 1}

\* _enforce_cap: delete the oldest rows that are not in flight until the table
\* is within the cap or only work in flight is left.  The new row is counted.
Evicted ==
  LET evictable == {s \in Survivors : row[s] \notin InFlight}
      excess    == Cardinality(Survivors) + 1
  IN  {s \in evictable :
         MaxJobs + Cardinality({q \in evictable : born[q] < born[s]}) < excess}

\* The rows that the creation of a run deletes.
Dropped == {s \in Runs : HasRow(s) /\ (Purgeable(s) \/ s \in Evicted)}

Create(r) ==
  /\ row[r] = "none"
  /\ row'     = [s \in Runs |-> IF s = r THEN "queued"
                                ELSE IF s \in Dropped THEN "gone" ELSE row[s]]
  /\ payload' = (payload \ Dropped) \cup {r}
  /\ issued'  = issued + 1
  /\ born'    = [born EXCEPT ![r] = issued + 1]
  /\ overdue' = overdue \ Dropped
  /\ UNCHANGED age

-----------------------------------------------------------------------------
(* Conditional UPDATEs: each one moves a row only from the statuses it names *)

\* Mutant of ClaimRunning: the UPDATE without its condition on the status.
ClaimUnchecked(r) ==
  /\ row' = SetRow(r, "running")
  /\ UNCHANGED <<payload, born, issued, age, overdue>>

ClaimRunning(r) ==
  /\ row[r] = "queued"
  /\ row' = SetRow(r, "running")
  /\ UNCHANGED <<payload, born, issued, age, overdue>>

\* succeed and fail share their condition; on any other row they do nothing.
Finish(r, outcome) ==
  /\ row'     = IF row[r] \in InFlight THEN SetRow(r, outcome) ELSE row
  /\ overdue' = IF row[r] \in InFlight THEN overdue \ {r} ELSE overdue
  /\ UNCHANGED <<payload, born, issued, age>>

Succeed(r) == Finish(r, "succeeded")
Fail(r)    == Finish(r, "failed")

Cancel(r) ==
  /\ row[r] = "queued"
  /\ row' = SetRow(r, "canceled")
  /\ UNCHANGED <<payload, born, issued, age, overdue>>

\* Startup recovery: a row left running by a dead process is queued again.
RequeueInterrupted(r) ==
  /\ row[r] = "running"
  /\ row'     = SetRow(r, "queued")
  /\ overdue' = overdue \ {r}
  /\ UNCHANGED <<payload, born, issued, age>>

-----------------------------------------------------------------------------
(* Deletions *)

Delete(r) ==
  /\ payload' = payload \ {r}
  /\ row'     = IF HasRow(r) THEN SetRow(r, "gone") ELSE row
  /\ overdue' = overdue \ {r}
  /\ UNCHANGED <<born, issued, age>>

DeletePayload(r) ==
  /\ payload' = payload \ {r}
  /\ UNCHANGED <<row, born, issued, age, overdue>>

\* get and snapshot delete a row in flight that they find past its TTL.
ReadReclaim(r) ==
  /\ row[r] \in InFlight /\ age[r] # "fresh"
  /\ Delete(r)

-----------------------------------------------------------------------------
(* The clock *)

\* created_at grows with the rank, so rows reach each threshold in order.
Expire(r) ==
  /\ HasRow(r) /\ age[r] = "fresh"
  /\ \A s \in Runs : born[s] < born[r] /\ HasRow(s) => age[s] # "fresh"
  /\ age' = [age EXCEPT ![r] = "expired"]
  /\ UNCHANGED <<row, payload, born, issued, overdue>>

Retire(r) ==
  /\ HasRow(r) /\ age[r] = "expired"
  /\ \A s \in Runs : born[s] < born[r] /\ HasRow(s) => age[s] = "retired"
  /\ age' = [age EXCEPT ![r] = "retired"]
  /\ UNCHANGED <<row, payload, born, issued, overdue>>

Overrun(r) ==
  /\ row[r] = "running" /\ r \notin overdue
  /\ overdue' = overdue \cup {r}
  /\ UNCHANGED <<row, payload, born, issued, age>>

-----------------------------------------------------------------------------
(* The registry on its own, used by any caller in any order *)

RegistryNext ==
  \E r \in Runs :
    \/ Create(r)
    \/ ClaimRunning(r)
    \/ Succeed(r)
    \/ Fail(r)
    \/ Cancel(r)
    \/ RequeueInterrupted(r)
    \/ Delete(r)
    \/ DeletePayload(r)
    \/ ReadReclaim(r)
    \/ Expire(r)
    \/ Retire(r)
    \/ Overrun(r)

RegistrySpec == RegistryInit /\ [][RegistryNext]_registryVars

-----------------------------------------------------------------------------
(* Properties *)

\* The first terminal status of a run stands until its row is deleted: a late
\* succeed, fail, cancel or claim never replaces it.
TerminalIsFinal ==
  [][\A r \in Runs : row[r] \in Terminal => row'[r] \in {row[r], "gone"}]_registryVars

\* No payload (it holds resume text) outlives the row of its run.
PayloadsHaveRows == \A r \in payload : HasRow(r)

\* Creation only drops history within its retention to make room, oldest first.
OldestHistoryGoesFirst ==
  [][\A r, s \in Runs :
       /\ issued' # issued
       /\ row[r] \in Terminal /\ age[r] # "retired" /\ row'[r] = "gone"
       /\ row[s] \in Terminal /\ row'[s] = row[s]
       => born[r] < born[s]]_registryVars

=============================================================================
