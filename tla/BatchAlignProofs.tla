-------------------------- MODULE BatchAlignProofs --------------------------
(***************************************************************************)
(* Proofs about BatchAlign, for any number of rows, requests and runs.     *)
(* What makes stale copies harmless is that a row and every copy of it     *)
(* only ever hold something that fits its run, and that what fits a run    *)
(* goes on fitting it.                                                     *)
(***************************************************************************)
EXTENDS BatchAlign, JobRegistryProofs

-----------------------------------------------------------------------------
(* The inductive invariant *)

\* An outcome is true, and a run that nobody has taken up shows as queued.
Fits(s, r) == /\ Agrees(s, r)
              /\ row[r] \in {"none", "queued"} => s = "queued"

RowsFit   == \A r \in BatchRuns : Fits(status[r], r)
CopiesFit == \A t \in Threads, r \in BatchRuns : Fits(copy[t][r], r)

\* Threads are at work on a batch only when all of its runs are there.
AllIssued  == batch \in {"open", "gone"} => \A r \in BatchRuns : row[r] # "none"
AtWorkLate == \A t \in Threads : at[t] # "idle" => batch \in {"open", "gone"}

\* What a cancel request has not looked at yet is all that is still queued.
CancelsReach ==
  \A t \in Cancels :
    /\ at[t] \in {"cancel", "canceling"} =>
         \A r \in BatchRuns : row[r] = "queued" => r \in todo[t]
    /\ at[t] = "over" => \A r \in BatchRuns : row[r] # "queued"

IInv == TypeOK /\ RowsFit /\ CopiesFit /\ AllIssued /\ AtWorkLate /\ CancelsReach

USE BatchAssumption

-----------------------------------------------------------------------------
(* What a step does to the registry *)

Uses(r) == \/ Create(r) \/ ClaimRunning(r) \/ Cancel(r) \/ Succeed(r) \/ Fail(r)
           \/ Delete(r) \/ Expire(r)

\* The batch uses the registry through its operations, and nothing requeues.
LEMMA RegistryUse ==
  ASSUME [Next]_vars
  PROVE  UNCHANGED registryVars \/ \E r \in Runs : Uses(r)
<1>1. ASSUME NEW t \in Threads, ThreadStep(t)
      PROVE  UNCHANGED registryVars \/ \E r \in Runs : Uses(r)
  BY <1>1 DEF ThreadStep, TakeCopy, FinishSync, Watch, Respond, ReadForCancel,
              FinishCancel, CallRaises, CompareRow, LookAtRun, CancelOne, ReadReclaim, Uses
<1>2. ASSUME NEW r \in Runs, Elsewhere(r)
      PROVE  \E s \in Runs : Uses(s)
  BY <1>2 DEF Elsewhere, ReadReclaim, Uses
<1>3. ASSUME NEW r \in BatchRuns, QueueRow(r)
      PROVE  \E s \in Runs : Uses(s)
  BY <1>3 DEF QueueRow, Uses
<1>4. CASE OpenBatch \/ QueueRaises \/ BatchExpires \/ UNCHANGED vars
  BY <1>4 DEF OpenBatch, QueueRaises, BatchExpires, vars
<1> QED
  BY <1>1, <1>2, <1>3, <1>4 DEF Next

\* How the row of a run may change.
LEMMA RowMoves ==
  ASSUME RegistryTypeOK, [Next]_vars, NEW r \in Runs
  PROVE  /\ row'[r] = "none" => row[r] = "none"
         /\ row'[r] = "queued" => row[r] \in {"none", "queued"}
         /\ row[r] \in Terminal => row'[r] \in {row[r], "gone"}
         /\ row[r] = "gone" => row'[r] = "gone"
         /\ age[r] # "fresh" => age'[r] # "fresh"
<1> USE DEF RegistryTypeOK, Terminal, InFlight
<1>1. CASE UNCHANGED registryVars
  BY <1>1 DEF registryVars
<1>2. ASSUME NEW s \in Runs, Uses(s)
      PROVE  /\ row'[r] = "none" => row[r] = "none"
             /\ row'[r] = "queued" => row[r] \in {"none", "queued"}
             /\ row[r] \in Terminal => row'[r] \in {row[r], "gone"}
             /\ row[r] = "gone" => row'[r] = "gone"
             /\ age[r] # "fresh" => age'[r] # "fresh"
  <2>1. CASE Create(s)
    BY <2>1 DEF Create, Dropped, HasRow
  <2>2. CASE ClaimRunning(s) \/ Cancel(s)
    BY <2>2 DEF ClaimRunning, Cancel, SetRow
  <2>3. CASE Succeed(s) \/ Fail(s)
    BY <2>3 DEF Succeed, Fail, Finish, SetRow
  <2>4. CASE Delete(s)
    BY <2>4 DEF Delete, HasRow, SetRow
  <2>5. CASE Expire(s)
    BY <2>5 DEF Expire, HasRow
  <2> QED
    BY <1>2, <2>1, <2>2, <2>3, <2>4, <2>5 DEF Uses
<1> QED
  BY <1>1, <1>2, RegistryUse

\* What fits a run goes on fitting it, whatever happens in the registry.
LEMMA FitsKept ==
  ASSUME RegistryTypeOK, [Next]_vars, NEW r \in BatchRuns, NEW s \in RowStates, Fits(s, r)
  PROVE  Fits(s, r)'
<1>1. r \in Runs
  OBVIOUS
<1> QED
  BY <1>1, RowMoves DEF Fits, Agrees, Lost, IsVisible, HasRow, RegistryTypeOK, RowStates,
                        RowStatus, InFlight, Terminal

\* "queued" fits every run.
LEMMA QueuedFits ==
  ASSUME NEW r \in BatchRuns
  PROVE  Fits("queued", r)'
BY DEF Fits, Agrees

\* The registry keeps its types.
LEMMA RegistryTypesKept ==
  ASSUME RegistryTypeOK, [Next]_vars
  PROVE  RegistryTypeOK'
<1>1. [RegistryNext]_registryVars
  BY RegistryUse DEF Uses, RegistryNext
<1> QED
  BY <1>1, RegistryNextType

-----------------------------------------------------------------------------
(* What a step does to the batch and the threads *)

\* Types.
LEMMA TypesKept ==
  ASSUME TypeOK, AllIssued, AtWorkLate, [Next]_vars
  PROVE  TypeOK'
<1> USE DEF TypeOK
<1>1. RegistryTypeOK'
  BY RegistryTypesKept
<1>2. /\ AllQueued \in Rows
      /\ \A r \in BatchRuns : IsVisible(r) => row[r] \in RowStates
  BY DEF AllQueued, Rows, RowStates, InFlight, Terminal, IsVisible, HasRow
<1>3. \A t \in Threads, r \in BatchRuns, v \in RowStates :
        [copy EXCEPT ![t][r] = v] \in [Threads -> Rows]
  BY DEF Rows
<1>4. /\ batch' \in BatchStates
      /\ status' \in Rows
      /\ at' \in [Threads -> Places]
      /\ copy' \in [Threads -> Rows]
      /\ todo' \in [Threads -> SUBSET BatchRuns]
      /\ changed' \in SUBSET Threads
  <2>1. ASSUME NEW t \in Threads, TakeCopy(t) \/ Watch(t) \/ Respond(t)
        PROVE  <1>4!:
    BY <2>1 DEF TakeCopy, Watch, Respond, Move, Places, Ended
  <2>2. ASSUME NEW t \in Threads, FinishSync(t) \/ FinishCancel(t) \/ CallRaises(t)
        PROVE  <1>4!:
    BY <1>2, <2>2 DEF FinishSync, FinishCancel, CallRaises, WriteBack, DropCopy, Move, Places, Ended
  <2>3. ASSUME NEW t \in Threads, ReadForCancel(t)
        PROVE  <1>4!:
    BY <2>3 DEF ReadForCancel, Move, Places, Ended
  <2>4. ASSUME NEW t \in Threads, NEW r \in BatchRuns, CompareRow(t, r)
        PROVE  <1>4!:
    <3>1. copy' \in [Threads -> Rows]
      BY <1>2, <1>3, <2>4 DEF CompareRow
    <3> QED
      BY <2>4, <3>1 DEF CompareRow, Done
  <2>5. ASSUME NEW t \in Threads, NEW r \in BatchRuns, LookAtRun(t, r) \/ CancelOne(t, r)
        PROVE  <1>4!:
    <3>1. {"failed", "canceled"} \subseteq RowStates
      BY DEF RowStates, Terminal
    <3>2. copy' \in [Threads -> Rows]
      BY <1>3, <2>5, <3>1 DEF LookAtRun, CancelOne
    <3> QED
      BY <2>5, <3>2 DEF LookAtRun, CancelOne, Done, Move, Places
  <2>6. CASE (\E r \in BatchRuns : QueueRow(r)) \/ OpenBatch \/ QueueRaises \/ BatchExpires
    BY <2>6 DEF QueueRow, OpenBatch, QueueRaises, BatchExpires, BatchStates, threadVars
  <2>7. CASE UNCHANGED vars \/ \E r \in Runs : Elsewhere(r)
    BY <2>7 DEF Elsewhere, vars, threadVars
  <2> QED
    BY <2>1, <2>2, <2>3, <2>4, <2>5, <2>6, <2>7 DEF Next, ThreadStep
<1> QED
  BY <1>1, <1>4

\* A row takes its status from a copy, if it changes.
LEMMA RowOrigin ==
  ASSUME [Next]_vars, NEW r \in BatchRuns
  PROVE  \/ status'[r] = status[r]
         \/ \E t \in Threads : status'[r] = copy[t][r]
<1>1. CASE UNCHANGED status
  BY <1>1
<1>2. ASSUME NEW t \in Threads, FinishSync(t) \/ FinishCancel(t)
      PROVE  status' \in {status, copy[t]}
  BY <1>2 DEF FinishSync, FinishCancel, WriteBack
<1>3. \/ UNCHANGED status
      \/ \E t \in Threads : FinishSync(t) \/ FinishCancel(t)
  BY DEF Next, ThreadStep, TakeCopy, Watch, Respond, ReadForCancel, CallRaises, CompareRow,
         LookAtRun, CancelOne, QueueRow, OpenBatch, QueueRaises, BatchExpires, Elsewhere,
         vars, threadVars
<1> QED
  BY <1>1, <1>2, <1>3

\* What a look at the registry puts into a copy fits the run.
LEMMA LooksFit ==
  ASSUME IInv, NEW t \in Threads, NEW r \in BatchRuns,
         CompareRow(t, r) \/ LookAtRun(t, r) \/ CancelOne(t, r)
  PROVE  \/ UNCHANGED copy
         \/ \E s \in RowStates : Fits(s, r)' /\ copy' = [copy EXCEPT ![t][r] = s]
<1> USE DEF IInv, TypeOK
<1>1. r \in Runs /\ row[r] # "none"
  BY DEF CompareRow, LookAtRun, CancelOne, AtWorkLate, AllIssued
<1>2. CASE CompareRow(t, r) /\ IsVisible(r)
  <2>1. row[r] \in RowStates /\ Fits(row[r], r)
    BY <1>1, <1>2 DEF IsVisible, HasRow, RowStates, Fits, Agrees
  <2>2. copy' = [copy EXCEPT ![t][r] = row[r]] /\ row' = row /\ age' = age
    BY <1>2 DEF CompareRow, registryVars
  <2>3. ASSUME NEW s \in RowStates, s = row[r]
        PROVE  Fits(s, r)'
    BY <2>1, <2>2, <2>3 DEF Fits, Agrees, Lost, IsVisible, HasRow
  <2> QED
    BY <2>1, <2>2, <2>3
<1>3. CASE CompareRow(t, r) /\ ~IsVisible(r)
  BY <1>3 DEF CompareRow
<1>4. CASE LookAtRun(t, r) /\ ~IsVisible(r)
  <2>1. copy' = [copy EXCEPT ![t][r] = "failed"] /\ age' = age
    BY <1>4 DEF LookAtRun, ReadReclaim, Delete, registryVars
  <2>2. \/ row'[r] = row[r] /\ row[r] \notin InFlight
        \/ row'[r] = "gone"
    BY <1>1, <1>4 DEF LookAtRun, ReadReclaim, Delete, SetRow, HasRow, registryVars,
                      RegistryTypeOK, InFlight
  <2>3. Fits("failed", r)'
    BY <1>1, <1>4, <2>1, <2>2 DEF Fits, Agrees, Lost, IsVisible, HasRow, InFlight, Terminal
  <2> QED
    BY <2>1, <2>3 DEF RowStates, Terminal
<1>5. CASE LookAtRun(t, r) /\ IsVisible(r)
  BY <1>5 DEF LookAtRun
<1>6. CASE CancelOne(t, r) /\ row[r] = "queued"
  <2>1. copy' = [copy EXCEPT ![t][r] = "canceled"] /\ row'[r] = "canceled"
    BY <1>1, <1>6 DEF CancelOne, Cancel, SetRow, RegistryTypeOK
  <2> QED
    BY <2>1 DEF Fits, Agrees, RowStates, Terminal
<1>7. CASE CancelOne(t, r) /\ row[r] # "queued"
  BY <1>7 DEF CancelOne
<1> QED
  BY <1>2, <1>3, <1>4, <1>5, <1>6, <1>7

\* An entry of a copy comes from a row, if it does not come from the registry.
LEMMA CopyOrigin ==
  ASSUME IInv, [Next]_vars, NEW t \in Threads, NEW r \in BatchRuns
  PROVE  \/ copy'[t][r] \in {copy[t][r], status[r], "queued"}
         \/ Fits(copy[t][r], r)'
<1> USE DEF IInv, TypeOK
<1> DEFINE Origin == \/ copy'[t][r] \in {copy[t][r], status[r], "queued"}
                     \/ Fits(copy[t][r], r)'
<1>1. ASSUME NEW u \in Threads, TakeCopy(u) \/ ReadForCancel(u)
      PROVE  Origin
  BY <1>1 DEF TakeCopy, ReadForCancel
<1>2. ASSUME NEW u \in Threads, FinishSync(u) \/ FinishCancel(u) \/ CallRaises(u)
      PROVE  Origin
  BY <1>2 DEF FinishSync, FinishCancel, CallRaises, DropCopy, AllQueued
<1>3. ASSUME NEW u \in Threads, NEW q \in BatchRuns,
             CompareRow(u, q) \/ LookAtRun(u, q) \/ CancelOne(u, q)
      PROVE  Origin
  <2>1. CASE UNCHANGED copy
    BY <2>1
  <2>2. ASSUME NEW s \in RowStates, Fits(s, q)', copy' = [copy EXCEPT ![u][q] = s]
        PROVE  Origin
    <3>1. CASE t = u /\ r = q
      <4>1. copy'[t][r] = s
        BY <2>2, <3>1 DEF Rows
      <4> QED
        BY <2>2, <3>1, <4>1 DEF Fits, Agrees, Lost, IsVisible, HasRow
    <3>2. CASE ~(t = u /\ r = q)
      BY <2>2, <3>2 DEF Rows
    <3> QED
      BY <3>1, <3>2
  <2> QED
    BY <1>3, <2>1, <2>2, LooksFit
<1>4. UNCHANGED copy \/ \E u \in Threads :
        \/ TakeCopy(u) \/ ReadForCancel(u)
        \/ FinishSync(u) \/ FinishCancel(u) \/ CallRaises(u)
        \/ \E q \in BatchRuns : CompareRow(u, q) \/ LookAtRun(u, q) \/ CancelOne(u, q)
  BY DEF Next, ThreadStep, Watch, Respond, QueueRow, OpenBatch, QueueRaises, BatchExpires,
         Elsewhere, vars, threadVars
<1> QED
  BY <1>1, <1>2, <1>3, <1>4

\* So every row and every copy goes on fitting its run.
LEMMA AllFit ==
  ASSUME IInv, [Next]_vars
  PROVE  RowsFit' /\ CopiesFit'
<1> USE DEF IInv, TypeOK
<1>1. ASSUME NEW r \in BatchRuns
      PROVE  Fits(status[r], r)'
  BY <1>1, RowOrigin, FitsKept DEF RowsFit, CopiesFit, Rows, Fits, Agrees, Lost, IsVisible, HasRow
<1>2. ASSUME NEW t \in Threads, NEW r \in BatchRuns
      PROVE  Fits(copy[t][r], r)'
  BY <1>2, CopyOrigin, FitsKept, QueuedFits DEF RowsFit, CopiesFit, Rows, Fits, Agrees, Lost, IsVisible, HasRow
<1> QED
  BY <1>1, <1>2 DEF RowsFit, CopiesFit

\* The runs of a batch that is at work are all there, and stay issued.
LEMMA LateKept ==
  ASSUME IInv, [Next]_vars
  PROVE  AllIssued' /\ AtWorkLate'
<1> USE DEF IInv, TypeOK, AllIssued, AtWorkLate
<1>1. \A r \in BatchRuns : row'[r] = "none" => row[r] = "none"
  BY RowMoves
<1>2. ASSUME NEW t \in Threads, ThreadStep(t)
      PROVE  batch' = batch /\ AtWorkLate'
  <2>1. \A r \in BatchRuns : CompareRow(t, r) \/ LookAtRun(t, r) \/ CancelOne(t, r)
                               => batch' = batch /\ AtWorkLate'
    BY DEF CompareRow, LookAtRun, CancelOne, Move
  <2>2. TakeCopy(t) => batch' = batch /\ AtWorkLate'
    BY DEF TakeCopy, KnowsBatch, Move
  <2>3. FinishSync(t) \/ Watch(t) \/ Respond(t) => batch' = batch /\ AtWorkLate'
    BY DEF FinishSync, Watch, Respond, Move
  <2>4. ReadForCancel(t) \/ FinishCancel(t) \/ CallRaises(t) => batch' = batch /\ AtWorkLate'
    BY DEF ReadForCancel, FinishCancel, CallRaises, Move
  <2> QED
    BY <1>2, <2>1, <2>2, <2>3, <2>4 DEF ThreadStep
<1>3. CASE \E t \in Threads : ThreadStep(t)
  BY <1>1, <1>2, <1>3
<1>4. CASE OpenBatch \/ QueueRaises \/ BatchExpires
  BY <1>1, <1>4 DEF OpenBatch, QueueRaises, BatchExpires, threadVars
<1>5. CASE (\E r \in BatchRuns : QueueRow(r)) \/ (\E r \in Runs : Elsewhere(r)) \/ UNCHANGED vars
  BY <1>1, <1>5 DEF QueueRow, Elsewhere, vars, threadVars
<1> QED
  BY <1>3, <1>4, <1>5 DEF Next

\* A cancel request takes a run off its list only when the run is not queued.
LEMMA ListsReach ==
  ASSUME IInv, NEW t \in Cancels, ThreadStep(t), NEW r \in BatchRuns,
         at'[t] \in {"cancel", "canceling", "over"}, row'[r] = "queued", row[r] = "queued"
  PROVE  at'[t] # "over" /\ r \in todo'[t]
<1> USE DEF IInv, TypeOK, CancelsReach
<1>1. t \in Threads /\ t # Monitor /\ t # Creator /\ t \notin Polls
  BY DEF Threads, Clients
<1>2. CASE ReadForCancel(t)
  BY <1>1, <1>2 DEF ReadForCancel, Move, RowsFit, Fits
<1>3. ASSUME NEW q \in BatchRuns, LookAtRun(t, q)
      PROVE  at'[t] # "over" /\ r \in todo'[t]
  <2>1. r \in todo[t] /\ at'[t] \in {"cancel", "canceling"}
    BY <1>1, <1>3 DEF LookAtRun, Move
  <2>2. q = r => todo'[t] = todo[t]
    BY <1>1, <1>3 DEF LookAtRun, ReadReclaim, Delete, SetRow, HasRow, RegistryTypeOK, InFlight
  <2>3. q # r => r \in todo'[t]
    BY <1>1, <1>3, <2>1 DEF LookAtRun, Done
  <2> QED
    BY <2>1, <2>2, <2>3
<1>4. ASSUME NEW q \in BatchRuns, CancelOne(t, q)
      PROVE  at'[t] # "over" /\ r \in todo'[t]
  <2>1. r \in todo[t] /\ at'[t] = "cancel"
    BY <1>1, <1>4 DEF CancelOne, Move
  <2>2. q # r
    BY <1>4 DEF CancelOne, Cancel, SetRow, RegistryTypeOK
  <2> QED
    BY <1>1, <1>4, <2>1, <2>2 DEF CancelOne, Done
<1>5. CASE FinishCancel(t)
  BY <1>5 DEF FinishCancel
<1>6. CASE TakeCopy(t) \/ FinishSync(t) \/ CallRaises(t)
  BY <1>1, <1>6 DEF TakeCopy, FinishSync, CallRaises, Move
<1>7. ASSUME NEW q \in BatchRuns, CompareRow(t, q)
      PROVE  FALSE
  BY <1>7 DEF CompareRow
<1> QED
  BY <1>1, <1>2, <1>3, <1>4, <1>5, <1>6, <1>7 DEF ThreadStep, Watch, Respond

\* A thread leaves the others alone.
LEMMA OthersStay ==
  ASSUME TypeOK, NEW u \in Threads, ThreadStep(u), NEW t \in Threads, t # u
  PROVE  at'[t] = at[t] /\ todo'[t] = todo[t]
<1> USE DEF TypeOK
<1>1. CASE TakeCopy(u) \/ FinishSync(u) \/ Watch(u) \/ Respond(u)
  BY <1>1 DEF TakeCopy, FinishSync, Watch, Respond, Move, DropCopy
<1>2. CASE ReadForCancel(u) \/ FinishCancel(u) \/ CallRaises(u)
  BY <1>2 DEF ReadForCancel, FinishCancel, CallRaises, Move, DropCopy
<1>3. ASSUME NEW r \in BatchRuns, CompareRow(u, r) \/ LookAtRun(u, r) \/ CancelOne(u, r)
      PROVE  at'[t] = at[t] /\ todo'[t] = todo[t]
  BY <1>3 DEF CompareRow, LookAtRun, CancelOne, Move, Done
<1> QED
  BY <1>1, <1>2, <1>3 DEF ThreadStep

\* So a cancel request reaches all that is queued, whatever it has read.
LEMMA CancelsKeepReach ==
  ASSUME IInv, [Next]_vars
  PROVE  CancelsReach'
<1> USE DEF IInv, TypeOK
<1> SUFFICES ASSUME NEW t \in Cancels, NEW r \in BatchRuns, row'[r] = "queued",
                    at'[t] \in {"cancel", "canceling", "over"}
             PROVE  at'[t] # "over" /\ r \in todo'[t]
  BY DEF CancelsReach
<1>1. t \in Threads
  BY DEF Threads, Clients
<1>2. ASSUME NEW u \in Threads, u # t, ThreadStep(u)
      PROVE  at'[t] = at[t] /\ todo'[t] = todo[t]
  BY <1>1, <1>2, OthersStay
<1>3. ThreadStep(t) \/ (at'[t] = at[t] /\ todo'[t] = todo[t])
  BY <1>2 DEF Next, QueueRow, OpenBatch, QueueRaises, BatchExpires, Elsewhere, vars, threadVars
<1>4. at[t] # "idle"
  <2>1. ASSUME at[t] = "idle", ThreadStep(t)
        PROVE  FALSE
    BY <1>1, <2>1 DEF ThreadStep, TakeCopy, FinishSync, Watch, Respond, ReadForCancel,
                      FinishCancel, CallRaises, CompareRow, LookAtRun, CancelOne, Move
  <2> QED
    BY <1>3, <2>1
<1>5. row[r] = "queued"
  BY <1>1, <1>4, RowMoves DEF AllIssued, AtWorkLate
<1>6. CASE ThreadStep(t)
  BY <1>5, <1>6, ListsReach
<1> QED
  BY <1>3, <1>5, <1>6 DEF CancelsReach

-----------------------------------------------------------------------------
(* Theorems *)

\* Stale copies, overwritten rows, lost runs, requests that fail midway and a batch
\* that expires under its threads: none of it breaks the inductive invariant.
THEOREM BatchInvariance == Spec => []IInv
<1>1. Init => IInv
  <2> SUFFICES ASSUME Init PROVE IInv
    OBVIOUS
  <2>1. RegistryTypeOK
    BY DEF Init, RegistryInit, RegistryTypeOK, RowStatus, Ages
  <2>2. TypeOK
    BY <2>1 DEF Init, TypeOK, BatchStates, Rows, RowStates, InFlight, AllQueued, Places
  <2> QED
    BY <2>2 DEF Init, IInv, AllQueued, RowsFit, CopiesFit, Fits, Agrees, AllIssued,
                AtWorkLate, CancelsReach, Threads, Clients
<1>2. IInv /\ [Next]_vars => IInv'
  BY TypesKept, AllFit, LateKept, CancelsKeepReach DEF IInv
<1> QED
  BY <1>1, <1>2, PTL DEF Spec

\* Every variable keeps its type.
THEOREM BatchTypes == Spec => []TypeOK
<1>1. IInv => TypeOK
  BY DEF IInv
<1> QED
  BY <1>1, BatchInvariance, PTL

\* An outcome that a row of the batch shows is the outcome of its run.
THEOREM Truth == Spec => []RowsTellTheTruth
<1>1. IInv => RowsTellTheTruth
  BY DEF IInv, RowsFit, Fits, RowsTellTheTruth
<1> QED
  BY <1>1, BatchInvariance, PTL

\* A cancel request that has been answered has left nothing of the batch queued.
THEOREM CancelsAreComplete == Spec => []CancelTakesAll
<1>1. IInv => CancelTakesAll
  BY DEF IInv, CancelsReach, CancelTakesAll
<1> QED
  BY <1>1, BatchInvariance, PTL

=============================================================================
