------------------------- MODULE AnalysisRunsProofs -------------------------
(***************************************************************************)
(* What holds of the alignment pipeline for any number of runs, library    *)
(* jobs, tenants and slots and for any bounds.  One inductive invariant,   *)
(* IInv, carries every safety property and the step that shows that the    *)
(* pipeline implements RunLifecycle.                                       *)
(***************************************************************************)
EXTENDS AnalysisRuns, JobRegistryProofs, FiniteSetTheorems

-----------------------------------------------------------------------------
(* The inductive invariant, one part per mechanism *)

\* Every part but the count of the free permits is a type.
SharedTypeOK ==
  /\ at        \in [Runs -> Locations]
  /\ target    \in [Runs -> Jobs \cup {NoJob}]
  /\ cached    \in SUBSET Runs
  /\ gate      \in [Tenants -> Runs \cup {NoRun}]
  /\ free      \in Nat
  /\ present   \in SUBSET Jobs
  /\ badge     \in [Jobs -> AlignmentStatus]
  /\ pin       \in [Jobs -> Runs \cup {NoRun}]
  /\ saved     \in SUBSET Runs
  /\ flip      \in SUBSET Runs
  /\ canceling \in [Runs -> {"no", "read", "write"}]
  /\ dropping  \in [Jobs -> Runs \cup {NoRun}]
  /\ watchdog  \in [at : {"idle", "read", "write"}, run : Runs \cup {NoRun}]
  /\ restarts  \in 0 .. MaxRestarts
  /\ faults    \in 0 .. MaxFaults
  /\ ticks     \in 0 .. MaxTicks

\* A run that was not issued has neither a thread nor a library job.
NotIssued == \A r \in Runs : row[r] = "none" => at[r] = "none" /\ target[r] = NoJob

\* The thread of a run is past the claim only when the run is not queued.
QueuedIsUnclaimed == \A r \in Runs : row[r] = "queued" => at[r] \notin Running

\* The watchdog only ever sees rows that are running.
OverdueIsRunning == \A r \in overdue : row[r] = "running"

\* A thread past its gate is the one that the gate names.
GateIsHeld == \A r \in Runs : at[r] \in Gated => gate[RunOwner[r]] = r

\* Every permit is free or with an executing thread.
Executing == {r \in Runs : at[r] \in Running}
PermitsAddUp == free + Cardinality(Executing) = Slots

\* A thread reaches registry.succeed with its product written.
SavedFirst == \A r \in Runs : at[r] = "saved" /\ target[r] \in present => r \in saved

\* A run works for its own tenant's library job.
TargetsAreOwned == \A r \in Runs : target[r] \in Jobs => JobOwner[target[r]] = RunOwner[r]

\* A thread that is about to leave has taken its job's badge off "running".
BadgeIsSettled ==
  faults = 0 => \A r \in Runs : at[r] \in {"saved", "release"} /\ target[r] \in present
                                  => badge[target[r]] # "running"

IInv ==
  /\ RegistryTypeOK
  /\ PayloadsHaveRows
  /\ SharedTypeOK
  /\ NotIssued
  /\ QueuedIsUnclaimed
  /\ OverdueIsRunning
  /\ GateIsHeld
  /\ PermitsAddUp
  /\ SavedFirst
  /\ SucceededIsDurable
  /\ NoLostRun
  /\ TargetsAreOwned
  /\ BadgeIsSettled
  /\ RunningBadgeHasWorker

-----------------------------------------------------------------------------
(* The registry under the pipeline *)

\* Every step but the recovery uses the registry through one of its operations.
LEMMA RegistryStep ==
  ASSUME SharedTypeOK, Next
  PROVE  [RegistryNext]_registryVars \/ CrashAndRecover
<1> USE DEF RegistryNext
<1>1. ASSUME NEW r \in Runs, Worker(r)
      PROVE  [RegistryNext]_registryVars
  <2>1. CASE Claim(r)
    BY <2>1 DEF Claim
  <2>2. CASE Abandon(r)
    BY <2>2 DEF Abandon
  <2>3. CASE RefuseNoText(r) \/ FailRun(r)
    BY <2>3 DEF RefuseNoText, FailRun
  <2>4. CASE SucceedRun(r)
    BY <2>4 DEF SucceedRun
  <2>5. CASE Release(r)
    BY <2>5 DEF Release
  <2>6. CASE FindTenant(r) \/ AcquireGate(r) \/ SyncRunning(r) \/ SyncNoText(r)
             \/ Execute(r) \/ SaveAlignment(r) \/ PersistRaises(r) \/ UsageRaises(r)
             \/ FailRaises(r) \/ MirrorFailure(r)
    BY <2>6 DEF FindTenant, AcquireGate, SyncRunning, SyncNoText, SyncRead, SyncWrite,
                Execute, SaveAlignment, PersistRaises, UsageRaises, FailRaises,
                MirrorFailure
  <2> QED
    BY <1>1, <2>1, <2>2, <2>3, <2>4, <2>5, <2>6 DEF Worker
<1>2. ASSUME NEW r \in Runs, Request(r)
      PROVE  [RegistryNext]_registryVars
  BY <1>2 DEF Request, QueueJob, FlipToQueued, CancelRun, CancelRead, CancelWrite, PollRun
<1>3. ASSUME NEW r \in Runs, Clock(r)
      PROVE  [RegistryNext]_registryVars
  BY <1>3 DEF Clock
<1>4. ASSUME NEW j \in Jobs, LibraryRequest(j)
      PROVE  [RegistryNext]_registryVars
  BY <1>4 DEF LibraryRequest, DeleteLibraryJob, DeletePinnedRun, SharedTypeOK
<1>5. ASSUME Watchdog
      PROVE  [RegistryNext]_registryVars
  BY <1>5 DEF Watchdog, WatchdogFail, WatchdogRead, WatchdogWrite
<1> QED
  BY <1>1, <1>2, <1>3, <1>4, <1>5 DEF Next

LEMMA RecoveryRows ==
  ASSUME RegistryTypeOK, PayloadsHaveRows, CrashAndRecover
  PROVE  /\ RegistryTypeOK' /\ PayloadsHaveRows'
         /\ \A r \in Runs : row[r] \in Terminal => row'[r] = row[r]
  BY DEF CrashAndRecover, RegistryTypeOK, PayloadsHaveRows, HasRow, Reclaimed,
         Recovered, RowStatus, InFlight, Terminal

LEMMA RegistryKept ==
  ASSUME RegistryTypeOK, PayloadsHaveRows, SharedTypeOK, [Next]_vars
  PROVE  RegistryTypeOK' /\ PayloadsHaveRows'
<1>1. CASE UNCHANGED vars
  BY <1>1, RegistryNextType, PayloadsStep DEF vars
<1>2. CASE Next
  BY <1>2, RegistryStep, RecoveryRows, RegistryNextType, PayloadsStep
<1> QED
  BY <1>1, <1>2

-----------------------------------------------------------------------------
(* Types *)

LEMMA SharedTypes ==
  ASSUME ConstantsAssumption, RegistryTypeOK, SharedTypeOK, [Next]_vars
  PROVE  SharedTypeOK'
<1> USE DEF SharedTypeOK, Locations, Gated, Running, Waiting, AlignmentStatus
<1>1. CASE UNCHANGED vars
  BY <1>1 DEF vars, threadVars, libraryVars, requestVars, boundVars
<1>2. ASSUME NEW r \in Runs, Worker(r)
      PROVE  SharedTypeOK'
  <2> USE DEF Goto, othersUnchanged, libraryVars, boundVars, requestVars, SetBadge,
              StoreFault, ConstantsAssumption
  <2>1. CASE FindTenant(r) \/ AcquireGate(r) \/ Claim(r) \/ Abandon(r)
    BY <2>1 DEF FindTenant, AcquireGate, Claim, Abandon
  <2>2. CASE SyncRunning(r) \/ SyncNoText(r)
    BY <2>2 DEF SyncRunning, SyncNoText, SyncRead, SyncWrite
  <2>3. CASE Execute(r) \/ RefuseNoText(r) \/ SaveAlignment(r)
    BY <2>3 DEF Execute, RefuseNoText, SaveAlignment
  <2>4. CASE PersistRaises(r) \/ UsageRaises(r) \/ FailRaises(r) \/ MirrorFailure(r)
    BY <2>4 DEF PersistRaises, UsageRaises, FailRaises, MirrorFailure
  <2>5. CASE SucceedRun(r) \/ FailRun(r) \/ Release(r)
    BY <2>5 DEF SucceedRun, FailRun, Release
  <2> QED
    BY <1>2, <2>1, <2>2, <2>3, <2>4, <2>5 DEF Worker
<1>3. ASSUME NEW r \in Runs, Request(r)
      PROVE  SharedTypeOK'
  <2> USE DEF threadVars, libraryVars, boundVars, requestVars
  <2>1. ASSUME NEW j \in Jobs \cup {NoJob}, QueueJob(r, j)
        PROVE  SharedTypeOK'
    BY <2>1 DEF QueueJob, Goto, CacheWith
  <2>2. CASE FlipToQueued(r)
    BY <2>2 DEF FlipToQueued, MayTransition, SetBadge
  <2>3. CASE CancelRun(r) \/ CancelRead(r) \/ CancelWrite(r) \/ PollRun(r)
    BY <2>3 DEF CancelRun, CancelRead, CancelWrite, PollRun, SetBadge
  <2> QED
    BY <1>3, <2>1, <2>2, <2>3 DEF Request
<1>4. ASSUME NEW r \in Runs, Clock(r)
      PROVE  SharedTypeOK'
  BY <1>4 DEF Clock, threadVars, libraryVars, requestVars, ConstantsAssumption
<1>5. ASSUME NEW j \in Jobs, LibraryRequest(j)
      PROVE  SharedTypeOK'
  BY <1>5 DEF LibraryRequest, DeleteLibraryJob, DeletePinnedRun, threadVars, libraryVars,
              boundVars
<1>6. ASSUME Watchdog
      PROVE  SharedTypeOK'
  BY <1>6 DEF Watchdog, WatchdogFail, WatchdogRead, WatchdogWrite, watchdogOnly,
              threadVars, requestVars, boundVars, SetBadge
<1>7. ASSUME CrashAndRecover
      PROVE  SharedTypeOK'
  BY <1>7 DEF CrashAndRecover, ConstantsAssumption
<1> QED
  BY <1>1, <1>2, <1>3, <1>4, <1>5, <1>6, <1>7 DEF Next

-----------------------------------------------------------------------------
(* Rows and threads *)

\* How rows move together with threads, whatever the store calls do.
RowsAndThreads == NotIssued /\ QueuedIsUnclaimed /\ OverdueIsRunning

LEMMA RowsAndThreadsKept ==
  ASSUME ConstantsAssumption, RegistryTypeOK, SharedTypeOK, RowsAndThreads, [Next]_vars
  PROVE  RowsAndThreads'
<1> USE DEF RowsAndThreads, NotIssued, QueuedIsUnclaimed, OverdueIsRunning,
            SharedTypeOK, RegistryTypeOK, Running, Waiting, InFlight, Terminal
<1>1. CASE UNCHANGED vars
  BY <1>1 DEF vars, registryVars, threadVars
<1>2. ASSUME NEW r \in Runs, Worker(r)
      PROVE  RowsAndThreads'
  <2> USE DEF Goto, othersUnchanged, registryVars, SetRow
  <2>1. CASE FindTenant(r) \/ AcquireGate(r) \/ Claim(r)
    BY <2>1 DEF FindTenant, AcquireGate, Claim, ClaimRunning
  <2>2. CASE Abandon(r)
    BY <2>2 DEF Abandon, ReadReclaim, Delete
  <2>3. CASE SyncRunning(r) \/ SyncNoText(r)
    BY <2>3 DEF SyncRunning, SyncNoText, SyncRead, SyncWrite
  <2>4. CASE Execute(r) \/ SaveAlignment(r) \/ PersistRaises(r)
    BY <2>4 DEF Execute, SaveAlignment, PersistRaises
  <2>5. CASE UsageRaises(r) \/ FailRaises(r) \/ MirrorFailure(r)
    BY <2>5 DEF UsageRaises, FailRaises, MirrorFailure
  <2>6. CASE RefuseNoText(r) \/ FailRun(r)
    BY <2>6 DEF RefuseNoText, FailRun, Fail, Finish
  <2>7. CASE SucceedRun(r)
    BY <2>7 DEF SucceedRun, Succeed, Finish
  <2>8. CASE Release(r)
    BY <2>8 DEF Release, DeletePayload
  <2> QED
    BY <1>2, <2>1, <2>2, <2>3, <2>4, <2>5, <2>6, <2>7, <2>8 DEF Worker
<1>3. ASSUME NEW r \in Runs, Request(r)
      PROVE  RowsAndThreads'
  <2> USE DEF registryVars, threadVars
  <2>1. ASSUME NEW j \in Jobs \cup {NoJob}, QueueJob(r, j)
        PROVE  RowsAndThreads'
    BY <2>1 DEF QueueJob, Goto, Create, Dropped, HasRow
  <2>2. CASE FlipToQueued(r) \/ CancelRead(r) \/ CancelWrite(r)
    BY <2>2 DEF FlipToQueued, CancelRead, CancelWrite
  <2>3. CASE CancelRun(r)
    BY <2>3 DEF CancelRun, Cancel, SetRow
  <2>4. CASE PollRun(r)
    BY <2>4 DEF PollRun, ReadReclaim, Delete, SetRow
  <2> QED
    BY <1>3, <2>1, <2>2, <2>3, <2>4 DEF Request
<1>4. ASSUME NEW r \in Runs, Clock(r)
      PROVE  RowsAndThreads'
  BY <1>4 DEF Clock, Expire, Retire, Overrun, threadVars
<1>5. ASSUME NEW j \in Jobs, LibraryRequest(j)
      PROVE  RowsAndThreads'
  BY <1>5 DEF LibraryRequest, DeleteLibraryJob, DeletePinnedRun, Delete, SetRow, HasRow,
              registryVars, threadVars
<1>6. ASSUME Watchdog
      PROVE  RowsAndThreads'
  BY <1>6 DEF Watchdog, WatchdogFail, WatchdogRead, WatchdogWrite, watchdogOnly, Fail,
              Finish, SetRow, registryVars, threadVars
<1>7. ASSUME CrashAndRecover
      PROVE  RowsAndThreads'
  BY <1>7 DEF CrashAndRecover, Recovered, Reclaimed
<1> QED
  BY <1>1, <1>2, <1>3, <1>4, <1>5, <1>6, <1>7 DEF Next

-----------------------------------------------------------------------------
(* The gates and the permits *)

\* A step either leaves the locks alone, or one thread moves with them.
LEMMA GateKept ==
  ASSUME ConstantsAssumption, SharedTypeOK, GateIsHeld, [Next]_vars
  PROVE  GateIsHeld'
<1> USE DEF GateIsHeld, SharedTypeOK, ConstantsAssumption, Gated, Running
<1>1. CASE UNCHANGED vars
  BY <1>1 DEF vars, threadVars
<1>2. ASSUME NEW r \in Runs, Worker(r)
      PROVE  GateIsHeld'
  <2> USE DEF Goto, othersUnchanged
  <2>1. CASE FindTenant(r) \/ AcquireGate(r) \/ Claim(r) \/ Abandon(r)
    BY <2>1 DEF FindTenant, AcquireGate, Claim, Abandon
  <2>2. CASE SyncRunning(r) \/ SyncNoText(r)
    BY <2>2 DEF SyncRunning, SyncNoText, SyncRead, SyncWrite
  <2>3. CASE Execute(r) \/ SaveAlignment(r) \/ PersistRaises(r) \/ RefuseNoText(r)
    BY <2>3 DEF Execute, SaveAlignment, PersistRaises, RefuseNoText
  <2>4. CASE FailRaises(r) \/ MirrorFailure(r) \/ FailRun(r) \/ SucceedRun(r)
    BY <2>4 DEF FailRaises, MirrorFailure, FailRun, SucceedRun
  <2>5. CASE UsageRaises(r) \/ Release(r)
    BY <2>5 DEF UsageRaises, Release
  <2> QED
    BY <1>2, <2>1, <2>2, <2>3, <2>4, <2>5 DEF Worker
<1>3. ASSUME NEW r \in Runs, Request(r)
      PROVE  GateIsHeld'
  BY <1>3 DEF Request, QueueJob, Goto, FlipToQueued, CancelRun, CancelRead, CancelWrite,
              PollRun, threadVars
<1>4. CASE (\E r \in Runs : Clock(r)) \/ (\E j \in Jobs : LibraryRequest(j)) \/ Watchdog
  BY <1>4 DEF Clock, LibraryRequest, DeleteLibraryJob, DeletePinnedRun, Watchdog,
              WatchdogFail, WatchdogRead, WatchdogWrite, watchdogOnly, threadVars
<1>5. CASE CrashAndRecover
  BY <1>5 DEF CrashAndRecover
<1> QED
  BY <1>1, <1>2, <1>3, <1>4, <1>5 DEF Next

LEMMA ExecutingIsFinite ==
  ASSUME RegistryAssumption, NEW S \in SUBSET Runs
  PROVE  IsFiniteSet(S) /\ Cardinality(S) \in Nat
  BY RegistryAssumption, FS_Subset, FS_CardinalityType DEF RegistryAssumption

LEMMA PermitsKept ==
  ASSUME RegistryAssumption, ConstantsAssumption, SharedTypeOK, PermitsAddUp, [Next]_vars
  PROVE  PermitsAddUp'
<1> USE DEF PermitsAddUp, SharedTypeOK, Running
<1>0. IsFiniteSet(Executing) /\ Cardinality(Executing) \in Nat /\ Slots \in Nat
  BY ExecutingIsFinite DEF Executing, ConstantsAssumption
<1>1. ASSUME UNCHANGED free, Executing' = Executing
      PROVE  PermitsAddUp'
  BY <1>1
<1>2. CASE UNCHANGED vars
  BY <1>1, <1>2 DEF vars, threadVars, Executing
<1>3. ASSUME NEW r \in Runs, Worker(r)
      PROVE  PermitsAddUp'
  <2> USE DEF Goto, othersUnchanged
  <2>1. CASE FindTenant(r) \/ AcquireGate(r) \/ Abandon(r)
    BY <1>1, <2>1 DEF FindTenant, AcquireGate, Abandon, Executing
  <2>2. CASE Claim(r)
    <3>1. r \notin Executing /\ Executing' = Executing \cup {r} /\ free' = free - 1
      BY <2>2 DEF Claim, Executing
    <3>2. Cardinality(Executing \cup {r}) = Cardinality(Executing) + 1
      BY <1>0, <3>1, FS_AddElement
    <3>3. Cardinality(Executing') = Cardinality(Executing) + 1
      BY <3>1, <3>2
    <3> QED
      BY <1>0, <2>2, <3>1, <3>3 DEF Claim
  <2>3. CASE SyncRunning(r) \/ SyncNoText(r)
    BY <1>1, <2>3 DEF SyncRunning, SyncNoText, SyncRead, SyncWrite, Executing
  <2>4. CASE Execute(r) \/ SaveAlignment(r) \/ PersistRaises(r) \/ RefuseNoText(r)
    BY <1>1, <2>4 DEF Execute, SaveAlignment, PersistRaises, RefuseNoText, Executing
  <2>5. CASE FailRaises(r) \/ MirrorFailure(r) \/ FailRun(r) \/ SucceedRun(r)
    BY <1>1, <2>5 DEF FailRaises, MirrorFailure, FailRun, SucceedRun, Executing
  <2>6. CASE UsageRaises(r) \/ Release(r)
    <3>1. r \in Executing /\ Executing' = Executing \ {r} /\ free' = free + 1
      BY <2>6 DEF UsageRaises, Release, Executing
    <3>2. Cardinality(Executing \ {r}) = Cardinality(Executing) - 1
      BY <1>0, <3>1, FS_RemoveElement
    <3>3. Cardinality(Executing') = Cardinality(Executing) - 1
      BY <3>1, <3>2
    <3> QED
      BY <1>0, <3>1, <3>3
  <2> QED
    BY <1>3, <2>1, <2>2, <2>3, <2>4, <2>5, <2>6 DEF Worker
<1>4. ASSUME NEW r \in Runs, Request(r)
      PROVE  PermitsAddUp'
  BY <1>1, <1>4 DEF Request, QueueJob, Goto, FlipToQueued, CancelRun, CancelRead,
                    CancelWrite, PollRun, threadVars, Executing
<1>5. CASE (\E r \in Runs : Clock(r)) \/ (\E j \in Jobs : LibraryRequest(j)) \/ Watchdog
  BY <1>1, <1>5 DEF Clock, LibraryRequest, DeleteLibraryJob, DeletePinnedRun, Watchdog,
              WatchdogFail, WatchdogRead, WatchdogWrite, watchdogOnly, threadVars, Executing
<1>6. CASE CrashAndRecover
  <2>1. Executing' = {} /\ free' = Slots
    BY <1>6 DEF CrashAndRecover, Executing
  <2> QED
    BY <1>0, <2>1, FS_EmptySet
<1> QED
  BY <1>2, <1>3, <1>4, <1>5, <1>6 DEF Next

-----------------------------------------------------------------------------
(* Products *)

Products == SavedFirst /\ SucceededIsDurable /\ TargetsAreOwned

LEMMA ProductsKept ==
  ASSUME ConstantsAssumption, RegistryTypeOK, SharedTypeOK, Products, [Next]_vars
  PROVE  Products'
<1> USE DEF Products, SavedFirst, SucceededIsDurable, TargetsAreOwned, SharedTypeOK,
            RegistryTypeOK, ConstantsAssumption
<1>1. CASE UNCHANGED vars
  BY <1>1 DEF vars, registryVars, threadVars, libraryVars
<1>2. ASSUME NEW r \in Runs, Worker(r)
      PROVE  Products'
  <2> USE DEF Goto, othersUnchanged, registryVars, libraryVars, SetRow
  <2>1. CASE FindTenant(r) \/ AcquireGate(r) \/ Claim(r)
    BY <2>1 DEF FindTenant, AcquireGate, Claim, ClaimRunning
  <2>2. CASE Abandon(r)
    BY <2>2 DEF Abandon, ReadReclaim, Delete
  <2>3. CASE SyncRunning(r) \/ SyncNoText(r)
    BY <2>3 DEF SyncRunning, SyncNoText, SyncRead, SyncWrite
  <2>4. CASE Execute(r) \/ PersistRaises(r) \/ UsageRaises(r)
    BY <2>4 DEF Execute, PersistRaises, UsageRaises
  <2>5. CASE SaveAlignment(r)
    BY <2>5 DEF SaveAlignment
  <2>6. CASE FailRaises(r) \/ MirrorFailure(r)
    BY <2>6 DEF FailRaises, MirrorFailure
  <2>7. CASE RefuseNoText(r) \/ FailRun(r)
    BY <2>7 DEF RefuseNoText, FailRun, Fail, Finish
  <2>8. CASE SucceedRun(r)
    BY <2>8 DEF SucceedRun, Succeed, Finish
  <2>9. CASE Release(r)
    BY <2>9 DEF Release, DeletePayload
  <2> QED
    BY <1>2, <2>1, <2>2, <2>3, <2>4, <2>5, <2>6, <2>7, <2>8, <2>9 DEF Worker
<1>3. ASSUME NEW r \in Runs, Request(r)
      PROVE  Products'
  <2> USE DEF registryVars, threadVars, libraryVars
  <2>1. ASSUME NEW j \in Jobs \cup {NoJob}, QueueJob(r, j)
        PROVE  Products'
    BY <2>1 DEF QueueJob, Goto, Create
  <2>2. CASE FlipToQueued(r) \/ CancelRead(r) \/ CancelWrite(r)
    BY <2>2 DEF FlipToQueued, CancelRead, CancelWrite
  <2>3. CASE CancelRun(r)
    BY <2>3 DEF CancelRun, Cancel, SetRow
  <2>4. CASE PollRun(r)
    BY <2>4 DEF PollRun, ReadReclaim, Delete, SetRow
  <2> QED
    BY <1>3, <2>1, <2>2, <2>3, <2>4 DEF Request
<1>4. ASSUME NEW r \in Runs, Clock(r)
      PROVE  Products'
  BY <1>4 DEF Clock, Expire, Retire, Overrun, threadVars, libraryVars
<1>5. ASSUME NEW j \in Jobs, LibraryRequest(j)
      PROVE  Products'
  BY <1>5 DEF LibraryRequest, DeleteLibraryJob, DeletePinnedRun, Delete, SetRow,
              registryVars, threadVars, libraryVars
<1>6. ASSUME Watchdog
      PROVE  Products'
  BY <1>6 DEF Watchdog, WatchdogFail, WatchdogRead, WatchdogWrite, watchdogOnly, Fail,
              Finish, SetRow, registryVars, threadVars
<1>7. ASSUME CrashAndRecover
      PROVE  Products'
  BY <1>7 DEF CrashAndRecover, Recovered, Reclaimed
<1> QED
  BY <1>1, <1>2, <1>3, <1>4, <1>5, <1>6, <1>7 DEF Next

-----------------------------------------------------------------------------
(* No run is lost *)

LEMMA NoLostRunKept ==
  ASSUME ConstantsAssumption, RegistryTypeOK, SharedTypeOK, RowsAndThreads, NoLostRun,
         [Next]_vars
  PROVE  NoLostRun'
<1> USE DEF NoLostRun, SharedTypeOK, RegistryTypeOK, Running, Leaving, Waiting, InFlight
<1>1. CASE UNCHANGED vars
  BY <1>1 DEF vars, registryVars, threadVars, boundVars
<1>2. ASSUME NEW r \in Runs, Worker(r)
      PROVE  NoLostRun'
  <2> USE DEF Goto, othersUnchanged, registryVars, SetRow, boundVars
  <2>1. CASE FindTenant(r) \/ AcquireGate(r) \/ Claim(r)
    BY <2>1 DEF FindTenant, AcquireGate, Claim, ClaimRunning, HasPayload
  <2>2. CASE Abandon(r)
    BY <2>2 DEF Abandon, ReadReclaim, Delete, HasPayload, IsVisible, HasRow
  <2>3. CASE SyncRunning(r) \/ SyncNoText(r)
    BY <2>3 DEF SyncRunning, SyncNoText, SyncRead, SyncWrite
  <2>4. CASE Execute(r) \/ SaveAlignment(r)
    BY <2>4 DEF Execute, SaveAlignment
  <2>5. CASE PersistRaises(r) \/ UsageRaises(r) \/ FailRaises(r)
    BY <2>5 DEF PersistRaises, UsageRaises, FailRaises, StoreFault
  <2>6. CASE MirrorFailure(r)
    BY <2>6 DEF MirrorFailure, StoreFault
  <2>7. CASE RefuseNoText(r) \/ FailRun(r)
    BY <2>7 DEF RefuseNoText, FailRun, Fail, Finish
  <2>8. CASE SucceedRun(r)
    BY <2>8 DEF SucceedRun, Succeed, Finish
  <2>9. CASE Release(r)
    BY <2>9 DEF Release, DeletePayload
  <2> QED
    BY <1>2, <2>1, <2>2, <2>3, <2>4, <2>5, <2>6, <2>7, <2>8, <2>9 DEF Worker
<1>3. ASSUME NEW r \in Runs, Request(r)
      PROVE  NoLostRun'
  <2> USE DEF registryVars, threadVars, boundVars
  <2>1. ASSUME NEW j \in Jobs \cup {NoJob}, QueueJob(r, j)
        PROVE  NoLostRun'
    BY <2>1 DEF QueueJob, Goto, Create, RowsAndThreads, NotIssued
  <2>2. CASE FlipToQueued(r) \/ CancelRead(r) \/ CancelWrite(r)
    BY <2>2 DEF FlipToQueued, CancelRead, CancelWrite
  <2>3. CASE CancelRun(r)
    BY <2>3 DEF CancelRun, Cancel, SetRow
  <2>4. CASE PollRun(r)
    BY <2>4 DEF PollRun, ReadReclaim, Delete, SetRow, HasRow
  <2> QED
    BY <1>3, <2>1, <2>2, <2>3, <2>4 DEF Request
<1>4. ASSUME NEW r \in Runs, Clock(r)
      PROVE  NoLostRun'
  BY <1>4 DEF Clock, Expire, Retire, Overrun, threadVars
<1>5. ASSUME NEW j \in Jobs, LibraryRequest(j)
      PROVE  NoLostRun'
  BY <1>5 DEF LibraryRequest, DeleteLibraryJob, DeletePinnedRun, Delete, SetRow, HasRow,
              registryVars, threadVars, boundVars
<1>6. ASSUME Watchdog
      PROVE  NoLostRun'
  BY <1>6 DEF Watchdog, WatchdogFail, WatchdogRead, WatchdogWrite, watchdogOnly, Fail,
              Finish, SetRow, registryVars, threadVars, boundVars
<1>7. ASSUME CrashAndRecover
      PROVE  NoLostRun'
  BY <1>7 DEF CrashAndRecover, Recovered, Reclaimed
<1> QED
  BY <1>1, <1>2, <1>3, <1>4, <1>5, <1>6, <1>7 DEF Next

-----------------------------------------------------------------------------
(* Badges *)

\* Two threads past their gates work for different library jobs.
LEMMA OneWorkerPerJob ==
  ASSUME ConstantsAssumption, SharedTypeOK, GateIsHeld, TargetsAreOwned,
         NEW r \in Runs, NEW s \in Runs, at[r] \in Gated, at[s] \in Gated,
         target[r] \in Jobs, target[s] = target[r]
  PROVE  r = s
  BY DEF GateIsHeld, TargetsAreOwned

Badges == BadgeIsSettled /\ RunningBadgeHasWorker

LEMMA BadgesKept ==
  ASSUME ConstantsAssumption, SharedTypeOK, RowsAndThreads, GateIsHeld, TargetsAreOwned,
         Badges, RegistryTypeOK, [Next]_vars
  PROVE  Badges'
<1> USE DEF Badges, BadgeIsSettled, RunningBadgeHasWorker, SharedTypeOK, Running,
            ConstantsAssumption
<1>1. CASE UNCHANGED vars
  BY <1>1 DEF vars, threadVars, libraryVars, boundVars
<1>2. ASSUME NEW r \in Runs, Worker(r)
      PROVE  Badges'
  <2> USE DEF Goto, othersUnchanged, libraryVars, boundVars, StoreFault
  <2>1. CASE FindTenant(r) \/ AcquireGate(r) \/ Claim(r) \/ Abandon(r)
    BY <2>1 DEF FindTenant, AcquireGate, Claim, Abandon
  <2>2. ASSUME SyncRunning(r)
        PROVE  Badges'
    <3>1. CASE SyncRead(r, "sync", "syncWrite", "run", "running")
      BY <3>1 DEF SyncRead
    <3>2. CASE SyncWrite(r, "syncWrite", "run", "running")
      <4>1. \A s \in Runs : at[s] \in {"saved", "release"} /\ target[s] \in Jobs
              => target[s] # target[r]
        BY <3>2, OneWorkerPerJob DEF SyncWrite, Gated
      <4> QED
        BY <3>2, <4>1 DEF SyncWrite, SetBadge
    <3> QED
      BY <2>2, <3>1, <3>2 DEF SyncRunning
  <2>3. CASE SyncNoText(r)
    BY <2>3 DEF SyncNoText, SyncRead, SyncWrite, SetBadge, MayTransition, CanTransition,
                AllowedTransitions
  <2>4. CASE Execute(r) \/ RefuseNoText(r)
    BY <2>4 DEF Execute, RefuseNoText
  <2>5. CASE SaveAlignment(r) \/ SucceedRun(r)
    BY <2>5 DEF SaveAlignment, SucceedRun, SetBadge
  <2>6. CASE FailRun(r) \/ MirrorFailure(r)
    BY <2>6 DEF FailRun, MirrorFailure, SetBadge
  <2>7. CASE PersistRaises(r) \/ UsageRaises(r) \/ FailRaises(r)
    BY <2>7 DEF PersistRaises, UsageRaises, FailRaises
  <2>8. CASE Release(r)
    BY <2>8 DEF Release
  <2> QED
    BY <1>2, <2>1, <2>2, <2>3, <2>4, <2>5, <2>6, <2>7, <2>8 DEF Worker
<1>3. ASSUME NEW r \in Runs, Request(r)
      PROVE  Badges'
  <2> USE DEF threadVars, libraryVars, boundVars
  <2>1. ASSUME NEW j \in Jobs \cup {NoJob}, QueueJob(r, j)
        PROVE  Badges'
    BY <2>1 DEF QueueJob, Goto, Create, RowsAndThreads, NotIssued
  <2>2. CASE FlipToQueued(r)
    BY <2>2 DEF FlipToQueued, SetBadge
  <2>3. CASE CancelWrite(r)
    BY <2>3 DEF CancelWrite, SetBadge
  <2>4. CASE CancelRun(r) \/ CancelRead(r) \/ PollRun(r)
    BY <2>4 DEF CancelRun, CancelRead, PollRun
  <2> QED
    BY <1>3, <2>1, <2>2, <2>3, <2>4 DEF Request
<1>4. ASSUME NEW r \in Runs, Clock(r)
      PROVE  Badges'
  BY <1>4 DEF Clock, threadVars, libraryVars
<1>5. ASSUME NEW j \in Jobs, LibraryRequest(j)
      PROVE  Badges'
  BY <1>5 DEF LibraryRequest, DeleteLibraryJob, DeletePinnedRun, threadVars, libraryVars,
              boundVars
<1>6. ASSUME Watchdog
      PROVE  Badges'
  BY <1>6 DEF Watchdog, WatchdogFail, WatchdogRead, WatchdogWrite, watchdogOnly, SetBadge,
              threadVars, boundVars
<1>7. ASSUME CrashAndRecover
      PROVE  Badges'
  BY <1>7 DEF CrashAndRecover
<1> QED
  BY <1>1, <1>2, <1>3, <1>4, <1>5, <1>6, <1>7 DEF Next

-----------------------------------------------------------------------------
(* The invariant and the theorems about states *)

LEMMA Initially ==
  ASSUME RegistryAssumption, ConstantsAssumption, Init
  PROVE  IInv
<1>1. RegistryTypeOK /\ PayloadsHaveRows
  BY DEF Init, RegistryInit, RegistryTypeOK, PayloadsHaveRows, RowStatus, InFlight,
         Terminal, Ages
<1>2. SharedTypeOK
  BY DEF Init, SharedTypeOK, Locations, AlignmentStatus, ConstantsAssumption
<1>3. NotIssued /\ QueuedIsUnclaimed /\ OverdueIsRunning /\ GateIsHeld
  BY DEF Init, RegistryInit, NotIssued, QueuedIsUnclaimed, OverdueIsRunning, GateIsHeld,
         Gated, Running
<1>4. PermitsAddUp
  <2>1. Executing = {} /\ free = Slots
    BY DEF Init, Executing, Running
  <2> QED
    BY <2>1, FS_EmptySet DEF PermitsAddUp, ConstantsAssumption
<1>5. SavedFirst /\ SucceededIsDurable /\ NoLostRun /\ TargetsAreOwned
  BY DEF Init, RegistryInit, SavedFirst, SucceededIsDurable, NoLostRun, TargetsAreOwned,
         ConstantsAssumption
<1>6. BadgeIsSettled /\ RunningBadgeHasWorker
  BY DEF Init, BadgeIsSettled, RunningBadgeHasWorker
<1> QED
  BY <1>1, <1>2, <1>3, <1>4, <1>5, <1>6 DEF IInv

LEMMA Inductive ==
  ASSUME RegistryAssumption, ConstantsAssumption, IInv, [Next]_vars
  PROVE  IInv'
<1> USE DEF IInv
<1>1. RegistryTypeOK' /\ PayloadsHaveRows' /\ SharedTypeOK'
  BY RegistryKept, SharedTypes
<1>2. NotIssued' /\ QueuedIsUnclaimed' /\ OverdueIsRunning'
  BY RowsAndThreadsKept DEF RowsAndThreads
<1>3. GateIsHeld' /\ PermitsAddUp'
  BY GateKept, PermitsKept
<1>4. SavedFirst' /\ SucceededIsDurable' /\ TargetsAreOwned'
  BY ProductsKept DEF Products
<1>5. NoLostRun'
  BY NoLostRunKept DEF RowsAndThreads
<1>6. BadgeIsSettled' /\ RunningBadgeHasWorker'
  BY BadgesKept DEF RowsAndThreads, Badges
<1> QED
  BY <1>1, <1>2, <1>3, <1>4, <1>5, <1>6

\* The inductive invariant holds in every reachable state.
THEOREM Invariance == Spec => []IInv
<1>1. Init => IInv
  BY Initially, RegistryAssumption, ConstantsAssumption
<1>2. IInv /\ [Next]_vars => IInv'
  BY Inductive, RegistryAssumption, ConstantsAssumption
<1> QED
  BY <1>1, <1>2, PTL DEF Spec

\* Types, with the bound of the permits that no double release may break.
THEOREM Types == Spec => []TypeOK
<1>1. IInv => TypeOK
  <2> SUFFICES ASSUME IInv PROVE TypeOK
    OBVIOUS
  <2>1. Cardinality(Executing) \in Nat /\ Slots \in Nat
    BY ExecutingIsFinite, RegistryAssumption, ConstantsAssumption
       DEF Executing, ConstantsAssumption
  <2>2. free \in 0 .. Slots
    BY <2>1 DEF IInv, PermitsAddUp, SharedTypeOK
  <2> QED
    BY <2>2 DEF IInv, SharedTypeOK, TypeOK
<1> QED
  BY <1>1, Invariance, PTL

\* A run is announced as succeeded only when its product is durable.
THEOREM Durability == Spec => []SucceededIsDurable
<1>1. IInv => SucceededIsDurable
  BY DEF IInv
<1> QED
  BY <1>1, Invariance, PTL

\* One run of a tenant executes at a time, and no more than Slots of all tenants.
THEOREM Serialization == Spec => []RunsAreSerialized
<1>1. IInv => RunsAreSerialized
  <2> SUFFICES ASSUME IInv PROVE RunsAreSerialized
    OBVIOUS
  <2>1. Cardinality(Executing) \in Nat /\ Slots \in Nat
    BY ExecutingIsFinite, RegistryAssumption, ConstantsAssumption
       DEF Executing, ConstantsAssumption
  <2>2. Cardinality(Executing) <= Slots
    BY <2>1 DEF IInv, PermitsAddUp, SharedTypeOK
  <2>3. \A r, s \in Runs :
          at[r] \in Gated /\ at[s] \in Gated /\ RunOwner[r] = RunOwner[s] => r = s
    BY DEF IInv, GateIsHeld
  <2> QED
    BY <2>2, <2>3 DEF RunsAreSerialized, Executing
<1> QED
  BY <1>1, Invariance, PTL

\* Short of a raising store, work in flight always has its payload and a thread.
THEOREM NothingIsLost == Spec => []NoLostRun
<1>1. IInv => NoLostRun
  BY DEF IInv
<1> QED
  BY <1>1, Invariance, PTL

\* Before any crash or fault a running badge has a worker behind it.
THEOREM BadgesAreHonest == Spec => []RunningBadgeHasWorker
<1>1. IInv => RunningBadgeHasWorker
  BY DEF IInv
<1> QED
  BY <1>1, Invariance, PTL

-----------------------------------------------------------------------------
(* Work in flight is kept, and recovery leaves no badge behind *)

\* Neither the cap, nor a purge, nor a read, nor the recovery drops work in flight
\* within its TTL: only the deletion of its library job does.
THEOREM FreshWorkStays == Spec => FreshWorkIsKept
<1> DEFINE Kept == \A r \in Runs :
                     row[r] \in InFlight /\ age[r] = "fresh" /\ row'[r] = "gone"
                       => \E j \in Jobs : dropping[j] = r
<1>1. IInv /\ [Next]_vars => [Kept]_vars
  <2> SUFFICES ASSUME IInv, Next, NEW s \in Runs,
                      row[s] \in InFlight, age[s] = "fresh", row'[s] = "gone"
               PROVE  \E j \in Jobs : dropping[j] = s
    OBVIOUS
  <2> USE DEF IInv, RegistryTypeOK, SharedTypeOK, InFlight
  <2>1. ASSUME NEW r \in Runs, Worker(r)
        PROVE  FALSE
    <3> USE DEF registryVars, SetRow
    <3>1. CASE FindTenant(r) \/ AcquireGate(r) \/ Claim(r)
      BY <3>1 DEF FindTenant, AcquireGate, Claim, ClaimRunning
    <3>2. CASE Abandon(r)
      BY <3>2 DEF Abandon, ReadReclaim, Delete
    <3>3. CASE SyncRunning(r) \/ SyncNoText(r)
      BY <3>3 DEF SyncRunning, SyncNoText, SyncRead, SyncWrite
    <3>4. CASE Execute(r) \/ SaveAlignment(r) \/ PersistRaises(r)
      BY <3>4 DEF Execute, SaveAlignment, PersistRaises
    <3>5. CASE UsageRaises(r) \/ FailRaises(r) \/ MirrorFailure(r)
      BY <3>5 DEF UsageRaises, FailRaises, MirrorFailure
    <3>6. CASE RefuseNoText(r) \/ FailRun(r) \/ SucceedRun(r)
      BY <3>6 DEF RefuseNoText, FailRun, SucceedRun, Fail, Succeed, Finish
    <3>7. CASE Release(r)
      BY <3>7 DEF Release, DeletePayload
    <3> QED
      BY <2>1, <3>1, <3>2, <3>3, <3>4, <3>5, <3>6, <3>7 DEF Worker
  <2>2. ASSUME NEW r \in Runs, Request(r)
        PROVE  FALSE
    <3> USE DEF registryVars, SetRow
    <3>1. ASSUME NEW j \in Jobs \cup {NoJob}, QueueJob(r, j)
          PROVE  FALSE
      BY <3>1 DEF QueueJob, Create, Dropped, Evicted, Purgeable, Terminal
    <3>2. CASE FlipToQueued(r) \/ CancelRead(r) \/ CancelWrite(r)
      BY <3>2 DEF FlipToQueued, CancelRead, CancelWrite
    <3>3. CASE CancelRun(r) \/ PollRun(r)
      BY <3>3 DEF CancelRun, Cancel, PollRun, ReadReclaim, Delete
    <3> QED
      BY <2>2, <3>1, <3>2, <3>3 DEF Request
  <2>3. ASSUME NEW r \in Runs, Clock(r)
        PROVE  FALSE
    BY <2>3 DEF Clock, Expire, Retire, Overrun
  <2>4. CASE \E j \in Jobs : LibraryRequest(j)
    BY <2>4 DEF LibraryRequest, DeleteLibraryJob, DeletePinnedRun, Delete, SetRow,
                registryVars
  <2>5. CASE Watchdog
    BY <2>5 DEF Watchdog, WatchdogFail, WatchdogRead, WatchdogWrite, Fail, Finish,
                SetRow, registryVars
  <2>6. CASE CrashAndRecover
    BY <2>6 DEF CrashAndRecover, Reclaimed, Recovered
  <2> QED
    BY <2>1, <2>2, <2>3, <2>4, <2>5, <2>6 DEF Next
<1> QED
  BY <1>1, Invariance, PTL DEF Spec, FreshWorkIsKept

LEMMA OnlyRecoveryRestarts ==
  ASSUME Next, restarts' # restarts
  PROVE  CrashAndRecover
<1>1. ASSUME NEW r \in Runs, Worker(r)
      PROVE  UNCHANGED restarts
  BY <1>1 DEF Worker, FindTenant, AcquireGate, Claim, Abandon, SyncRunning, SyncNoText,
       SyncRead, SyncWrite, Execute, RefuseNoText, SaveAlignment, PersistRaises, UsageRaises,
       SucceedRun, FailRun, FailRaises, MirrorFailure, Release, boundVars
<1>2. ASSUME NEW r \in Runs, Request(r) \/ Clock(r)
      PROVE  UNCHANGED restarts
  BY <1>2 DEF Request, QueueJob, FlipToQueued, CancelRun, CancelRead, CancelWrite, PollRun,
       Clock, boundVars
<1>3. ASSUME (\E j \in Jobs : LibraryRequest(j)) \/ Watchdog
      PROVE  UNCHANGED restarts
  BY <1>3 DEF LibraryRequest, DeleteLibraryJob, DeletePinnedRun, Watchdog, WatchdogFail,
       WatchdogRead, WatchdogWrite, watchdogOnly, boundVars
<1> QED
  BY <1>1, <1>2, <1>3 DEF Next

\* After startup recovery, a badge in flight has a queued run with a new thread.
THEOREM RecoveryLeavesNoStaleBadge == Spec => RecoveryReconciles
<1> DEFINE Settled == restarts' # restarts =>
                        \A j \in present : badge'[j] \in {"queued", "running"} =>
                          pin[j] \in Runs /\ row'[pin[j]] = "queued" /\ at'[pin[j]] = "start"
<1>1. IInv /\ [Next]_vars => [Settled]_vars
  <2> SUFFICES ASSUME IInv, CrashAndRecover, NEW j \in present,
                      badge'[j] \in {"queued", "running"}
               PROVE  pin[j] \in Runs /\ row'[pin[j]] = "queued" /\ at'[pin[j]] = "start"
    BY OnlyRecoveryRestarts
  <2>1. j \in Jobs /\ pin[j] \in Runs \cup {NoRun}
    BY DEF IInv, SharedTypeOK
  <2>2. j \in Pending /\ Backed(j)
    BY <2>1 DEF CrashAndRecover, Pending
  <2>3. pin[j] \in Runs /\ pin[j] \in Recovered
    BY <2>1, <2>2 DEF Backed, IsVisible, Recovered, Reclaimed
  <2> QED
    BY <2>3 DEF CrashAndRecover, Recovered
<1> QED
  BY <1>1, Invariance, PTL DEF Spec, RecoveryReconciles

-----------------------------------------------------------------------------
(* The pipeline implements the life of a run *)

\* What a step may do to the rows, the debts and the products.
LEMMA RowMoves ==
  ASSUME IInv, Next, NEW s \in Runs, row'[s] # row[s]
  PROVE  Lifecycle!Move(s)
<1> USE DEF IInv, RegistryTypeOK, SharedTypeOK, NotIssued, QueuedIsUnclaimed,
            OverdueIsRunning, Running, InFlight, Terminal, Lifecycle!Move,
            Lifecycle!Submit, Lifecycle!Start, Lifecycle!Cancel, Lifecycle!Fail,
            Lifecycle!Succeed, Lifecycle!Interrupt, Lifecycle!Forget
<1>1. ASSUME NEW r \in Runs, Worker(r)
      PROVE  Lifecycle!Move(s)
  <2> USE DEF registryVars, SetRow, Goto
  <2>1. CASE FindTenant(r) \/ AcquireGate(r) \/ Claim(r)
    BY <2>1 DEF FindTenant, AcquireGate, Claim, ClaimRunning
  <2>2. CASE Abandon(r)
    BY <2>2 DEF Abandon, ReadReclaim, Delete
  <2>3. CASE SyncRunning(r) \/ SyncNoText(r)
    BY <2>3 DEF SyncRunning, SyncNoText, SyncRead, SyncWrite
  <2>4. CASE Execute(r) \/ SaveAlignment(r) \/ PersistRaises(r)
    BY <2>4 DEF Execute, SaveAlignment, PersistRaises
  <2>5. CASE UsageRaises(r) \/ FailRaises(r) \/ MirrorFailure(r)
    BY <2>5 DEF UsageRaises, FailRaises, MirrorFailure
  <2>6. CASE RefuseNoText(r) \/ FailRun(r)
    BY <2>6 DEF RefuseNoText, FailRun, Fail, Finish
  <2>7. CASE SucceedRun(r)
    BY <2>7 DEF SucceedRun, Succeed, Finish, SavedFirst
  <2>8. CASE Release(r)
    BY <2>8 DEF Release, DeletePayload
  <2> QED
    BY <1>1, <2>1, <2>2, <2>3, <2>4, <2>5, <2>6, <2>7, <2>8 DEF Worker
<1>2. ASSUME NEW r \in Runs, Request(r)
      PROVE  Lifecycle!Move(s)
  <2> USE DEF registryVars, SetRow
  <2>1. ASSUME NEW j \in Jobs \cup {NoJob}, QueueJob(r, j)
        PROVE  Lifecycle!Move(s)
    BY <2>1 DEF QueueJob, Create, Dropped, HasRow
  <2>2. CASE FlipToQueued(r) \/ CancelRead(r) \/ CancelWrite(r)
    BY <2>2 DEF FlipToQueued, CancelRead, CancelWrite
  <2>3. CASE CancelRun(r) \/ PollRun(r)
    BY <2>3 DEF CancelRun, Cancel, PollRun, ReadReclaim, Delete
  <2> QED
    BY <1>2, <2>1, <2>2, <2>3 DEF Request
<1>3. ASSUME NEW r \in Runs, Clock(r)
      PROVE  Lifecycle!Move(s)
  BY <1>3 DEF Clock, Expire, Retire, Overrun
<1>4. CASE \E j \in Jobs : LibraryRequest(j)
  BY <1>4 DEF LibraryRequest, DeleteLibraryJob, DeletePinnedRun, Delete, SetRow, HasRow,
              registryVars
<1>5. CASE Watchdog
  BY <1>5 DEF Watchdog, WatchdogFail, WatchdogRead, WatchdogWrite, Fail, Finish, SetRow,
              registryVars
<1>6. CASE CrashAndRecover
  BY <1>6 DEF CrashAndRecover, Reclaimed, Recovered
<1> QED
  BY <1>1, <1>2, <1>3, <1>4, <1>5, <1>6 DEF Next

\* A run only gets a library job as it is queued, and library jobs only vanish.
LEMMA DebtMoves ==
  ASSUME IInv, Next
  PROVE  /\ \A s \in Runs : target'[s] # target[s] => row[s] = "none" /\ row'[s] = "queued"
         /\ present' \subseteq present /\ saved \subseteq saved'
         /\ restarts' \in {restarts, restarts + 1}
<1> USE DEF IInv, SharedTypeOK, RegistryTypeOK
<1>1. ASSUME NEW r \in Runs, Worker(r)
      PROVE  UNCHANGED <<target, present, restarts>> /\ saved \subseteq saved'
  <2> USE DEF othersUnchanged, libraryVars, boundVars
  <2>1. CASE FindTenant(r) \/ AcquireGate(r) \/ Claim(r) \/ Abandon(r)
    BY <2>1 DEF FindTenant, AcquireGate, Claim, Abandon
  <2>2. CASE SyncRunning(r) \/ SyncNoText(r)
    BY <2>2 DEF SyncRunning, SyncNoText, SyncRead, SyncWrite
  <2>3. CASE Execute(r) \/ SaveAlignment(r) \/ PersistRaises(r) \/ RefuseNoText(r)
    BY <2>3 DEF Execute, SaveAlignment, PersistRaises, RefuseNoText
  <2>4. CASE UsageRaises(r) \/ FailRaises(r) \/ MirrorFailure(r) \/ FailRun(r)
    BY <2>4 DEF UsageRaises, FailRaises, MirrorFailure, FailRun
  <2>5. CASE SucceedRun(r) \/ Release(r)
    BY <2>5 DEF SucceedRun, Release
  <2> QED
    BY <1>1, <2>1, <2>2, <2>3, <2>4, <2>5 DEF Worker
<1>2. ASSUME NEW r \in Runs, NEW j \in Jobs \cup {NoJob}, QueueJob(r, j)
      PROVE  /\ \A s \in Runs : target'[s] # target[s]
                                  => row[s] = "none" /\ row'[s] = "queued"
             /\ UNCHANGED <<present, saved, restarts>>
  BY <1>2 DEF QueueJob, Create, libraryVars, boundVars
<1>3. ASSUME NEW r \in Runs, \/ FlipToQueued(r) \/ CancelRun(r) \/ CancelRead(r)
                             \/ CancelWrite(r) \/ PollRun(r) \/ Clock(r)
      PROVE  UNCHANGED <<target, present, saved, restarts>>
  BY <1>3 DEF FlipToQueued, CancelRun, CancelRead, CancelWrite, PollRun, Clock, threadVars,
              libraryVars, boundVars
<1>4. ASSUME (\E j \in Jobs : LibraryRequest(j)) \/ Watchdog \/ CrashAndRecover
      PROVE  /\ UNCHANGED <<target, saved>> /\ present' \subseteq present
             /\ restarts' \in {restarts, restarts + 1}
  BY <1>4 DEF LibraryRequest, DeleteLibraryJob, DeletePinnedRun, Watchdog, WatchdogFail,
              WatchdogRead, WatchdogWrite, watchdogOnly, CrashAndRecover, threadVars,
              libraryVars, boundVars
<1> QED
  BY <1>1, <1>2, <1>3, <1>4 DEF Next, Request

\* The registry, the threads, the watchdog and the recovery together show the owner
\* of a run nothing but the life that RunLifecycle describes.
THEOREM Implementation == Spec => ImplementsLifecycle
<1>1. Init => Lifecycle!Init
  BY ConstantsAssumption
     DEF Init, RegistryInit, Lifecycle!Init, ConstantsAssumption
<1>2. IInv /\ [Next]_vars => [Lifecycle!Next]_Lifecycle!vars
  <2>1. CASE UNCHANGED vars
    BY <2>1 DEF vars, registryVars, threadVars, libraryVars, boundVars, Lifecycle!vars
  <2>2. ASSUME IInv, Next
        PROVE  Lifecycle!Next
    <3> DEFINE owes      == {r \in Runs : target[r] # NoJob}
               delivered == saved \cup {r \in Runs : target[r] \in Jobs \ present}
    <3>1. \A r \in Runs : row'[r] = row[r] \/ Lifecycle!Move(r)
      BY <2>2, RowMoves
    <3>2. \A r \in Runs : row[r] = "none" => target[r] = NoJob
      BY <2>2 DEF IInv, NotIssued
    <3>3. /\ \A r \in owes' \ owes : row[r] = "none" /\ row'[r] = "queued"
          /\ owes \subseteq owes'
      BY <2>2, <3>2, DebtMoves
    <3>4. delivered \subseteq delivered'
      BY <2>2, <3>2, DebtMoves, ConstantsAssumption DEF ConstantsAssumption
    <3>5. restarts' \in {restarts, restarts + 1}
      BY <2>2, DebtMoves
    <3> QED
      BY <3>1, <3>3, <3>4, <3>5 DEF Lifecycle!Next
  <2> QED
    BY <2>1, <2>2
<1> QED
  BY <1>1, <1>2, Invariance, PTL DEF Spec, ImplementsLifecycle, Lifecycle!Spec

=============================================================================
