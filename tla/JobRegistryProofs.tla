------------------------- MODULE JobRegistryProofs --------------------------
(***************************************************************************)
(* What holds of the registry for any number of runs and any cap: its      *)
(* types, that no payload outlives its row, and that a terminal status is  *)
(* final.  The lemmas about single operations are used again by the proofs *)
(* about the system built on the registry.                                 *)
(***************************************************************************)
EXTENDS JobRegistry, TLAPS, FiniteSetTheorems

-----------------------------------------------------------------------------
(* Every operation keeps the types *)

LEMMA CreateType ==
  ASSUME RegistryTypeOK, NEW r \in Runs, Create(r)
  PROVE  RegistryTypeOK'
  BY DEF RegistryTypeOK, Create, Dropped, Purgeable, HasRow, Evicted, Survivors,
         RowStatus, InFlight, Terminal, Ages

LEMMA FinishType ==
  ASSUME RegistryTypeOK, NEW r \in Runs, NEW o \in Terminal, Finish(r, o)
  PROVE  RegistryTypeOK'
  BY DEF RegistryTypeOK, Finish, SetRow, RowStatus, InFlight, Terminal, Ages

LEMMA DeleteType ==
  ASSUME RegistryTypeOK, NEW r \in Runs, Delete(r)
  PROVE  RegistryTypeOK'
  BY DEF RegistryTypeOK, Delete, HasRow, SetRow, RowStatus, InFlight, Terminal, Ages

LEMMA MoveType ==
  ASSUME RegistryTypeOK, NEW r \in Runs,
         ClaimRunning(r) \/ Cancel(r) \/ RequeueInterrupted(r) \/ DeletePayload(r)
  PROVE  RegistryTypeOK'
  BY DEF RegistryTypeOK, ClaimRunning, Cancel, RequeueInterrupted, DeletePayload,
         SetRow, RowStatus, InFlight, Terminal, Ages

LEMMA ClockType ==
  ASSUME RegistryTypeOK, NEW r \in Runs, Expire(r) \/ Retire(r) \/ Overrun(r)
  PROVE  RegistryTypeOK'
  BY DEF RegistryTypeOK, Expire, Retire, Overrun, HasRow, RowStatus, InFlight,
         Terminal, Ages

LEMMA RegistryNextType ==
  ASSUME RegistryTypeOK, [RegistryNext]_registryVars
  PROVE  RegistryTypeOK'
<1>1. ASSUME NEW r \in Runs, Succeed(r) \/ Fail(r)
      PROVE  RegistryTypeOK'
  BY <1>1, FinishType DEF Succeed, Fail, Terminal
<1>2. CASE UNCHANGED registryVars
  BY <1>2 DEF registryVars, RegistryTypeOK
<1>3. CASE RegistryNext
  BY <1>1, <1>3, CreateType, DeleteType, MoveType, ClockType
     DEF RegistryNext, ReadReclaim
<1> QED
  BY <1>2, <1>3

\* The registry's fields stay within their types, whatever its callers do.
THEOREM RegistryTypes == RegistrySpec => []RegistryTypeOK
<1>1. RegistryInit => RegistryTypeOK
  BY DEF RegistryInit, RegistryTypeOK, RowStatus, InFlight, Terminal, Ages
<1>2. RegistryTypeOK /\ [RegistryNext]_registryVars => RegistryTypeOK'
  BY RegistryNextType
<1> QED
  BY <1>1, <1>2, PTL DEF RegistrySpec

-----------------------------------------------------------------------------
(* No payload outlives its row *)

LEMMA PayloadsStep ==
  ASSUME RegistryTypeOK, PayloadsHaveRows, [RegistryNext]_registryVars
  PROVE  PayloadsHaveRows'
<1>1. CASE UNCHANGED registryVars
  BY <1>1 DEF registryVars, PayloadsHaveRows, HasRow
<1>2. ASSUME NEW r \in Runs, Create(r)
      PROVE  PayloadsHaveRows'
  BY <1>2 DEF Create, PayloadsHaveRows, HasRow, RegistryTypeOK, InFlight, Terminal
<1>3. ASSUME NEW r \in Runs, NEW o \in Terminal, Finish(r, o)
      PROVE  PayloadsHaveRows'
  BY <1>3 DEF Finish, SetRow, PayloadsHaveRows, HasRow, RegistryTypeOK, InFlight, Terminal
<1>4. ASSUME NEW r \in Runs, Delete(r)
      PROVE  PayloadsHaveRows'
  BY <1>4 DEF Delete, SetRow, PayloadsHaveRows, HasRow, RegistryTypeOK, InFlight, Terminal
<1>5. ASSUME NEW r \in Runs, ClaimRunning(r) \/ Cancel(r) \/ RequeueInterrupted(r)
      PROVE  PayloadsHaveRows'
  BY <1>5 DEF ClaimRunning, Cancel, RequeueInterrupted, SetRow, PayloadsHaveRows,
              HasRow, RegistryTypeOK, InFlight, Terminal
<1>6. ASSUME NEW r \in Runs, DeletePayload(r) \/ Expire(r) \/ Retire(r) \/ Overrun(r)
      PROVE  PayloadsHaveRows'
  BY <1>6 DEF DeletePayload, Expire, Retire, Overrun, PayloadsHaveRows, HasRow
<1>7. ASSUME NEW r \in Runs, Succeed(r) \/ Fail(r)
      PROVE  PayloadsHaveRows'
  BY <1>3, <1>7 DEF Succeed, Fail, Terminal
<1> QED
  BY <1>1, <1>2, <1>4, <1>5, <1>6, <1>7 DEF RegistryNext, ReadReclaim

\* Payloads hold resume text: each of the ways a row disappears (purge, cap,
\* reclaim on read, delete) takes the payload with it.
THEOREM NoOrphanPayload == RegistrySpec => []PayloadsHaveRows
<1>1. RegistryInit => RegistryTypeOK /\ PayloadsHaveRows
  BY DEF RegistryInit, PayloadsHaveRows, RegistryTypeOK, RowStatus, InFlight,
         Terminal, Ages
<1>2. RegistryTypeOK /\ PayloadsHaveRows /\ [RegistryNext]_registryVars
        => RegistryTypeOK' /\ PayloadsHaveRows'
  BY RegistryNextType, PayloadsStep
<1> QED
  BY <1>1, <1>2, PTL DEF RegistrySpec

-----------------------------------------------------------------------------
(* The first terminal status is final *)

LEMMA CreateKeepsTerminal ==
  ASSUME RegistryTypeOK, NEW r \in Runs, NEW s \in Runs, row[s] \in Terminal, Create(r)
  PROVE  row'[s] \in {row[s], "gone"}
  BY DEF Create, RegistryTypeOK, Terminal

LEMMA FinishKeepsTerminal ==
  ASSUME RegistryTypeOK, NEW r \in Runs, NEW s \in Runs, row[s] \in Terminal,
         NEW o \in Terminal, Finish(r, o)
  PROVE  row'[s] = row[s]
  BY DEF Finish, SetRow, RegistryTypeOK, Terminal, InFlight

LEMMA DeleteKeepsTerminal ==
  ASSUME RegistryTypeOK, NEW r \in Runs, NEW s \in Runs, row[s] \in Terminal, Delete(r)
  PROVE  row'[s] \in {row[s], "gone"}
  BY DEF Delete, SetRow, RegistryTypeOK

LEMMA MoveKeepsTerminal ==
  ASSUME RegistryTypeOK, NEW r \in Runs, NEW s \in Runs, row[s] \in Terminal,
         ClaimRunning(r) \/ Cancel(r) \/ RequeueInterrupted(r)
  PROVE  row'[s] = row[s]
  BY DEF ClaimRunning, Cancel, RequeueInterrupted, SetRow, RegistryTypeOK, Terminal

\* Worker, watchdog and cancel route race for the outcome of a run: whichever
\* of them writes a terminal status first, no later one replaces it.
THEOREM FirstOutcomeStands == RegistrySpec => TerminalIsFinal
<1> DEFINE Final == \A r \in Runs : row[r] \in Terminal => row'[r] \in {row[r], "gone"}
<1>1. RegistryTypeOK /\ [RegistryNext]_registryVars => [Final]_registryVars
  <2> SUFFICES ASSUME RegistryTypeOK, RegistryNext,
                      NEW s \in Runs, row[s] \in Terminal
               PROVE  row'[s] \in {row[s], "gone"}
    OBVIOUS
  <2>1. PICK r \in Runs : \/ Create(r) \/ ClaimRunning(r) \/ Succeed(r) \/ Fail(r)
                          \/ Cancel(r) \/ RequeueInterrupted(r) \/ Delete(r)
                          \/ DeletePayload(r) \/ ReadReclaim(r) \/ Expire(r)
                          \/ Retire(r) \/ Overrun(r)
    BY DEF RegistryNext
  <2>2. CASE Create(r)
    BY <2>2, CreateKeepsTerminal
  <2>3. CASE ClaimRunning(r) \/ Cancel(r) \/ RequeueInterrupted(r)
    BY <2>3, MoveKeepsTerminal
  <2>4. CASE Succeed(r) \/ Fail(r)
    BY <2>4, FinishKeepsTerminal DEF Succeed, Fail, Terminal
  <2>5. CASE Delete(r) \/ ReadReclaim(r)
    BY <2>5, DeleteKeepsTerminal DEF ReadReclaim
  <2>6. CASE DeletePayload(r) \/ Expire(r) \/ Retire(r) \/ Overrun(r)
    BY <2>6 DEF DeletePayload, Expire, Retire, Overrun
  <2> QED
    BY <2>1, <2>2, <2>3, <2>4, <2>5, <2>6
<1>2. RegistrySpec => []RegistryTypeOK
  BY RegistryTypes
<1> QED
  BY <1>1, <1>2, PTL DEF RegistrySpec, TerminalIsFinal

-----------------------------------------------------------------------------
(* The size cap *)

Evictable == {s \in Survivors : row[s] \notin InFlight}
Older(s)  == {q \in Evictable : born[q] < born[s]}

LEMMA RunsAreFinite ==
  ASSUME NEW S \in SUBSET Runs
  PROVE  IsFiniteSet(S) /\ Cardinality(S) \in Nat
  BY RegistryAssumption, FS_Subset, FS_CardinalityType DEF RegistryAssumption

\* _enforce_cap as a count of the older history of a row.
LEMMA EvictedByAge ==
  /\ Evicted \subseteq Evictable /\ Evictable \subseteq Survivors /\ Survivors \subseteq Runs
  /\ \A s \in Evictable :
       s \in Evicted <=> MaxJobs + Cardinality(Older(s)) < Cardinality(Survivors) + 1
  BY DEF Evicted, Evictable, Older, Survivors

LEMMA OnlyCreateIssues ==
  ASSUME RegistryTypeOK, [RegistryNext]_registryVars, issued' # issued
  PROVE  \E r \in Runs : Create(r)
  BY DEF RegistryNext, registryVars, ClaimRunning, Succeed, Fail, Finish, Cancel,
         RequeueInterrupted, Delete, DeletePayload, ReadReclaim, Expire, Retire, Overrun

\* Making room for a new run never drops a newer piece of history than it keeps.
THEOREM OldestGoesFirst == RegistrySpec => OldestHistoryGoesFirst
<1> DEFINE Ordered ==
      \A r, s \in Runs :
        /\ issued' # issued
        /\ row[r] \in Terminal /\ age[r] # "retired" /\ row'[r] = "gone"
        /\ row[s] \in Terminal /\ row'[s] = row[s]
        => born[r] < born[s]
<1>1. RegistryTypeOK /\ [RegistryNext]_registryVars => [Ordered]_registryVars
  <2> SUFFICES ASSUME RegistryTypeOK, [RegistryNext]_registryVars, issued' # issued,
                      NEW r \in Runs, NEW s \in Runs,
                      row[r] \in Terminal, age[r] # "retired", row'[r] = "gone",
                      row[s] \in Terminal, row'[s] = row[s]
               PROVE  born[r] < born[s]
    OBVIOUS
  <2>1. PICK new \in Runs : Create(new)
    BY OnlyCreateIssues
  <2>2. r \in Evicted /\ s \in Evictable /\ s \notin Evicted
    BY <2>1 DEF Create, Dropped, Purgeable, HasRow, Survivors, Evictable, Terminal, InFlight
  <2>3. Cardinality(Older(r)) < Cardinality(Older(s))
    <3>1. /\ Cardinality(Older(r)) \in Nat /\ Cardinality(Older(s)) \in Nat
          /\ Cardinality(Survivors) \in Nat /\ MaxJobs \in Nat
      BY RunsAreFinite, RegistryAssumption
         DEF Older, Evictable, Survivors, RegistryAssumption
    <3>2. /\ MaxJobs + Cardinality(Older(r)) < Cardinality(Survivors) + 1
          /\ ~(MaxJobs + Cardinality(Older(s)) < Cardinality(Survivors) + 1)
      BY <2>2, EvictedByAge
    <3> QED
      BY <3>1, <3>2
  <2>4. ASSUME born[s] <= born[r]
        PROVE  FALSE
    <3>1. Older(s) \in SUBSET Older(r)
      BY <2>4 DEF Older, Evictable, Survivors, RegistryTypeOK
    <3>2. IsFiniteSet(Older(r)) /\ Cardinality(Older(r)) \in Nat /\ Cardinality(Older(s)) \in Nat
      BY RunsAreFinite DEF Older, Evictable, Survivors
    <3>3. Cardinality(Older(s)) <= Cardinality(Older(r))
      BY <3>1, <3>2, FS_Subset
    <3> QED
      BY <2>3, <3>2, <3>3
  <2> QED
    BY <2>4 DEF RegistryTypeOK
<1>2. RegistrySpec => []RegistryTypeOK
  BY RegistryTypes
<1> QED
  BY <1>1, <1>2, PTL DEF RegistrySpec, OldestHistoryGoesFirst

=============================================================================
