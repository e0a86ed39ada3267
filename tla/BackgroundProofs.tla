--------------------------- MODULE BackgroundProofs ---------------------------
(***************************************************************************)
(* Proofs about the threads that work behind the requests: the batches of  *)
(* Preanalysis and the sessions of WorkbenchSessions with their event      *)
(* streams, for any rows, batches, requests and listeners.  A batch        *)
(* accounts for its rows because the ones it still has, the ones it        *)
(* created and the ones it skipped divide its feed.  A stream misses       *)
(* nothing because a queue that has not overflowed continues what its      *)
(* client got up to the last event of the log.                             *)
(***************************************************************************)
EXTENDS WorkbenchSessions, Preanalysis, TLAPS

-----------------------------------------------------------------------------
(* Batches: the inductive invariant *)

BatchRows ==
  [pc : BatchPcs, todo : SUBSET InputRows, row : InputRows \cup {NoRow}, tries : Nat,
   created : SUBSET InputRows, analyzed : SUBSET InputRows, failed : SUBSET InputRows,
   skipped : SUBSET InputRows, preanalyze : BOOLEAN, stop : BOOLEAN, canceled : BOOLEAN,
   stopped : BOOLEAN, broken : BOOLEAN]

BatchTypes == batch \in [Batches -> BatchRows] /\ jobs \subseteq InputRows

Idle(b) == batch[b].pc \in {"off", "new"}

\* A batch that has not begun has counted nothing.
IdleIsEmpty == \A b \in Batches : Idle(b) =>
  batch[b].created = {} /\ batch[b].skipped = {} /\ batch[b].failed = {} /\ batch[b].analyzed = {}

\* Where the row at hand is: an import has it still to do until it is created.
RowsAtHand ==
  \A b \in Batches :
    /\ batch[b].pc \in {"found", "inserting"} => b \in Imports /\ batch[b].row \in batch[b].todo
    /\ batch[b].pc = "attempt" =>
         batch[b].row \in InputRows /\ (b \in Imports => batch[b].row \in batch[b].created)

\* The rows of an import are divided into those to do, created and skipped.
FeedIsDivided ==
  \A b \in Imports :
    /\ batch[b].created \cap batch[b].skipped = {}
    /\ batch[b].todo \cap (batch[b].created \cup batch[b].skipped) = {}
    /\ ~Idle(b) => batch[b].todo \cup batch[b].created \cup batch[b].skipped = Feed[b]
    /\ batch[b].failed \cup batch[b].analyzed \subseteq batch[b].created

CreatedAreJobs ==
  /\ \A b \in Imports : batch[b].created \subseteq jobs
  /\ \A b, c \in Imports : b # c => batch[b].created \cap batch[c].created = {}

AnalyzedAreProfiled == \A b \in Batches : batch[b].analyzed \subseteq profiled

\* A batch that ends early says so.
EndsAreMarked ==
  \A b \in Batches : batch[b].pc = "done" =>
    batch[b].todo = {} \/ batch[b].broken \/ batch[b].stopped \/ batch[b].canceled

BatchInv == /\ BatchTypes /\ IdleIsEmpty /\ RowsAtHand /\ FeedIsDivided
        /\ CreatedAreJobs /\ AnalyzedAreProfiled /\ EndsAreMarked /\ KeysAreUnique

USE PreanalysisAssumption DEF Batches

-----------------------------------------------------------------------------
(* Batches: the steps *)

\* What is stated of a batch b whose dictionary is x, with the profiles p.
BatchFits(b, x, p) ==
  /\ x \in BatchRows
  /\ x.pc \in {"off", "new"} => x.created = {} /\ x.skipped = {} /\ x.failed = {} /\ x.analyzed = {}
  /\ x.pc \in {"found", "inserting"} => b \in Imports /\ x.row \in x.todo
  /\ x.pc = "attempt" => x.row \in InputRows /\ (b \in Imports => x.row \in x.created)
  /\ b \in Imports =>
       /\ x.created \cap x.skipped = {}
       /\ x.todo \cap (x.created \cup x.skipped) = {}
       /\ x.pc \notin {"off", "new"} => x.todo \cup x.created \cup x.skipped = Feed[b]
       /\ x.failed \cup x.analyzed \subseteq x.created
  /\ x.analyzed \subseteq p
  /\ x.pc = "done" => x.todo = {} \/ x.broken \/ x.stopped \/ x.canceled

\* What the invariant says of one batch.
LEMMA BatchesFit == ASSUME BatchInv, NEW b \in Batches PROVE BatchFits(b, batch[b], profiled)
BY DEF BatchInv, BatchTypes, IdleIsEmpty, RowsAtHand, FeedIsDivided, AnalyzedAreProfiled,
       EndsAreMarked, BatchFits, Idle

\* The rows a batch has to do are input rows.
LEMMA BatchTyped ==
  ASSUME BatchInv, NEW b \in Batches
  PROVE  batch[b] \in BatchRows /\ batch[b].todo \subseteq InputRows
BY DEF BatchInv, BatchTypes, BatchRows

\* A step that changes one batch, keeps the jobs and forgets no profile is a matter of that batch.
LEMMA OneBatchChanges ==
  ASSUME BatchInv, NEW b \in Batches, NEW x \in BatchRows,
         batch' = [batch EXCEPT ![b] = x], BatchFits(b, x, profiled'),
         UNCHANGED jobs, profiled \subseteq profiled', x.created = batch[b].created
  PROVE  BatchInv'
<1>1. batch'[b] = x /\ \A c \in Batches : c # b => batch'[c] = batch[c]
  BY DEF BatchInv, BatchTypes
<1>2. BatchTypes'
  BY DEF BatchInv, BatchTypes
<1>3. IdleIsEmpty' /\ RowsAtHand' /\ EndsAreMarked'
  BY <1>1 DEF BatchInv, IdleIsEmpty, RowsAtHand, EndsAreMarked, BatchFits, Idle
<1>4. FeedIsDivided'
  BY <1>1 DEF BatchInv, FeedIsDivided, BatchFits, Idle
<1>5. CreatedAreJobs' /\ AnalyzedAreProfiled' /\ KeysAreUnique'
  BY <1>1 DEF BatchInv, CreatedAreJobs, AnalyzedAreProfiled, KeysAreUnique, BatchFits
<1> QED
  BY <1>2, <1>3, <1>4, <1>5 DEF BatchInv

\* A batch that ends keeps its counts and says why it has rows left.
LEMMA EndKeeps ==
  ASSUME BatchInv, NEW b \in Batches, NEW x \in BatchRows, End(b, x), UNCHANGED Store,
         x.created = batch[b].created, x.skipped = batch[b].skipped, x.todo = batch[b].todo,
         x.analyzed = batch[b].analyzed, b \in Imports => x.failed = batch[b].failed, ~Idle(b),
         x.todo = {} \/ x.broken \/ x.stopped \/ x.canceled
  PROVE  BatchInv'
<1> DEFINE y == [x EXCEPT !.pc = "done", !.row = NoRow, !.tries = 0]
<1>1. y \in BatchRows /\ y.pc = "done"
  BY DEF BatchRows, BatchPcs
<1>2. /\ y.created = x.created /\ y.skipped = x.skipped /\ y.todo = x.todo
      /\ y.analyzed = x.analyzed /\ y.failed = x.failed
      /\ y.broken = x.broken /\ y.stopped = x.stopped /\ y.canceled = x.canceled
  BY DEF BatchRows
<1>3. batch' = [batch EXCEPT ![b] = y]
  BY DEF End
<1> HIDE DEF y
<1>4. BatchFits(b, y, profiled')
  BY <1>1, <1>2, BatchesFit DEF BatchFits, Idle, Store
<1> QED
  BY <1>1, <1>2, <1>3, <1>4, OneBatchChanges DEF Store

\* A thread ends its batch.
LEMMA EndingsKeep ==
  ASSUME BatchInv, NEW b \in Batches, EndOfRows(b) \/ StopHere(b) \/ Break(b)
  PROVE  BatchInv'
<1>1. batch[b] \in BatchRows
  BY BatchesFit DEF BatchFits
<1>2. ~Idle(b) /\ UNCHANGED Store
  BY DEF EndOfRows, StopHere, Break, Idle
<1>3. CASE EndOfRows(b)
  BY <1>1, <1>2, <1>3, EndKeeps DEF EndOfRows
<1>4. CASE StopHere(b)
  <2> DEFINE x == [batch[b] EXCEPT !.canceled = TRUE]
  <2>1. /\ x \in BatchRows /\ x.canceled /\ x.created = batch[b].created /\ x.todo = batch[b].todo
        /\ x.skipped = batch[b].skipped /\ x.analyzed = batch[b].analyzed /\ x.failed = batch[b].failed
    BY <1>1 DEF BatchRows
  <2>2. End(b, x)
    BY <1>4 DEF StopHere
  <2> HIDE DEF x
  <2> QED
    BY <1>2, <2>1, <2>2, EndKeeps
<1>5. CASE Break(b)
  <2> DEFINE x == [batch[b] EXCEPT !.broken = TRUE]
  <2>1. /\ x \in BatchRows /\ x.broken /\ x.created = batch[b].created /\ x.todo = batch[b].todo
        /\ x.skipped = batch[b].skipped /\ x.analyzed = batch[b].analyzed /\ x.failed = batch[b].failed
    BY <1>1 DEF BatchRows
  <2>2. End(b, x)
    BY <1>5 DEF Break
  <2> HIDE DEF x
  <2> QED
    BY <1>2, <2>1, <2>2, EndKeeps
<1> QED
  BY <1>3, <1>4, <1>5

\* A row that is found to be a duplicate moves from those to do to the skipped ones.
LEMMA RefusalKeeps ==
  ASSUME BatchInv, NEW b \in Imports, NEW r \in batch[b].todo, ~Idle(b), UNCHANGED Store,
         NEW x \in BatchRows, batch' = [batch EXCEPT ![b] = x], x.pc = "next",
         x.created = batch[b].created, x.todo = batch[b].todo \ {r},
         x.skipped = batch[b].skipped \cup {r}, x.analyzed = batch[b].analyzed,
         x.failed = batch[b].failed
  PROVE  BatchInv'
<1>1. BatchFits(b, x, profiled')
  BY BatchesFit DEF BatchFits, Store, Idle
<1> QED
  BY <1>1, OneBatchChanges DEF Store

LEMMA SkipKeeps == ASSUME BatchInv, NEW b \in Batches, SkipRow(b) PROVE BatchInv'
<1>1. PICK r \in batch[b].todo :
        /\ b \in Imports /\ batch[b].pc = "next" /\ UNCHANGED <<Store, keptBatches>>
        /\ batch' = [batch EXCEPT ![b] = [Took(b, r) EXCEPT !.skipped = @ \cup {r}]]
  BY DEF SkipRow
<1> DEFINE x == [Took(b, r) EXCEPT !.skipped = @ \cup {r}]
<1>t. batch[b] \in BatchRows /\ r \in InputRows
  BY <1>1, BatchTyped
<1>f. x \in BatchRows
  BY <1>t DEF Took, BatchRows
<1>2. /\ x.pc = "next" /\ x.created = batch[b].created
      /\ x.todo = batch[b].todo \ {r} /\ x.skipped = batch[b].skipped \cup {r}
      /\ x.analyzed = batch[b].analyzed /\ x.failed = batch[b].failed
  BY <1>t, <1>1 DEF Took, BatchRows
<1>3. batch' = [batch EXCEPT ![b] = x]
  BY <1>1
<1> HIDE DEF x
<1> QED
  BY <1>1, <1>f, <1>2, <1>3, RefusalKeeps DEF Idle

LEMMA RefuseKeeps ==
  ASSUME BatchInv, NEW b \in Batches, batch[b].pc \in {"found", "inserting"}, Refuse(b, batch[b].row)
  PROVE  BatchInv'
<1> DEFINE r == batch[b].row
           x == [Took(b, r) EXCEPT !.skipped = @ \cup {r}, !.pc = "next", !.row = NoRow]
<1>1. b \in Imports /\ r \in batch[b].todo /\ UNCHANGED Store
  BY BatchesFit DEF BatchFits, Refuse
<1>t. batch[b] \in BatchRows /\ r \in InputRows
  BY <1>1, BatchTyped
<1>f. x \in BatchRows
  BY <1>t DEF Took, BatchRows, BatchPcs
<1>2. /\ x.pc = "next" /\ x.created = batch[b].created
      /\ x.todo = batch[b].todo \ {r} /\ x.skipped = batch[b].skipped \cup {r}
      /\ x.analyzed = batch[b].analyzed /\ x.failed = batch[b].failed
  BY <1>t DEF Took, BatchRows
<1>3. batch' = [batch EXCEPT ![b] = x]
  BY DEF Refuse
<1> HIDE DEF x
<1> QED
  BY <1>1, <1>f, <1>2, <1>3, RefusalKeeps DEF Idle

\* A row goes on to the classifier, or from there to the insertion.
LEMMA FindKeeps == ASSUME BatchInv, NEW b \in Batches, FindRow(b) \/ RecheckRow(b) PROVE BatchInv'
<1>1. CASE FindRow(b)
  <2>1. PICK r \in batch[b].todo :
          /\ b \in Imports /\ batch[b].pc = "next" /\ UNCHANGED <<Store, keptBatches>>
          /\ batch' = [batch EXCEPT ![b].pc = "found", ![b].row = r]
    BY <1>1 DEF FindRow
  <2> DEFINE x == [batch[b] EXCEPT !.pc = "found", !.row = r]
  <2>2. /\ x \in BatchRows /\ x.pc = "found" /\ x.row = r
        /\ x.created = batch[b].created /\ x.todo = batch[b].todo
        /\ x.skipped = batch[b].skipped /\ x.analyzed = batch[b].analyzed /\ x.failed = batch[b].failed
    BY <2>1, BatchTyped DEF BatchRows, BatchPcs
  <2>3. batch' = [batch EXCEPT ![b] = x]
    BY <2>1 DEF BatchInv, BatchTypes
  <2> HIDE DEF x
  <2>4. BatchFits(b, x, profiled')
    BY <2>1, <2>2, BatchesFit DEF BatchFits, Store
  <2> QED
    BY <2>1, <2>2, <2>3, <2>4, OneBatchChanges DEF Store
<1>2. CASE RecheckRow(b) /\ Duplicate(batch[b].row)
  BY <1>2, RefuseKeeps DEF RecheckRow
<1>3. CASE RecheckRow(b) /\ ~Duplicate(batch[b].row)
  <2> DEFINE x == [batch[b] EXCEPT !.pc = "inserting"]
  <2>1. batch[b].pc = "found" /\ UNCHANGED Store
    BY <1>3 DEF RecheckRow
  <2>2. /\ x \in BatchRows /\ x.pc = "inserting" /\ x.row = batch[b].row
        /\ x.created = batch[b].created /\ x.todo = batch[b].todo
        /\ x.skipped = batch[b].skipped /\ x.analyzed = batch[b].analyzed /\ x.failed = batch[b].failed
    BY BatchTyped DEF BatchRows, BatchPcs
  <2>3. batch' = [batch EXCEPT ![b] = x]
    BY <1>3 DEF RecheckRow, BatchInv, BatchTypes
  <2> HIDE DEF x
  <2>4. BatchFits(b, x, profiled')
    BY <2>1, <2>2, BatchesFit DEF BatchFits, Store
  <2> QED
    BY <2>1, <2>2, <2>3, <2>4, OneBatchChanges DEF Store
<1> QED
  BY <1>1, <1>2, <1>3

\* The insertion is refused, or adds a job under a key that no job has.
LEMMA InsertKeeps == ASSUME BatchInv, NEW b \in Batches, InsertRow(b) PROVE BatchInv'
<1> DEFINE r == batch[b].row
           go == batch[b].preanalyze
           x == [Took(b, r) EXCEPT !.created = @ \cup {r}, !.pc = IF go THEN "attempt" ELSE "next",
                                   !.row = IF go THEN r ELSE NoRow]
<1>1. CASE KeyTaken(r) /\ Refuse(b, r)
  BY <1>1, RefuseKeeps DEF InsertRow
<1>2. CASE /\ ~KeyTaken(r) /\ batch' = [batch EXCEPT ![b] = x]
           /\ jobs' = jobs \cup {r} /\ UNCHANGED profiled
  <2>1. batch[b].pc = "inserting" /\ b \in Imports /\ r \in batch[b].todo /\ r \in InputRows
    BY BatchesFit DEF InsertRow, BatchFits, BatchRows
  <2>2. r \notin jobs /\ \A j \in jobs : Key[j] # Key[r]
    BY <1>2 DEF KeyTaken
  <2>t. batch[b] \in BatchRows
    BY BatchTyped
  <2>f. x \in BatchRows
    BY <2>1, <2>t DEF Took, BatchRows, BatchPcs
  <2>3. /\ x.pc \in {"attempt", "next"} /\ (x.pc = "attempt" => x.row = r)
        /\ x.created = batch[b].created \cup {r} /\ x.todo = batch[b].todo \ {r}
        /\ x.skipped = batch[b].skipped /\ x.analyzed = batch[b].analyzed /\ x.failed = batch[b].failed
    BY <2>t DEF Took, BatchRows
  <2> HIDE DEF x
  <2>4. BatchFits(b, x, profiled')
    BY <1>2, <2>1, <2>f, <2>3, BatchesFit DEF BatchFits
  <2>5. batch'[b] = x /\ \A c \in Batches : c # b => batch'[c] = batch[c]
    BY <1>2 DEF BatchInv, BatchTypes
  <2>6. BatchTypes'
    BY <1>2, <2>1, <2>f DEF BatchInv, BatchTypes
  <2>7. IdleIsEmpty' /\ RowsAtHand' /\ EndsAreMarked' /\ AnalyzedAreProfiled'
    BY <1>2, <2>4, <2>5 DEF BatchInv, IdleIsEmpty, RowsAtHand, EndsAreMarked, AnalyzedAreProfiled, BatchFits, Idle
  <2>8. FeedIsDivided'
    BY <2>4, <2>5 DEF BatchInv, FeedIsDivided, BatchFits, Idle
  <2>9. CreatedAreJobs'
    BY <1>2, <2>1, <2>2, <2>3, <2>5 DEF BatchInv, CreatedAreJobs
  <2>10. KeysAreUnique'
    BY <1>2, <2>2 DEF BatchInv, KeysAreUnique
  <2> QED
    BY <2>6, <2>7, <2>8, <2>9, <2>10 DEF BatchInv
<1> QED
  BY <1>1, <1>2 DEF InsertRow

\* A sweep takes a job, or skips one that is analysed by now.
LEMMA TakeKeeps == ASSUME BatchInv, NEW b \in Batches, TakeJob(b) PROVE BatchInv'
<1>1. PICK r \in batch[b].todo :
        /\ b \in Sweeps /\ batch[b].pc = "next" /\ UNCHANGED Store
        /\ batch' = [batch EXCEPT ![b] =
             IF NeedsPreanalyze(r) THEN [Took(b, r) EXCEPT !.pc = "attempt", !.row = r]
             ELSE [Took(b, r) EXCEPT !.skipped = @ \cup {r}]]
  BY DEF TakeJob
<1> DEFINE x == IF NeedsPreanalyze(r) THEN [Took(b, r) EXCEPT !.pc = "attempt", !.row = r]
                ELSE [Took(b, r) EXCEPT !.skipped = @ \cup {r}]
<1>2. r \in InputRows
  BY <1>1, BatchTyped DEF BatchRows
<1>3. /\ x \in BatchRows /\ x.pc \in {"attempt", "next"} /\ (x.pc = "attempt" => x.row = r)
      /\ x.created = batch[b].created /\ x.analyzed = batch[b].analyzed
  BY <1>1, <1>2, BatchTyped DEF Took, BatchRows, BatchPcs
<1>4. batch' = [batch EXCEPT ![b] = x]
  BY <1>1
<1> HIDE DEF x
<1>5. BatchFits(b, x, profiled')
  BY <1>1, <1>2, <1>3, BatchesFit DEF BatchFits, Store
<1> QED
  BY <1>1, <1>3, <1>4, <1>5, OneBatchChanges DEF Store

\* An attempt is over, with or without a result, or is to be made again.
LEMMA AttemptsKeep ==
  ASSUME BatchInv, NEW b \in Batches, Analyzed(b) \/ TransientFailure(b) \/ RowFails(b)
  PROVE  BatchInv'
<1>1. batch[b] \in BatchRows /\ batch[b].pc = "attempt" /\ UNCHANGED jobs
  BY BatchTyped DEF Analyzed, TransientFailure, RowFails, Store
<1>2. batch[b].row \in InputRows /\ (b \in Imports => batch[b].row \in batch[b].created)
  BY <1>1, BatchesFit DEF BatchFits
<1>3. CASE Analyzed(b)
  <2> DEFINE x == [batch[b] EXCEPT !.analyzed = @ \cup {batch[b].row}, !.pc = "next",
                                   !.row = NoRow, !.tries = 0]
  <2>1. x \in BatchRows
    BY <1>1, <1>2 DEF BatchRows, BatchPcs
  <2>2. /\ x.pc = "next" /\ x.created = batch[b].created /\ x.todo = batch[b].todo
        /\ x.skipped = batch[b].skipped /\ x.failed = batch[b].failed
        /\ x.analyzed = batch[b].analyzed \cup {batch[b].row}
    BY <1>1 DEF BatchRows
  <2>3. batch' = [batch EXCEPT ![b] = x] /\ profiled' = profiled \cup {batch[b].row}
    BY <1>3 DEF Analyzed, Close
  <2> HIDE DEF x
  <2>4. BatchFits(b, x, profiled')
    BY <1>1, <1>2, <2>1, <2>2, <2>3, BatchesFit DEF BatchFits
  <2> QED
    BY <1>1, <2>1, <2>2, <2>3, <2>4, OneBatchChanges
<1>4. CASE TransientFailure(b)
  <2> DEFINE x == [batch[b] EXCEPT !.tries = @ + 1]
  <2>1. x \in BatchRows
    BY <1>1 DEF BatchRows
  <2>2. /\ x.pc = batch[b].pc /\ x.row = batch[b].row /\ x.created = batch[b].created
        /\ x.todo = batch[b].todo /\ x.skipped = batch[b].skipped
        /\ x.failed = batch[b].failed /\ x.analyzed = batch[b].analyzed
    BY <1>1 DEF BatchRows
  <2>3. batch' = [batch EXCEPT ![b] = x] /\ UNCHANGED profiled
    BY <1>4 DEF TransientFailure, Store, BatchInv, BatchTypes
  <2> HIDE DEF x
  <2>4. BatchFits(b, x, profiled')
    BY <1>1, <2>1, <2>2, <2>3, BatchesFit DEF BatchFits
  <2> QED
    BY <1>1, <2>1, <2>2, <2>3, <2>4, OneBatchChanges
<1>5. CASE RowFails(b)
  <2> DEFINE x == [batch[b] EXCEPT !.failed = @ \cup {batch[b].row}, !.pc = "next",
                                   !.row = NoRow, !.tries = 0]
  <2>1. x \in BatchRows
    BY <1>1, <1>2 DEF BatchRows, BatchPcs
  <2>2. /\ x.pc = "next" /\ x.created = batch[b].created /\ x.todo = batch[b].todo
        /\ x.skipped = batch[b].skipped /\ x.analyzed = batch[b].analyzed
        /\ x.failed = batch[b].failed \cup {batch[b].row}
    BY <1>1 DEF BatchRows
  <2>3. batch' = [batch EXCEPT ![b] = x] /\ UNCHANGED profiled
    BY <1>5 DEF RowFails, Close, Store
  <2> HIDE DEF x
  <2>4. BatchFits(b, x, profiled')
    BY <1>1, <1>2, <2>1, <2>2, <2>3, BatchesFit DEF BatchFits
  <2> QED
    BY <1>1, <2>1, <2>2, <2>3, <2>4, OneBatchChanges
<1> QED
  BY <1>3, <1>4, <1>5

\* No analysis at all: a sweep ends, an import goes on without.
LEMMA UnavailableKeeps == ASSUME BatchInv, NEW b \in Batches, Unavailable(b) PROVE BatchInv'
<1>1. batch[b] \in BatchRows /\ batch[b].pc = "attempt" /\ UNCHANGED Store
  BY BatchTyped DEF Unavailable
<1>2. batch[b].row \in InputRows
  BY <1>1, BatchesFit DEF BatchFits
<1>3. CASE b \in Sweeps /\ End(b, [batch[b] EXCEPT !.stopped = TRUE, !.failed = @ \cup {batch[b].row}])
  <2> DEFINE x == [batch[b] EXCEPT !.stopped = TRUE, !.failed = @ \cup {batch[b].row}]
  <2>1. x \in BatchRows
    BY <1>1, <1>2 DEF BatchRows
  <2>2. /\ x.stopped /\ x.created = batch[b].created /\ x.todo = batch[b].todo
        /\ x.skipped = batch[b].skipped /\ x.analyzed = batch[b].analyzed
    BY <1>1 DEF BatchRows
  <2>3. End(b, x)
    BY <1>3
  <2> HIDE DEF x
  <2> QED
    BY <1>1, <1>3, <2>1, <2>2, <2>3, EndKeeps DEF Idle
<1>4. CASE /\ b \in Imports
           /\ batch' = [batch EXCEPT ![b].preanalyze = FALSE, ![b].pc = "next",
                                     ![b].row = NoRow, ![b].tries = 0]
  <2> DEFINE x == [batch[b] EXCEPT !.preanalyze = FALSE, !.pc = "next", !.row = NoRow, !.tries = 0]
  <2>1. x \in BatchRows
    BY <1>1 DEF BatchRows, BatchPcs
  <2>2. /\ x.pc = "next" /\ x.created = batch[b].created /\ x.todo = batch[b].todo
        /\ x.skipped = batch[b].skipped /\ x.analyzed = batch[b].analyzed /\ x.failed = batch[b].failed
    BY <1>1 DEF BatchRows
  <2>3. batch' = [batch EXCEPT ![b] = x]
    BY <1>4 DEF BatchInv, BatchTypes
  <2> HIDE DEF x
  <2>4. BatchFits(b, x, profiled')
    BY <1>1, <2>1, <2>2, BatchesFit DEF BatchFits, Store
  <2> QED
    BY <1>1, <2>1, <2>2, <2>3, <2>4, OneBatchChanges DEF Store
<1> QED
  BY <1>3, <1>4 DEF Unavailable

\* Requests.
LEMMA BatchRequestsKeep ==
  ASSUME BatchInv, NEW b \in Batches,
         \/ b \in Imports /\ StartImport(b)
         \/ b \in Sweeps /\ (StartSweep(b) \/ CancelSweep(b))
  PROVE  BatchInv'
<1>1. batch[b] \in BatchRows /\ UNCHANGED Store
  BY BatchTyped DEF StartImport, StartSweep, CancelSweep
<1>2. CASE b \in Imports /\ StartImport(b)
  <2>1. PICK pre \in BOOLEAN :
          batch' = [batch EXCEPT ![b].pc = "next", ![b].todo = Feed[b], ![b].preanalyze = pre]
    BY <1>2 DEF StartImport
  <2> DEFINE x == [batch[b] EXCEPT !.pc = "next", !.todo = Feed[b], !.preanalyze = pre]
  <2>2. x \in BatchRows
    BY <1>1, <1>2 DEF BatchRows, BatchPcs
  <2>3. /\ x.pc = "next" /\ x.created = batch[b].created /\ x.todo = Feed[b]
        /\ x.skipped = batch[b].skipped /\ x.analyzed = batch[b].analyzed /\ x.failed = batch[b].failed
    BY <1>1 DEF BatchRows
  <2>4. batch' = [batch EXCEPT ![b] = x]
    BY <2>1 DEF BatchInv, BatchTypes
  <2> HIDE DEF x
  <2>5. BatchFits(b, x, profiled')
    BY <1>1, <1>2, <2>2, <2>3, BatchesFit DEF BatchFits, Store, StartImport
  <2> QED
    BY <1>1, <2>2, <2>3, <2>4, <2>5, OneBatchChanges DEF Store
<1>3. CASE b \in Sweeps /\ StartSweep(b)
  <2> DEFINE pending == {j \in jobs : NeedsPreanalyze(j)}
             x == [batch[b] EXCEPT !.pc = "next", !.todo = pending]
  <2>1. pending \subseteq InputRows
    BY DEF BatchInv, BatchTypes
  <2>2. x \in BatchRows
    <3> HIDE DEF pending
    <3> QED
      BY <1>1, <2>1 DEF BatchRows, BatchPcs
  <2>3. x.pc = "next" /\ x.created = batch[b].created /\ x.analyzed = batch[b].analyzed
    BY <1>1 DEF BatchRows
  <2>4. batch' = [batch EXCEPT ![b] = x]
    BY <1>3 DEF StartSweep, BatchInv, BatchTypes
  <2> HIDE DEF x
  <2>5. BatchFits(b, x, profiled')
    BY <1>1, <1>3, <2>2, <2>3, BatchesFit DEF BatchFits, Store
  <2> QED
    BY <1>1, <2>2, <2>3, <2>4, <2>5, OneBatchChanges DEF Store
<1>4. CASE b \in Sweeps /\ CancelSweep(b)
  <2> DEFINE x == [batch[b] EXCEPT !.stop = TRUE]
  <2>1. x \in BatchRows
    BY <1>1 DEF BatchRows
  <2>2. /\ x.pc = batch[b].pc /\ x.row = batch[b].row /\ x.created = batch[b].created
        /\ x.todo = batch[b].todo /\ x.skipped = batch[b].skipped
        /\ x.failed = batch[b].failed /\ x.analyzed = batch[b].analyzed
        /\ x.broken = batch[b].broken /\ x.stopped = batch[b].stopped /\ x.canceled = batch[b].canceled
    BY <1>1 DEF BatchRows
  <2>3. batch' = [batch EXCEPT ![b] = x]
    BY <1>4 DEF CancelSweep, BatchInv, BatchTypes
  <2> HIDE DEF x
  <2>4. BatchFits(b, x, profiled')
    BY <1>1, <2>1, <2>2, BatchesFit DEF BatchFits, Store
  <2> QED
    BY <1>1, <2>1, <2>2, <2>3, <2>4, OneBatchChanges DEF Store
<1> QED
  BY <1>2, <1>3, <1>4

LEMMA BatchesStart == ASSUME PreInit PROVE BatchInv
<1>1. PICK mix \in BatchMixes :
        batch = [b \in Batches |-> [NewBatch EXCEPT !.pc = IF b \in mix THEN "new" ELSE "off"]]
  BY DEF PreInit
<1>2. BatchTypes
  BY <1>1 DEF PreInit, BatchTypes, NewBatch, BatchRows, BatchPcs
<1>3. \A b \in Batches : Idle(b) /\ batch[b].created = {} /\ batch[b].skipped = {}
                         /\ batch[b].failed = {} /\ batch[b].analyzed = {} /\ batch[b].todo = {}
  BY <1>1 DEF NewBatch, Idle
<1> QED
  BY <1>2, <1>3 DEF PreInit, BatchInv, IdleIsEmpty, RowsAtHand, FeedIsDivided, CreatedAreJobs,
                    AnalyzedAreProfiled, EndsAreMarked, KeysAreUnique, Idle

LEMMA BatchesKeep == ASSUME BatchInv, [PreNext]_preVars PROVE BatchInv'
<1>1. ASSUME NEW b \in Batches, BatchSteps(b)
      PROVE  BatchInv'
  BY <1>1, EndingsKeep, SkipKeeps, FindKeeps, InsertKeeps, TakeKeeps, AttemptsKeep,
     UnavailableKeeps DEF BatchSteps
<1>2. CASE UNCHANGED preVars
  BY <1>2 DEF preVars, BatchInv, BatchTypes, IdleIsEmpty, RowsAtHand, FeedIsDivided, CreatedAreJobs,
              AnalyzedAreProfiled, EndsAreMarked, KeysAreUnique, Idle
<1> QED
  BY <1>1, <1>2, BatchRequestsKeep DEF PreNext

\* What the invariant says of the counters.
LEMMA AccountsFollow == ASSUME BatchInv PROVE BatchesAccount
BY DEF BatchInv, BatchTypes, FeedIsDivided, CreatedAreJobs, AnalyzedAreProfiled, EndsAreMarked,
       BatchesAccount, Worked, Idle

-----------------------------------------------------------------------------
(* Batches: theorems *)

\* Every batch of services/jobs.py divides its rows, whatever the other batches do.
THEOREM BatchInvariance == PreSpec => []BatchInv
<1>1. PreInit => BatchInv
  BY BatchesStart
<1>2. BatchInv /\ [PreNext]_preVars => BatchInv'
  BY BatchesKeep
<1> QED
  BY <1>1, <1>2, PTL DEF PreSpec

\* The counters of imports and sweeps (services/jobs.py:706-782, 1205-1272) say what the
\* batches did, for any number of batches that run at the same time.
THEOREM BatchesAreAccounted == PreSpec => []BatchesAccount
BY AccountsFollow, BatchInvariance, PTL

\* No two library jobs of a tenant have one dedupe key, however many imports look for
\* duplicates before any of them inserts.
THEOREM KeysStayUnique == PreSpec => []KeysAreUnique
<1>1. BatchInv => KeysAreUnique
  BY DEF BatchInv
<1> QED
  BY <1>1, BatchInvariance, PTL

-----------------------------------------------------------------------------
(* Batches: the types *)

StoreTyped ==
  /\ jobs \subseteq InputRows \ Blanks
  /\ classified \subseteq jobs /\ unsettled \subseteq jobs /\ profiled \subseteq jobs

\* What the types of a batch b whose dictionary is x rest on, with the jobs J and the kept
\* batches K: one that is under way is kept, and works on jobs or on rows that can become one.
Placed(b, x, J, K) ==
  /\ x.pc \notin {"off", "new", "done"} => b \in K
  /\ x.tries <= Delays
  /\ b \in Sweeps => x.todo \subseteq J
  /\ x.pc \in {"found", "inserting"} => x.row \notin Blanks
  /\ x.pc = "attempt" => x.row \in J

PreTyped ==
  /\ StoreTyped /\ keptBatches \subseteq Batches
  /\ \A b \in Batches : Placed(b, batch[b], jobs, keptBatches)

\* A step of one batch that lets the others' batches be.
LEMMA OnePlaced ==
  ASSUME BatchInv, PreTyped, NEW b \in Batches, NEW x,
         batch' = [batch EXCEPT ![b] = x], jobs \subseteq jobs', StoreTyped', keptBatches' \subseteq Batches,
         \A c \in keptBatches : batch[c].pc # "done" /\ c # b => c \in keptBatches',
         Placed(b, x, jobs', keptBatches')
  PROVE  PreTyped'
<1>1. \A c \in Batches : batch'[c] = IF c = b THEN x ELSE batch[c]
  BY DEF BatchInv, BatchTypes
<1>2. ASSUME NEW c \in Batches
      PROVE  Placed(c, batch'[c], jobs', keptBatches')
  <2>1. CASE c = b
    BY <1>1, <2>1
  <2>2. CASE c # b
    BY <1>1, <2>2 DEF PreTyped, Placed
  <2> QED
    BY <2>1, <2>2
<1> QED
  BY <1>2 DEF PreTyped

\* Finished batches make room, and the one that has just ended.
LEMMA PruningKeeps ==
  ASSUME PreTyped, NEW b \in Batches, NEW D \in Pruned(b), keptBatches' = keptBatches \ D
  PROVE  /\ keptBatches' \subseteq Batches
         /\ \A c \in keptBatches : batch[c].pc # "done" /\ c # b => c \in keptBatches'
<1>1. D \subseteq Finished(b)
  BY DEF Pruned
<1> QED
  BY <1>1 DEF Finished, PreTyped, Alike

LEMMA EndPlaced ==
  ASSUME BatchInv, PreTyped, NEW b \in Batches, NEW x \in BatchRows, End(b, x), UNCHANGED Store,
         x.todo = batch[b].todo
  PROVE  PreTyped'
<1> DEFINE y == [x EXCEPT !.pc = "done", !.row = NoRow, !.tries = 0]
<1>1. y.pc = "done" /\ y.tries = 0 /\ y.todo = x.todo
  BY DEF BatchRows
<1>2. batch' = [batch EXCEPT ![b] = y]
  BY DEF End
<1> HIDE DEF y
<1>3. Placed(b, y, jobs', keptBatches')
  BY <1>1 DEF PreTyped, Placed, Store
<1>4. /\ keptBatches' \subseteq Batches
      /\ \A c \in keptBatches : batch[c].pc # "done" /\ c # b => c \in keptBatches'
  BY PruningKeeps DEF End
<1>5. StoreTyped' /\ jobs' = jobs
  BY DEF Store, PreTyped, StoreTyped
<1> QED
  BY <1>2, <1>3, <1>4, <1>5, OnePlaced

LEMMA StepsPlaced == ASSUME BatchInv, PreTyped, NEW b \in Batches, BatchSteps(b) PROVE PreTyped'
<1>t. batch[b] \in BatchRows /\ batch[b].todo \subseteq InputRows
  BY BatchTyped
<1>p. Placed(b, batch[b], jobs, keptBatches)
  BY DEF PreTyped
<1>e. batch = [c \in Batches |-> batch[c]]
  BY DEF BatchInv, BatchTypes
<1>1. CASE EndOfRows(b) \/ StopHere(b) \/ Break(b)
  <2>1. PICK x : /\ x \in {batch[b], [batch[b] EXCEPT !.canceled = TRUE], [batch[b] EXCEPT !.broken = TRUE]}
                 /\ End(b, x) /\ UNCHANGED Store
    BY <1>1 DEF EndOfRows, StopHere, Break
  <2>2. x \in BatchRows /\ x.todo = batch[b].todo
    BY <1>t, <2>1 DEF BatchRows
  <2> QED
    BY <2>1, <2>2, EndPlaced
<1>2. ASSUME NEW x, batch' = [batch EXCEPT ![b] = x], UNCHANGED <<Store, keptBatches>>,
             Placed(b, x, jobs, keptBatches)
      PROVE  PreTyped'
  BY <1>2, OnePlaced DEF Store, PreTyped, StoreTyped
<1>3. CASE SkipRow(b)
  <2>1. PICK r \in batch[b].todo :
          /\ batch[b].pc = "next" /\ UNCHANGED <<Store, keptBatches>>
          /\ batch' = [batch EXCEPT ![b] = [Took(b, r) EXCEPT !.skipped = @ \cup {r}]]
    BY <1>3 DEF SkipRow
  <2> DEFINE x == [Took(b, r) EXCEPT !.skipped = @ \cup {r}]
  <2>2. /\ x.pc = "next" /\ x.todo \subseteq batch[b].todo /\ x.tries = batch[b].tries
    BY <1>t, <2>1 DEF Took, BatchRows
  <2> HIDE DEF x
  <2>3. Placed(b, x, jobs, keptBatches)
    BY <1>p, <2>1, <2>2 DEF Placed
  <2>4. batch' = [batch EXCEPT ![b] = x]
    BY <2>1 DEF x
  <2> QED
    BY <1>2, <2>1, <2>3, <2>4
<1>4. CASE FindRow(b)
  <2>1. PICK r \in batch[b].todo :
          /\ batch[b].pc = "next" /\ r \notin Blanks /\ UNCHANGED <<Store, keptBatches>>
          /\ batch' = [batch EXCEPT ![b].pc = "found", ![b].row = r]
    BY <1>4 DEF FindRow
  <2> DEFINE x == [batch[b] EXCEPT !.pc = "found", !.row = r]
  <2>2. /\ x.pc = "found" /\ x.row = r /\ x.todo = batch[b].todo /\ x.tries = batch[b].tries
    BY <1>t, <2>1 DEF BatchRows
  <2>4. batch' = [batch EXCEPT ![b] = x]
    BY <1>e, <2>1
  <2> HIDE DEF x
  <2>3. Placed(b, x, jobs, keptBatches)
    BY <1>p, <2>1, <2>2 DEF Placed
  <2> QED
    BY <1>2, <2>1, <2>3, <2>4
<1>5. ASSUME NEW r, Refuse(b, r), batch[b].pc \in {"found", "inserting"}
      PROVE  PreTyped'
  <2> DEFINE x == [Took(b, r) EXCEPT !.skipped = @ \cup {r}, !.pc = "next", !.row = NoRow]
  <2>2. /\ x.pc = "next" /\ x.todo \subseteq batch[b].todo /\ x.tries = batch[b].tries
    BY <1>t DEF Took, BatchRows
  <2>4. batch' = [batch EXCEPT ![b] = x] /\ UNCHANGED <<Store, keptBatches>>
    BY <1>5 DEF Refuse
  <2> HIDE DEF x
  <2>3. Placed(b, x, jobs, keptBatches)
    BY <1>5, <1>p, <2>2 DEF Placed
  <2> QED
    BY <1>2, <2>3, <2>4
<1>6. CASE RecheckRow(b) /\ ~Duplicate(batch[b].row)
  <2> DEFINE x == [batch[b] EXCEPT !.pc = "inserting"]
  <2>2. /\ x.pc = "inserting" /\ x.row = batch[b].row /\ x.todo = batch[b].todo /\ x.tries = batch[b].tries
    BY <1>t DEF BatchRows
  <2>4. batch' = [batch EXCEPT ![b] = x] /\ UNCHANGED <<Store, keptBatches>> /\ batch[b].pc = "found"
    BY <1>e, <1>6 DEF RecheckRow
  <2> HIDE DEF x
  <2>3. Placed(b, x, jobs, keptBatches)
    BY <1>p, <2>2, <2>4 DEF Placed
  <2> QED
    BY <1>2, <2>3, <2>4
<1>7. CASE InsertRow(b) /\ ~KeyTaken(batch[b].row)
  <2> DEFINE r == batch[b].row
             go == batch[b].preanalyze
             x == [Took(b, r) EXCEPT !.created = @ \cup {r}, !.pc = IF go THEN "attempt" ELSE "next",
                                     !.row = IF go THEN r ELSE NoRow]
  <2>1. batch[b].pc = "inserting" /\ r \in InputRows /\ r \notin Blanks /\ b \notin Sweeps
    BY <1>7, <1>p, BatchesFit DEF InsertRow, Placed, BatchFits, BatchRows
  <2>2. /\ batch' = [batch EXCEPT ![b] = x] /\ jobs' = jobs \cup {r} /\ UNCHANGED <<profiled, keptBatches>>
        /\ \/ classified' = classified \cup {r} /\ UNCHANGED unsettled
           \/ unsettled' = unsettled \cup {r} /\ UNCHANGED classified
    BY <1>7 DEF InsertRow
  <2>3. /\ x.pc \in {"attempt", "next"} /\ (x.pc = "attempt" => x.row = r)
        /\ x.todo \subseteq batch[b].todo /\ x.tries = batch[b].tries
    BY <1>t DEF Took, BatchRows
  <2> HIDE DEF x
  <2>4. Placed(b, x, jobs', keptBatches')
    BY <1>p, <2>1, <2>2, <2>3 DEF Placed
  <2>5. StoreTyped'
    BY <2>1, <2>2 DEF PreTyped, StoreTyped
  <2> QED
    BY <2>2, <2>4, <2>5, OnePlaced DEF PreTyped
<1>8. CASE TakeJob(b)
  <2>1. PICK r \in batch[b].todo :
          /\ b \in Sweeps /\ batch[b].pc = "next" /\ UNCHANGED <<Store, keptBatches>>
          /\ batch' = [batch EXCEPT ![b] =
               IF NeedsPreanalyze(r) THEN [Took(b, r) EXCEPT !.pc = "attempt", !.row = r]
               ELSE [Took(b, r) EXCEPT !.skipped = @ \cup {r}]]
    BY <1>8 DEF TakeJob
  <2> DEFINE x == IF NeedsPreanalyze(r) THEN [Took(b, r) EXCEPT !.pc = "attempt", !.row = r]
                  ELSE [Took(b, r) EXCEPT !.skipped = @ \cup {r}]
  <2>2. /\ x.pc \in {"attempt", "next"} /\ (x.pc = "attempt" => x.row = r)
        /\ x.todo \subseteq batch[b].todo /\ x.tries = batch[b].tries
    BY <1>t, <2>1 DEF Took, BatchRows
  <2>4. batch' = [batch EXCEPT ![b] = x]
    BY <2>1
  <2> HIDE DEF x
  <2>3. Placed(b, x, jobs, keptBatches)
    BY <1>p, <2>1, <2>2 DEF Placed
  <2> QED
    BY <1>2, <2>1, <2>3, <2>4
<1>9. CASE Analyzed(b)
  <2> DEFINE x == [batch[b] EXCEPT !.analyzed = @ \cup {batch[b].row}, !.pc = "next", !.row = NoRow, !.tries = 0]
  <2>1. /\ batch' = [batch EXCEPT ![b] = x] /\ UNCHANGED <<jobs, keptBatches>>
        /\ profiled' = profiled \cup {batch[b].row} /\ batch[b].row \in jobs
        /\ unsettled' \subseteq unsettled /\ classified' \subseteq classified \cup {batch[b].row}
        /\ batch[b].pc = "attempt"
    BY <1>9, <1>p DEF Analyzed, Close, Placed
  <2>2. x.pc = "next" /\ x.tries = 0 /\ x.todo = batch[b].todo
    BY <1>t DEF BatchRows
  <2> HIDE DEF x
  <2>3. Placed(b, x, jobs', keptBatches')
    BY <1>p, <2>1, <2>2 DEF Placed
  <2>4. StoreTyped'
    BY <2>1 DEF PreTyped, StoreTyped
  <2> QED
    BY <2>1, <2>3, <2>4, OnePlaced DEF PreTyped
<1>10. CASE TransientFailure(b)
  <2> DEFINE x == [batch[b] EXCEPT !.tries = @ + 1]
  <2>1. /\ batch' = [batch EXCEPT ![b] = x] /\ UNCHANGED <<Store, keptBatches>>
        /\ batch[b].tries < Delays
    BY <1>10, <1>e DEF TransientFailure
  <2>2. /\ x.pc = batch[b].pc /\ x.row = batch[b].row /\ x.tries = batch[b].tries + 1
        /\ x.todo = batch[b].todo /\ batch[b].tries \in Nat
    BY <1>t DEF BatchRows
  <2> HIDE DEF x
  <2>3. Placed(b, x, jobs, keptBatches)
    BY <1>p, <2>1, <2>2 DEF Placed
  <2> QED
    BY <1>2, <2>1, <2>3
<1>11. CASE RowFails(b)
  <2> DEFINE x == [batch[b] EXCEPT !.failed = @ \cup {batch[b].row}, !.pc = "next", !.row = NoRow, !.tries = 0]
  <2>1. /\ batch' = [batch EXCEPT ![b] = x] /\ UNCHANGED <<Store, keptBatches>> /\ batch[b].pc = "attempt"
    BY <1>11 DEF RowFails, Close
  <2>2. x.pc = "next" /\ x.tries = 0 /\ x.todo = batch[b].todo
    BY <1>t DEF BatchRows
  <2> HIDE DEF x
  <2>3. Placed(b, x, jobs, keptBatches)
    BY <1>p, <2>1, <2>2 DEF Placed
  <2> QED
    BY <1>2, <2>1, <2>3
<1>12. CASE Unavailable(b)
  <2>1. CASE b \in Sweeps /\ End(b, [batch[b] EXCEPT !.stopped = TRUE, !.failed = @ \cup {batch[b].row}])
    <3> DEFINE x == [batch[b] EXCEPT !.stopped = TRUE, !.failed = @ \cup {batch[b].row}]
    <3>1. batch[b].row \in InputRows
      BY <1>12, BatchesFit DEF Unavailable, BatchFits
    <3>2. x \in BatchRows /\ x.todo = batch[b].todo
      BY <1>t, <3>1 DEF BatchRows
    <3>3. End(b, x) /\ UNCHANGED Store
      BY <1>12, <2>1 DEF Unavailable
    <3> HIDE DEF x
    <3> QED
      BY <3>2, <3>3, EndPlaced
  <2>2. CASE /\ b \in Imports /\ UNCHANGED keptBatches
             /\ batch' = [batch EXCEPT ![b].preanalyze = FALSE, ![b].pc = "next",
                                       ![b].row = NoRow, ![b].tries = 0]
    <3> DEFINE x == [batch[b] EXCEPT !.preanalyze = FALSE, !.pc = "next", !.row = NoRow, !.tries = 0]
    <3>1. /\ batch' = [batch EXCEPT ![b] = x] /\ UNCHANGED <<Store, keptBatches>> /\ batch[b].pc = "attempt"
      BY <1>12, <1>e, <2>2 DEF Unavailable
    <3>2. x.pc = "next" /\ x.tries = 0 /\ x.todo = batch[b].todo
      BY <1>t DEF BatchRows
    <3> HIDE DEF x
    <3>3. Placed(b, x, jobs, keptBatches)
      BY <1>p, <3>1, <3>2 DEF Placed
    <3> QED
      BY <1>2, <3>1, <3>3
  <2> QED
    BY <1>12, <2>1, <2>2 DEF Unavailable
<1>13. CASE \/ RecheckRow(b) /\ Duplicate(batch[b].row)
            \/ InsertRow(b) /\ KeyTaken(batch[b].row)
  <2>1. Refuse(b, batch[b].row) /\ batch[b].pc \in {"found", "inserting"}
    BY <1>13 DEF RecheckRow, InsertRow
  <2> QED
    BY <1>5, <2>1
<1>14. CASE RecheckRow(b) \/ InsertRow(b)
  BY <1>6, <1>7, <1>13, <1>14
<1> QED
  BY <1>1, <1>3, <1>4, <1>14, <1>8, <1>9, <1>10, <1>11, <1>12 DEF BatchSteps

LEMMA PreTypesKeep == ASSUME BatchInv, PreTyped, [PreNext]_preVars PROVE PreTyped'
<1>1. ASSUME NEW b \in Imports, StartImport(b)
      PROVE  PreTyped'
  <2>1. PICK pre \in BOOLEAN :
          batch' = [batch EXCEPT ![b].pc = "next", ![b].todo = Feed[b], ![b].preanalyze = pre]
    BY <1>1 DEF StartImport
  <2> DEFINE x == [batch[b] EXCEPT !.pc = "next", !.todo = Feed[b], !.preanalyze = pre]
  <2>t. batch[b] \in BatchRows
    BY BatchTyped
  <2>2. batch' = [batch EXCEPT ![b] = x]
    BY <2>1 DEF BatchInv, BatchTypes
  <2>3. x.pc = "next" /\ x.tries = batch[b].tries
    BY <2>t DEF BatchRows
  <2> HIDE DEF x
  <2>4. Placed(b, x, jobs', keptBatches') /\ StoreTyped' /\ keptBatches' = keptBatches \cup {b} /\ jobs' = jobs
    BY <1>1, <2>3 DEF StartImport, Placed, PreTyped, StoreTyped, Store
  <2> QED
    BY <2>2, <2>4, OnePlaced DEF PreTyped
<1>2. ASSUME NEW b \in Sweeps, StartSweep(b)
      PROVE  PreTyped'
  <2> DEFINE pending == {j \in jobs : NeedsPreanalyze(j)}
             x == [batch[b] EXCEPT !.pc = "next", !.todo = pending]
  <2>t. batch[b] \in BatchRows
    BY BatchTyped
  <2>2. batch' = [batch EXCEPT ![b] = x]
    BY <1>2 DEF StartSweep, BatchInv, BatchTypes
  <2>3. x.pc = "next" /\ x.tries = batch[b].tries /\ x.todo \subseteq jobs
    BY <2>t DEF BatchRows
  <2> HIDE DEF x
  <2>4. Placed(b, x, jobs', keptBatches') /\ StoreTyped' /\ keptBatches' = keptBatches \cup {b} /\ jobs' = jobs
    BY <1>2, <2>3 DEF StartSweep, Placed, PreTyped, StoreTyped, Store
  <2> QED
    BY <2>2, <2>4, OnePlaced DEF PreTyped
<1>3. ASSUME NEW b \in Sweeps, CancelSweep(b)
      PROVE  PreTyped'
  <2> DEFINE x == [batch[b] EXCEPT !.stop = TRUE]
  <2>t. batch[b] \in BatchRows /\ Placed(b, batch[b], jobs, keptBatches)
    BY BatchTyped DEF PreTyped
  <2>2. batch' = [batch EXCEPT ![b] = x] /\ UNCHANGED <<Store, keptBatches>>
    BY <1>3 DEF CancelSweep, BatchInv, BatchTypes
  <2>3. x.pc = batch[b].pc /\ x.tries = batch[b].tries /\ x.todo = batch[b].todo /\ x.row = batch[b].row
    BY <2>t DEF BatchRows
  <2> HIDE DEF x
  <2>4. Placed(b, x, jobs', keptBatches') /\ StoreTyped'
    BY <2>t, <2>2, <2>3 DEF Placed, PreTyped, StoreTyped, Store
  <2> QED
    BY <2>2, <2>4, OnePlaced DEF PreTyped, Store
<1>4. CASE UNCHANGED preVars
  BY <1>4 DEF preVars, PreTyped, StoreTyped, Placed
<1> QED
  BY <1>1, <1>2, <1>3, <1>4, StepsPlaced DEF PreNext

LEMMA PreStartTyped == ASSUME PreInit PROVE PreTyped
<1>1. PICK mix \in BatchMixes :
        batch = [b \in Batches |-> [NewBatch EXCEPT !.pc = IF b \in mix THEN "new" ELSE "off"]]
  BY DEF PreInit
<1>2. \A b \in Batches : batch[b].pc \in {"off", "new"} /\ batch[b].tries = 0 /\ batch[b].todo = {}
  BY <1>1 DEF NewBatch
<1>3. \A b \in Batches : Placed(b, batch[b], jobs, keptBatches)
  BY <1>2 DEF Placed
<1> QED
  BY <1>3 DEF PreInit, PreTyped, StoreTyped

LEMMA PreTypesFollow == ASSUME BatchInv, PreTyped PROVE PreTypeOK
<1>1. ASSUME NEW b \in Batches
      PROVE  /\ batch[b].pc \notin {"off", "new", "done"} => b \in keptBatches
             /\ batch[b].pc \in BatchPcs /\ batch[b].todo \subseteq InputRows
             /\ batch[b].row \in InputRows \cup {NoRow} /\ batch[b].tries \in 0 .. Delays
             /\ \A field \in {"created", "analyzed", "failed", "skipped"} : batch[b][field] \subseteq InputRows
             /\ \A flag \in {"preanalyze", "stop", "canceled", "stopped", "broken"} : batch[b][flag] \in BOOLEAN
  <2>1. batch[b] \in BatchRows /\ Placed(b, batch[b], jobs, keptBatches)
    BY BatchTyped DEF PreTyped
  <2> QED
    BY <2>1 DEF BatchRows, Placed
<1> QED
  BY <1>1 DEF PreTypeOK, PreTyped, StoreTyped

\* The jobs, the batch dictionaries and the pruned tables of services/jobs.py keep their
\* types: only rows with a text or link become jobs, what is classified, unsettled or
\* profiled is a job, and a batch under way is never pruned.
THEOREM PreTypesHold == PreSpec => []PreTypeOK
<1>1. PreInit => PreTyped
  BY PreStartTyped
<1>2. BatchInv /\ PreTyped /\ [PreNext]_preVars => PreTyped'
  BY PreTypesKeep
<1>3. BatchInv /\ PreTyped => PreTypeOK
  BY PreTypesFollow
<1> QED
  BY <1>1, <1>2, <1>3, BatchInvariance, PTL DEF PreSpec

HIDE PreanalysisAssumption DEF Batches

-----------------------------------------------------------------------------
(* Sessions: the inductive invariant *)

Pages == [shape : {"none", "own", "job"}, keyed : BOOLEAN, state : Sections, log : Seq(Events)]
Cursors == [on : Makers \cup {NoPage}, queue : Seq(Nat), seen : Nat, full : BOOLEAN, open : BOOLEAN]

SessionsTyped ==
  /\ jobRow \in JobRows
  /\ page \in [Makers -> Pages]
  /\ shelf \subseteq {m \in Makers : page[m].shape # "none"}
  /\ local \in [Threads -> Locals]
  /\ cursor \in [Streams -> Cursors]

\* A request that may still create its session has none yet.
Early == {"idle", "creating", "fresh", "opening"}
FreshHasNone == \A m \in Makers : local[m].pc \in Early => page[m].shape = "none"

\* A queue that has not overflowed continues what the client got up to the last event of
\* the log; one that has holds events of the log in their order.
InOrder(c, n) ==
  /\ Len(c.queue) <= QueueSize /\ c.seen <= n
  /\ \A k \in 1 .. Len(c.queue) : c.queue[k] > c.seen /\ c.queue[k] <= n
  /\ \A j, k \in 1 .. Len(c.queue) : j < k => c.queue[j] < c.queue[k]
  /\ ~c.full => /\ c.seen + Len(c.queue) = n
                /\ \A k \in 1 .. Len(c.queue) : c.queue[k] = c.seen + k

StreamsFit ==
  \A c \in Streams :
    /\ cursor[c].on = NoPage => cursor[c].seen = 0 /\ cursor[c].queue = <<>>
    /\ cursor[c].on # NoPage =>
         /\ page[cursor[c].on].shape # "none"
         /\ InOrder(cursor[c], Len(page[cursor[c].on].log))

SessionsInv == SessionsTyped /\ FreshHasNone /\ StreamsFit

ProductsKept == (jobRow.profile => jobRow'.profile) /\ (jobRow.gap => jobRow'.gap)

USE SessionsAssumption

-----------------------------------------------------------------------------
LEMMA NothingTyped == NoSections \in Sections /\ NoLocal \in Locals /\ NoMore \in Locals
<1>1. NoSections \in Sections
  BY DEF NoSections, Sections
<1>2. NoLocal \in Locals
  BY <1>1 DEF NoLocal, Locals, Places
<1>3. [NoLocal EXCEPT !.pc = "over"] \in Locals
  BY <1>2 DEF Locals, Places
<1> QED
  BY <1>1, <1>2, <1>3 DEF NoMore

LEMMA SessionsStart == ASSUME SessionsInit PROVE SessionsInv
<1>1. PICK mix \in SessionMixes :
       /\ local = [t \in Threads |-> IF t \in mix THEN NoLocal ELSE NoMore]
       /\ cursor = [c \in Streams |-> [on |-> NoPage, queue |-> <<>>, seen |-> 0,
                                       full |-> FALSE, open |-> c \in mix]]
  BY DEF SessionsInit
<1>2. local \in [Threads -> Locals]
  BY <1>1, NothingTyped
<1>3. cursor \in [Streams -> Cursors] /\ StreamsFit
  BY <1>1 DEF Cursors, StreamsFit
<1>4. EmptyPage \in Pages /\ EmptyPage.shape = "none"
  BY NothingTyped DEF EmptyPage, Pages
<1>5. page = [m \in Makers |-> EmptyPage] /\ shelf = {} /\ jobRow \in JobRows
  BY DEF SessionsInit, JobRows
<1> QED
  BY <1>2, <1>3, <1>4, <1>5 DEF SessionsInv, SessionsTyped, FreshHasNone

\* A step of one thread.
LEMMA ThreadStep ==
  ASSUME local \in [Threads -> Locals], NEW t \in Threads, NEW from, NEW to \in Places, NEW l \in Locals,
         GoWith(t, from, to, l), to \in Early => from \in Early
  PROVE  /\ local' \in [Threads -> Locals]
         /\ local'[t].pc = to
         /\ \A u \in Threads : u # t => local'[u] = local[u]
         /\ \A u \in Threads : local'[u].pc \in Early => local[u].pc \in Early
<1>1. [l EXCEPT !.pc = to] \in Locals /\ [l EXCEPT !.pc = to].pc = to
  BY DEF Locals
<1>2. NoMore \in Locals /\ NoMore.pc = "over"
  BY NothingTyped DEF NoMore, NoLocal
<1>3. PICK x \in Locals : local' = [local EXCEPT ![t] = x] /\ x.pc = to /\ local[t].pc = from
  BY <1>1, <1>2 DEF GoWith
<1> QED
  BY <1>3

LEMMA GoStep ==
  ASSUME local \in [Threads -> Locals], NEW t \in Threads, NEW from, NEW to \in Places,
         Go(t, from, to), to \in Early => from \in Early
  PROVE  /\ local' \in [Threads -> Locals]
         /\ local'[t].pc = to
         /\ \A u \in Threads : u # t => local'[u] = local[u]
         /\ \A u \in Threads : local'[u].pc \in Early => local[u].pc \in Early
BY ThreadStep DEF Go

-----------------------------------------------------------------------------
\* Threads move on, none back to where it may create.
ThreadsMove ==
  /\ local' \in [Threads -> Locals]
  /\ \A u \in Threads : local'[u].pc \in Early => local[u].pc \in Early

\* What appending does to a page and to a queue.
LEMMA PageAppended ==
  ASSUME NEW p \in Pages, NEW e \in Events
  PROVE  LET q == [p EXCEPT !.log = Append(@, e)]
         IN  q \in Pages /\ q.shape = p.shape /\ q.log = Append(p.log, e) /\ Len(q.log) = Len(p.log) + 1
<1>1. p.log \in Seq(Events)
  BY DEF Pages
<1>2. Append(p.log, e) \in Seq(Events) /\ Len(Append(p.log, e)) = Len(p.log) + 1
  BY <1>1
<1>3. PICK l : l = Append(p.log, e)
  OBVIOUS
<1>4. [p EXCEPT !.log = l] \in Pages /\ [p EXCEPT !.log = l].shape = p.shape /\ [p EXCEPT !.log = l].log = l
  BY <1>2, <1>3 DEF Pages
<1> QED
  BY <1>2, <1>3, <1>4

LEMMA QueueAppended ==
  ASSUME NEW c \in Cursors, NEW s \in Nat, InOrder(c, s - 1), NEW d,
         Len(c.queue) < QueueSize, d = [c EXCEPT !.queue = Append(@, s)]
  PROVE  d \in Cursors /\ InOrder(d, s) /\ d.on = c.on
<1>1. c.queue \in Seq(Nat) /\ c.seen \in Nat /\ c.full \in BOOLEAN
  BY DEF Cursors
<1>2. PICK q : q = Append(c.queue, s)
  OBVIOUS
<1>3. q \in Seq(Nat) /\ Len(q) = Len(c.queue) + 1 /\ q[Len(q)] = s
      /\ \A k \in 1 .. Len(c.queue) : q[k] = c.queue[k]
  BY <1>1, <1>2
<1>4. d = [c EXCEPT !.queue = q]
  BY <1>2
<1>5. d \in Cursors /\ d.queue = q /\ d.seen = c.seen /\ d.full = c.full /\ d.on = c.on
  BY <1>3, <1>4 DEF Cursors
<1>6. PICK n \in Nat : n = Len(c.queue) /\ Len(q) = n + 1
  <2>1. Len(c.queue) \in Nat
    BY <1>1
  <2> QED
    BY <1>3, <2>1
<1>s. PICK seen \in Nat : seen = c.seen
  BY <1>1
<1>f. PICK f : f = c.queue /\ seen = c.seen
  BY <1>s
<1>7. /\ seen <= s - 1
      /\ \A k \in 1 .. n : f[k] \in Nat /\ f[k] > seen /\ f[k] <= s - 1
      /\ \A i, k \in 1 .. n : i < k => f[i] < f[k]
      /\ ~c.full => seen + n = s - 1 /\ \A k \in 1 .. n : f[k] = seen + k
  BY <1>1, <1>6, <1>f DEF InOrder
<1>8. q[n + 1] = s /\ \A k \in 1 .. n : q[k] = f[k]
  BY <1>3, <1>6, <1>f
<1>9. /\ \A k \in 1 .. n + 1 : q[k] > seen /\ q[k] <= s
      /\ \A i, k \in 1 .. n + 1 : i < k => q[i] < q[k]
      /\ ~c.full => seen + (n + 1) = s /\ \A k \in 1 .. n + 1 : q[k] = seen + k
  <2>1. \A k \in 1 .. n + 1 : k = n + 1 \/ k \in 1 .. n
    OBVIOUS
  <2>2. \A k \in 1 .. n + 1 : q[k] \in Nat /\ q[k] > seen /\ q[k] <= s
    BY <1>7, <1>8, <2>1
  <2>3. ASSUME NEW i \in 1 .. n + 1, NEW k \in 1 .. n + 1, i < k PROVE q[i] < q[k]
    <3>1. i \in 1 .. n
      BY <2>3
    <3>2. CASE k = n + 1
      BY <1>7, <1>8, <3>1, <3>2
    <3>3. CASE k \in 1 .. n
      BY <1>7, <1>8, <2>3, <3>1, <3>3
    <3> QED
      BY <2>1, <3>2, <3>3
  <2>4. ASSUME ~c.full PROVE seen + (n + 1) = s /\ \A k \in 1 .. n + 1 : q[k] = seen + k
    <3>1. seen + n = s - 1 /\ \A k \in 1 .. n : f[k] = seen + k
      BY <1>7, <2>4
    <3>2. seen + (n + 1) = s
      BY <3>1
    <3> QED
      BY <1>8, <2>1, <3>1, <3>2
  <2> QED
    BY <2>2, <2>3, <2>4
<1>10. n + 1 <= QueueSize /\ c.seen <= s
  BY <1>1, <1>6 DEF InOrder
<1> QED
  BY <1>5, <1>6, <1>f, <1>9, <1>10 DEF InOrder

\* An event reaches the log and the queue of every stream on it.
LEMMA EmitKeeps ==
  ASSUME SessionsInv, ThreadsMove, jobRow' \in JobRows, NEW M \in SUBSET shelf, NEW e \in Events, Emit(M, e),
         UNCHANGED shelf
  PROVE  SessionsInv'
<1> USE DEF SessionsInv, SessionsTyped
<1>1. M \subseteq Makers /\ NoPage \notin M
  BY DEF Pages
<1>2. page' \in [Makers -> Pages] /\ \A m \in Makers :
        /\ page'[m].shape = page[m].shape
        /\ page'[m].log = IF m \in M THEN Append(page[m].log, e) ELSE page[m].log
        /\ Len(page'[m].log) = IF m \in M THEN Len(page[m].log) + 1 ELSE Len(page[m].log)
  BY PageAppended DEF Emit
<1>l. \A m \in Makers : Len(page[m].log) \in Nat
  BY DEF Pages
<1>3. ASSUME NEW c \in Streams
      PROVE  /\ cursor'[c] \in Cursors /\ cursor'[c].on = cursor[c].on
             /\ cursor[c].on \notin M => cursor'[c] = cursor[c]
             /\ cursor[c].on \in M => InOrder(cursor'[c], Len(page'[cursor[c].on].log))
  <2>1. CASE cursor[c].on \notin M
    BY <2>1 DEF Emit
  <2>2. CASE cursor[c].on \in M
    <3>1. PICK s \in Nat : s = Len(page[cursor[c].on].log) + 1
      BY <2>2, <1>1, <1>l
    <3>2. cursor'[c] = Delivered(cursor[c], s) /\ Len(page'[cursor[c].on].log) = s
      BY <2>2, <3>1, <1>1, <1>2 DEF Emit
    <3>3. cursor[c] \in Cursors /\ InOrder(cursor[c], s - 1)
      BY <2>2, <1>1, <1>l, <3>1 DEF StreamsFit
    <3>4. CASE Len(cursor[c].queue) < QueueSize
      BY <2>2, <3>2, <3>3, <3>4, QueueAppended DEF Delivered
    <3>5. CASE ~(Len(cursor[c].queue) < QueueSize)
      <4>1. cursor'[c] = [cursor[c] EXCEPT !.full = TRUE]
        BY <3>2, <3>5 DEF Delivered
      <4>2. /\ cursor'[c] \in Cursors /\ cursor'[c].queue = cursor[c].queue
            /\ cursor'[c].seen = cursor[c].seen /\ cursor'[c].full = TRUE /\ cursor'[c].on = cursor[c].on
        BY <3>3, <4>1 DEF Cursors
      <4>3. /\ cursor[c].queue \in Seq(Nat) /\ cursor[c].seen \in Nat
        BY <3>3 DEF Cursors
      <4>4. \A k \in 1 .. Len(cursor[c].queue) : cursor[c].queue[k] \in Nat
        BY <4>3
      <4>5. \A x \in Nat : x <= s - 1 => x <= s
        OBVIOUS
      <4>6. InOrder(cursor'[c], s)
        BY <3>3, <4>2, <4>3, <4>4, <4>5 DEF InOrder
      <4> QED
        BY <2>2, <3>2, <4>2, <4>6
    <3> QED
      BY <3>4, <3>5
  <2> QED
    BY <2>1, <2>2
<1>4. cursor' \in [Streams -> Cursors]
  BY <1>3 DEF Emit
<1>5. StreamsFit'
  <2> SUFFICES ASSUME NEW c \in Streams
               PROVE  /\ cursor'[c].on = NoPage => cursor'[c].seen = 0 /\ cursor'[c].queue = <<>>
                      /\ cursor'[c].on # NoPage =>
                           /\ page'[cursor'[c].on].shape # "none"
                           /\ InOrder(cursor'[c], Len(page'[cursor'[c].on].log))
    BY DEF StreamsFit
  <2>1. cursor[c].on \in Makers \cup {NoPage}
    BY DEF Cursors
  <2>2. CASE cursor[c].on \in M
    BY <1>1, <1>2, <1>3, <2>2 DEF StreamsFit
  <2>3. CASE cursor[c].on \notin M
    BY <1>2, <1>3, <2>1, <2>3 DEF StreamsFit
  <2> QED
    BY <2>2, <2>3
<1>6. FreshHasNone'
  BY <1>2 DEF FreshHasNone, ThreadsMove, Threads
<1> QED
  BY <1>2, <1>4, <1>5, <1>6 DEF ThreadsMove

\* Steps that add no event and leave the streams alone.
LEMMA QuietKeeps ==
  ASSUME SessionsInv, ThreadsMove, jobRow' \in JobRows, UNCHANGED cursor, shelf' \subseteq shelf,
         page' \in [Makers -> Pages],
         \A m \in Makers : page'[m].shape = page[m].shape /\ page'[m].log = page[m].log
  PROVE  SessionsInv'
<1> USE DEF SessionsInv, SessionsTyped
<1>1. FreshHasNone'
  BY DEF FreshHasNone, ThreadsMove, Threads
<1>2. StreamsFit'
  BY DEF StreamsFit, Cursors
<1> QED
  BY <1>1, <1>2 DEF ThreadsMove

-----------------------------------------------------------------------------
(* Local values *)

LEMMA RowReadTyped ==
  ASSUME SessionsTyped, NEW t \in Threads
  PROVE  RowRead(t) \in Locals /\ local[t] \in Locals
<1>1. local[t] \in Locals /\ jobRow.profile \in BOOLEAN /\ jobRow.gap \in BOOLEAN /\ jobRow.pending \in BOOLEAN
  BY DEF SessionsTyped, JobRows
<1>2. \A p, g, q \in BOOLEAN : [local[t] EXCEPT !.profile = p, !.jobGap = g, !.pending = q] \in Locals
  BY <1>1 DEF Locals
<1> QED
  BY <1>1, <1>2 DEF RowRead

LEMMA AnalysedTyped ==
  ASSUME NEW l \in Locals, NEW x \in Analysed(l)
  PROVE  x \in Locals
<1>1. PICK g \in BOOLEAN : x = [l EXCEPT !.profile = TRUE, !.gap = g]
  BY DEF Analysed
<1> QED
  BY <1>1 DEF Locals

\* What a thread that is to work on session m keeps.
LEMMA WorkTyped ==
  ASSUME NEW l \in Locals, NEW m \in Makers, NEW by \in {"own", "job"}
  PROVE  /\ \A p \in BOOLEAN : [l EXCEPT !.at = m, !.by = by, !.profile = p] \in Locals
         /\ [l EXCEPT !.at = m, !.by = by] \in Locals
         /\ [l EXCEPT !.at = m] \in Locals
         /\ \A s \in Sections : [l EXCEPT !.at = m, !.got = s] \in Locals
         /\ [NoLocal EXCEPT !.at = l.at, !.by = l.by] \in Locals
         /\ \A g \in BOOLEAN : [l EXCEPT !.jobGap = g] \in Locals
BY NothingTyped DEF Locals

LEMMA RowTyped ==
  ASSUME NEW r \in JobRows, NEW p \in BOOLEAN, NEW g \in BOOLEAN
  PROVE  /\ WithProducts(r, p, g) \in JobRows
         /\ [WithProducts(r, p, g) EXCEPT !.pending = FALSE] \in JobRows
         /\ [r EXCEPT !.stored = TRUE] \in JobRows
         /\ [r EXCEPT !.pending = FALSE] \in JobRows
         /\ r.profile => /\ WithProducts(r, p, g).profile
                         /\ [WithProducts(r, p, g) EXCEPT !.pending = FALSE].profile
         /\ r.gap => /\ WithProducts(r, p, g).gap
                     /\ [WithProducts(r, p, g) EXCEPT !.pending = FALSE].gap
BY DEF JobRows, WithProducts

LEMMA ShelvedThere ==
  ASSUME SessionsTyped, NEW t \in Threads
  PROVE  Here(t) \subseteq shelf /\ shelf \subseteq Makers
BY DEF SessionsTyped, Here, Lookup

-----------------------------------------------------------------------------
(* The steps that move a thread and leave sessions and streams alone *)

QuietSteps(t) ==
  \/ InitFind(t) \/ InitCreateJob(t) \/ Refused(t) \/ StartPipeline(t) \/ OpenFind(t) \/ AnalyzeTest(t)
  \/ ReadRow(t) \/ Persist(t) \/ Raise(t) \/ PreRead(t) \/ PreCall(t) \/ PreSave(t) \/ PollBody(t) \/ PollTag(t)

LEMMA QuietMove ==
  ASSUME SessionsInv, NEW t \in Threads, QuietSteps(t)
  PROVE  /\ ThreadsMove /\ jobRow' \in JobRows /\ UNCHANGED <<page, shelf, cursor>>
         /\ ProductsKept
<1> USE DEF SessionsInv
<1>l. local \in [Threads -> Locals] /\ local[t] \in Locals /\ RowRead(t) \in Locals /\ jobRow \in JobRows
  BY RowReadTyped DEF SessionsTyped
<1>1. UNCHANGED <<page, shelf, cursor>>
  BY DEF QuietSteps, InitFind, InitCreateJob, Refused, StartPipeline, OpenFind, AnalyzeTest, ReadRow, Persist,
     Raise, PreRead, PreCall, PreSave, PollBody, PollTag
<1>2. jobRow' \in JobRows /\ ProductsKept
  <2>1. CASE UNCHANGED jobRow
    BY <1>l, <2>1 DEF ProductsKept
  <2>2. CASE InitCreateJob(t)
    BY <1>l, <2>2, RowTyped DEF InitCreateJob, ProductsKept, JobRows
  <2>3. CASE Persist(t) \/ PreSave(t)
    <3>1. local[t].profile \in BOOLEAN /\ local[t].gap \in BOOLEAN
      BY <1>l DEF Locals
    <3>2. CASE jobRow' = WithProducts(jobRow, local[t].profile, local[t].gap)
      BY <1>l, <3>1, <3>2, RowTyped DEF ProductsKept
    <3>3. CASE jobRow' = [WithProducts(jobRow, local[t].profile, local[t].gap) EXCEPT !.pending = FALSE]
      BY <1>l, <3>1, <3>3, RowTyped DEF ProductsKept
    <3>4. CASE UNCHANGED jobRow
      BY <2>1, <3>4
    <3> QED
      BY <2>3, <3>2, <3>3, <3>4 DEF Persist, PreSave
  <2> QED
    BY <2>1, <2>2, <2>3 DEF QuietSteps, InitFind, Refused, StartPipeline, OpenFind, AnalyzeTest, ReadRow,
       Raise, PreRead, PreCall, PollBody, PollTag
<1>3. ThreadsMove
  <2> USE DEF ThreadsMove, Places, Early
  <2>1. CASE InitFind(t)
    BY <1>l, <2>1, GoStep DEF InitFind
  <2>2. CASE InitCreateJob(t) \/ OpenFind(t) \/ ReadRow(t)
    BY <1>l, <2>2, ThreadStep DEF InitCreateJob, OpenFind, ReadRow
  <2>3. CASE Refused(t) \/ PollTag(t)
    BY <1>l, <2>3, GoStep DEF Refused, PollTag
  <2>4. CASE StartPipeline(t)
    <3>1. [NoLocal EXCEPT !.at = local[t].at, !.by = local[t].by] \in Locals
      BY <1>l, NothingTyped DEF Locals
    <3> QED
      BY <1>l, <2>4, <3>1, ThreadStep DEF StartPipeline
  <2>5. CASE AnalyzeTest(t)
    <3>1. PICK m \in shelf :
            GoWith(t, "idle", IF page[m].state.jd # "queued" /\ StagePending(page[m].state) THEN "marking" ELSE "over",
                   [local[t] EXCEPT !.at = m, !.by = page[m].shape, !.profile = page[m].state.profile])
      BY <2>5 DEF AnalyzeTest
    <3>2. m \in Makers /\ page[m].shape \in {"own", "job"} /\ page[m].state.profile \in BOOLEAN
      BY DEF SessionsTyped, Pages, Sections
    <3>3. [local[t] EXCEPT !.at = m, !.by = page[m].shape, !.profile = page[m].state.profile] \in Locals
      BY <1>l, <3>2, WorkTyped
    <3> QED
      BY <1>l, <3>1, <3>3, ThreadStep
  <2>6. CASE Persist(t) \/ PreSave(t)
    <3>1. [local[t] EXCEPT !.jobGap = jobRow'.gap] \in Locals
      BY <1>l, <1>2 DEF Locals, JobRows
    <3> QED
      BY <1>l, <2>6, <3>1, ThreadStep DEF Persist, PreSave
  <2>7. CASE Raise(t)
    BY <1>l, <2>7, GoStep DEF Raise
  <2>8. CASE PreRead(t)
    <3>1. [RowRead(t) EXCEPT !.profile = @ /\ ~jobRow.pending] \in Locals
      BY <1>l DEF Locals
    <3>2. PICK to \in {"over", "calling"} : GoWith(t, "idle", to, [RowRead(t) EXCEPT !.profile = @ /\ ~jobRow.pending])
      BY <2>8 DEF PreRead
    <3>q. to \in Places /\ to \notin Early
      BY <3>1, <3>2
    <3> HIDE DEF Places, Early
    <3> QED
      BY <1>l, <3>1, <3>2, <3>q, ThreadStep
  <2>9. CASE PreCall(t)
    <3>1. PICK to \in {"saving", "over"}, l \in Analysed(local[t]) : GoWith(t, "calling", to, l)
      BY <2>9 DEF PreCall
    <3>2. l \in Locals
      BY <1>l, AnalysedTyped
    <3>q. to \in Places /\ to \notin Early
      BY <3>1, <3>2
    <3> HIDE DEF Places, Early
    <3> QED
      BY <1>l, <3>1, <3>2, <3>q, ThreadStep
  <2>10. CASE PollBody(t)
    <3>1. PICK m \in shelf : GoWith(t, "idle", "tag", [local[t] EXCEPT !.at = m, !.got = page[m].state])
      BY <2>10 DEF PollBody
    <3>2. m \in Makers /\ page[m].state \in Sections
      BY DEF SessionsTyped, Pages
    <3>3. [local[t] EXCEPT !.at = m, !.got = page[m].state] \in Locals
      BY <1>l, <3>2, WorkTyped
    <3> QED
      BY <1>l, <3>1, <3>3, ThreadStep
  <2> QED
    BY <2>1, <2>2, <2>3, <2>4, <2>5, <2>6, <2>7, <2>8, <2>9, <2>10 DEF QuietSteps
<1> QED
  BY <1>1, <1>2, <1>3

-----------------------------------------------------------------------------
(* The steps that emit an event *)

EmitSteps(t, M, e) ==
  /\ Emit(M, e) /\ UNCHANGED shelf
  /\ \/ /\ M = Here(t) /\ e = "stage"
        /\ InitEmit(t) \/ Begin(t) \/ Analyse(t) \/ (Classify(t) /\ UNCHANGED jobRow)
     \/ M = Here(t) /\ e = "gap_ready" /\ (Announce(t) \/ PreTell(t))
     \/ M = Here(t) /\ e = "error" /\ FailEvent(t)

LEMMA EmitMove ==
  ASSUME SessionsInv, NEW t \in Threads, NEW M, NEW e, EmitSteps(t, M, e)
  PROVE  SessionsInv' /\ ProductsKept
<1>l. local \in [Threads -> Locals] /\ local[t] \in Locals /\ jobRow \in JobRows
  BY RowReadTyped DEF SessionsTyped, SessionsInv
<1>1. M \in SUBSET shelf /\ e \in Events /\ UNCHANGED <<jobRow, shelf>>
  BY ShelvedThere DEF SessionsInv, EmitSteps, Events, InitEmit, Begin, Analyse, Announce, PreTell, FailEvent
<1>2. ThreadsMove
  <2> USE DEF ThreadsMove, Places, Early
  <2>1. CASE Analyse(t)
    <3>1. PICK l \in Analysed(local[t]) : GoWith(t, "analyse", "persist", l)
      BY <2>1 DEF Analyse
    <3>2. l \in Locals
      BY <1>l, AnalysedTyped
    <3> QED
      BY <1>l, <3>1, <3>2, ThreadStep
  <2>2. CASE InitEmit(t) \/ Begin(t)
    BY <1>l, <2>2, GoStep DEF InitEmit, Begin
  <2>3. CASE Classify(t)
    BY <1>l, <2>3, GoStep DEF Classify
  <2>4. CASE Announce(t) \/ PreTell(t) \/ FailEvent(t)
    BY <1>l, <2>4, GoStep DEF Announce, PreTell, FailEvent
  <2> QED
    BY <2>1, <2>2, <2>3, <2>4 DEF EmitSteps
<1>3. jobRow' \in JobRows /\ ProductsKept
  BY <1>l, <1>1 DEF ProductsKept
<1> QED
  BY <1>1, <1>2, <1>3, EmitKeeps DEF EmitSteps

-----------------------------------------------------------------------------
(* The steps that write the sections of a session *)

\* Patching the sections of sessions keeps their shapes and logs.
LEMMA PatchedPages ==
  ASSUME SessionsInv, ThreadsMove, UNCHANGED <<jobRow, shelf, cursor>>, NEW M, NEW f,
         \A m \in Makers : f[m] \in Sections,
         page' = [m \in Makers |-> IF m \in M THEN [page[m] EXCEPT !.state = f[m]] ELSE page[m]]
  PROVE  SessionsInv'
<1>1. \A p \in Pages, s \in Sections :
        /\ [p EXCEPT !.state = s] \in Pages
        /\ [p EXCEPT !.state = s].shape = p.shape /\ [p EXCEPT !.state = s].log = p.log
  BY DEF Pages
<1>2. page \in [Makers -> Pages] /\ jobRow' \in JobRows
  BY DEF SessionsInv, SessionsTyped
<1>3. page' \in [Makers -> Pages]
  BY <1>1, <1>2
<1>4. \A m \in Makers : page'[m].shape = page[m].shape /\ page'[m].log = page[m].log
  BY <1>1, <1>2
<1> QED
  BY <1>2, <1>3, <1>4, QuietKeeps

LEMMA ReadyTyped ==
  ASSUME NEW l \in Locals, NEW s \in Sections
  PROVE  Ready(l, s) \in Sections
<1>1. l.profile \in BOOLEAN /\ l.gap \in BOOLEAN /\ l.jobGap \in BOOLEAN
  BY DEF Locals
<1>2. \A p, g, h \in BOOLEAN, q \in {"ready", "blocked"} :
        [s EXCEPT !.status = "ready", !.jd = "ready", !.profile = p, !.gap = g, !.gapStatus = q, !.jobGap = h]
          \in Sections
  BY DEF Sections
<1>3. (IF l.gap THEN "ready" ELSE "blocked") \in {"ready", "blocked"}
  OBVIOUS
<1> QED
  BY <1>1, <1>2, <1>3 DEF Ready

LEMMA UpdateMove ==
  ASSUME SessionsInv, NEW t \in Threads,
         \/ AnalyzeMark(t) \/ Publish(t) \/ FailSession(t)
         \/ \E m \in FindByJob : PreSync(t) /\ Update({m}, LAMBDA s : Ready(local[t], s))
              /\ GoWith(t, "syncing", "telling", [local[t] EXCEPT !.at = m, !.by = page[m].shape])
  PROVE  SessionsInv' /\ ProductsKept
<1>l. local \in [Threads -> Locals] /\ local[t] \in Locals /\ page \in [Makers -> Pages]
  BY RowReadTyped DEF SessionsTyped, SessionsInv
<1>s. \A m \in Makers : page[m].state \in Sections
  BY <1>l DEF Pages
<1>1. UNCHANGED <<jobRow, shelf, cursor>>
  BY DEF AnalyzeMark, Publish, FailSession, PreSync, Update
<1>2. CASE AnalyzeMark(t)
  <2>1. PICK f : f = [m \in Makers |-> [page[m].state EXCEPT !.profile = local[t].profile, !.jd = "queued",
                                          !.gap = FALSE, !.gapStatus = "queued"]]
    OBVIOUS
  <2>2. local[t].profile \in BOOLEAN
    BY <1>l DEF Locals
  <2>3. \A s \in Sections, p \in BOOLEAN :
          [s EXCEPT !.profile = p, !.jd = "queued", !.gap = FALSE, !.gapStatus = "queued"] \in Sections
    BY DEF Sections
  <2>4. \A m \in Makers : f[m] \in Sections
    BY <1>s, <2>1, <2>2, <2>3
  <2>5. page' = [m \in Makers |-> IF m \in Here(t) THEN [page[m] EXCEPT !.state = f[m]] ELSE page[m]]
    BY <1>2, <2>1 DEF AnalyzeMark, Update
  <2>6. ThreadsMove
    BY <1>2, <1>l, GoStep DEF AnalyzeMark, ThreadsMove, Places, Early
  <2> QED
    BY <1>1, <2>4, <2>5, <2>6, PatchedPages DEF ProductsKept, SessionsInv, SessionsTyped, JobRows
<1>3. CASE FailSession(t)
  <2>1. PICK f : f = [m \in Makers |-> [page[m].state EXCEPT !.status = "failed", !.jd = "failed",
                                          !.profile = FALSE]]
    OBVIOUS
  <2>3. \A s \in Sections :
          [s EXCEPT !.status = "failed", !.jd = "failed", !.profile = FALSE] \in Sections
    BY DEF Sections
  <2>4. \A m \in Makers : f[m] \in Sections
    BY <1>s, <2>1, <2>3
  <2>5. page' = [m \in Makers |-> IF m \in Here(t) THEN [page[m] EXCEPT !.state = f[m]] ELSE page[m]]
    BY <1>3, <2>1 DEF FailSession, Update
  <2>6. ThreadsMove
    BY <1>3, <1>l, GoStep DEF FailSession, ThreadsMove, Places, Early
  <2> QED
    BY <1>1, <2>4, <2>5, <2>6, PatchedPages DEF ProductsKept, SessionsInv, SessionsTyped, JobRows
<1>4. CASE Publish(t) \/ \E m \in FindByJob : PreSync(t) /\ Update({m}, LAMBDA s : Ready(local[t], s))
              /\ GoWith(t, "syncing", "telling", [local[t] EXCEPT !.at = m, !.by = page[m].shape])
  <2>1. PICK f : f = [m \in Makers |-> Ready(local[t], page[m].state)]
    OBVIOUS
  <2>4. \A m \in Makers : f[m] \in Sections
    BY <1>s, <1>l, <2>1, ReadyTyped
  <2>5. \E M : page' = [m \in Makers |-> IF m \in M THEN [page[m] EXCEPT !.state = f[m]] ELSE page[m]]
    BY <1>4, <2>1 DEF Publish, Update
  <2>6. ThreadsMove
    <3> USE DEF ThreadsMove, Places, Early
    <3>1. CASE Publish(t)
      BY <3>1, <1>l, GoStep DEF Publish
    <3>2. ASSUME NEW m \in FindByJob,
                 GoWith(t, "syncing", "telling", [local[t] EXCEPT !.at = m, !.by = page[m].shape])
          PROVE  ThreadsMove
      <4>1. m \in Makers /\ page[m].shape \in {"own", "job"}
        BY DEF SessionsInv, SessionsTyped, Pages, FindByJob
      <4>2. [local[t] EXCEPT !.at = m, !.by = page[m].shape] \in Locals
        BY <1>l, <4>1, WorkTyped
      <4> QED
        BY <1>l, <3>2, <4>2, ThreadStep
    <3> QED
      BY <1>4, <3>1, <3>2
  <2> QED
    BY <1>1, <2>4, <2>5, <2>6, PatchedPages DEF ProductsKept, SessionsInv, SessionsTyped, JobRows
<1> QED
  BY <1>2, <1>3, <1>4

-----------------------------------------------------------------------------
(* The steps that create a session *)

LEMMA EmptyLog == <<>> \in Seq(Events)
OBVIOUS

LEMMA CreateMove ==
  ASSUME SessionsInv, NEW m \in Makers, InitRegister(m) \/ OpenCreate(m)
  PROVE  SessionsInv' /\ ProductsKept
<1>l. local \in [Threads -> Locals] /\ m \in Threads /\ local[m] \in Locals /\ page \in [Makers -> Pages]
  BY RowReadTyped DEF SessionsTyped, SessionsInv, Threads
<1>1. PICK new : new.shape \in {"own", "job"} /\ new \in Pages /\ page' = [page EXCEPT ![m] = new]
  <2>1. CASE InitRegister(m)
    <3>1. PICK st \in Sections : st = [NoSections EXCEPT !.gapStatus = IF HasResume THEN "queued" ELSE "blocked"]
      BY NothingTyped DEF Sections
    <3>2. PICK new : new = [shape |-> "own", keyed |-> TRUE, log |-> <<>>, state |-> st]
      OBVIOUS
    <3>3. new \in Pages /\ new.shape = "own"
      BY <3>1, <3>2, EmptyLog DEF Pages
    <3>4. page' = [page EXCEPT ![m] = new]
      BY <2>1, <3>1, <3>2 DEF InitRegister
    <3> QED
      BY <3>3, <3>4
  <2>2. CASE OpenCreate(m)
    <3>1. PICK st \in Sections : st = SectionsFromJob(local[m])
      BY <1>l, NothingTyped DEF Sections, SectionsFromJob, Locals
    <3>2. PICK new : new = [shape |-> "job", keyed |-> FALSE, log |-> <<>>, state |-> st]
      OBVIOUS
    <3>3. new \in Pages /\ new.shape = "job"
      BY <3>1, <3>2, EmptyLog DEF Pages
    <3>4. page' = [page EXCEPT ![m] = new]
      BY <2>2, <3>1, <3>2 DEF OpenCreate
    <3> QED
      BY <3>3, <3>4
  <2> QED
    BY <2>1, <2>2
<1>2. UNCHANGED <<jobRow, cursor>> /\ shelf' \subseteq shelf \cup {m} /\ local[m].pc \in Early
  BY DEF InitRegister, OpenCreate, Shelved, Go, GoWith, Early
<1>3. page[m].shape = "none" /\ \A c \in Streams : cursor[c].on # m
  <2>1. page[m].shape = "none"
    BY <1>2 DEF SessionsInv, FreshHasNone
  <2> QED
    BY <2>1 DEF SessionsInv, StreamsFit
<1>4. ThreadsMove /\ local'[m].pc \notin Early
  <2> USE DEF ThreadsMove, Places, Early
  <2>1. CASE InitRegister(m)
    <3>1. [local[m] EXCEPT !.at = m] \in Locals
      BY <1>l, WorkTyped
    <3> QED
      BY <1>l, <2>1, <3>1, ThreadStep DEF InitRegister
  <2>2. CASE OpenCreate(m)
    BY <1>l, <2>2, GoStep DEF OpenCreate
  <2> QED
    BY <2>1, <2>2
<1>5. page' \in [Makers -> Pages] /\ \A n \in Makers : n # m => page'[n] = page[n]
  BY <1>1, <1>l
<1>6. SessionsTyped'
  BY <1>1, <1>2, <1>4, <1>5 DEF SessionsInv, SessionsTyped, ThreadsMove
<1>7. FreshHasNone'
  BY <1>4, <1>5 DEF SessionsInv, FreshHasNone, ThreadsMove, Threads
<1>8. StreamsFit'
  BY <1>2, <1>3, <1>5 DEF SessionsInv, SessionsTyped, StreamsFit, Cursors
<1> QED
  BY <1>2, <1>6, <1>7, <1>8 DEF SessionsInv, ProductsKept, SessionsTyped, JobRows

-----------------------------------------------------------------------------
(* The steps of a stream *)

LEMMA StreamMove ==
  ASSUME SessionsInv, NEW c \in Streams, Subscribe(c) \/ NextItem(c)
  PROVE  SessionsInv' /\ ProductsKept
<1>1. UNCHANGED <<jobRow, page, shelf, local>> /\ cursor[c] \in Cursors /\ cursor \in [Streams -> Cursors]
  BY DEF Subscribe, NextItem, SessionsInv, SessionsTyped
<1>2. PICK d \in Cursors :
        /\ cursor' = [cursor EXCEPT ![c] = d] /\ d.on \in Makers
        /\ page[d.on].shape # "none" /\ InOrder(d, Len(page[d.on].log))
  <2>1. CASE Subscribe(c)
    <3>1. PICK m \in shelf :
            /\ cursor[c].on = NoPage
            /\ cursor' = [cursor EXCEPT ![c].on = m, ![c].queue = Replay(Len(page[m].log)),
                                        ![c].full = Len(page[m].log) > QueueSize]
      BY <2>1 DEF Subscribe
    <3>2. m \in Makers /\ page[m].shape # "none" /\ page[m].log \in Seq(Events)
      BY DEF SessionsInv, SessionsTyped, Pages
    <3>3. PICK n \in Nat : n = Len(page[m].log)
      BY <3>2
    <3>4. PICK q : q = Replay(n)
      OBVIOUS
    <3>5. PICK b \in BOOLEAN : b = (n > QueueSize) /\ (b <=> n > QueueSize)
      <4>1. CASE n > QueueSize
        <5>1. (n > QueueSize) = TRUE
          BY <4>1
        <5> QED
          BY <5>1, <4>1, Zenon
      <4>2. CASE ~(n > QueueSize)
        <5>1. (n > QueueSize) = FALSE
          BY <4>2
        <5> QED
          BY <5>1, <4>2, Zenon
      <4> QED
        BY <4>1, <4>2
    <3>6. q = [k \in 1 .. (IF n <= QueueSize THEN n ELSE QueueSize) |-> k]
      BY <3>4 DEF Replay
    <3>7. PICK l \in Nat : l = IF n <= QueueSize THEN n ELSE QueueSize
      BY <3>3
    <3>8. q \in Seq(Nat) /\ Len(q) = l /\ \A k \in 1 .. l : q[k] = k
      BY <3>6, <3>7
    <3>9. cursor' = [cursor EXCEPT ![c].on = m, ![c].queue = q, ![c].full = b]
      BY <3>1, <3>3, <3>4, <3>5
    <3>10. PICK d : d = [cursor[c] EXCEPT !.on = m, !.queue = q, !.full = b]
      OBVIOUS
    <3>11. cursor' = [cursor EXCEPT ![c] = d]
      BY <1>1, <3>9, <3>10
    <3>12. d \in Cursors /\ d.on = m /\ d.queue = q /\ d.full = b /\ d.seen = cursor[c].seen
      BY <1>1, <3>2, <3>8, <3>10 DEF Cursors
    <3>13. d.seen = 0
      BY <3>1, <3>12 DEF SessionsInv, StreamsFit
    <3>14. /\ l <= QueueSize /\ 0 <= n /\ (~(n > QueueSize) => l = n)
           /\ \A k \in 1 .. l : k > 0 /\ k <= n
      BY <3>3, <3>7
    <3>15. InOrder(d, n)
      <4>1. \A k \in 1 .. l : q[k] = k /\ k > 0 /\ k <= n
        BY <3>8, <3>14
      <4>2. \A j, k \in 1 .. l : j < k => q[j] < q[k]
        BY <4>1
      <4>3. ~b => 0 + l = n /\ \A k \in 1 .. l : q[k] = 0 + k
        BY <3>5, <3>7, <3>14, <4>1
      <4>4. l = Len(d.queue) /\ d.queue = q /\ d.full = b /\ d.seen = 0
        BY <3>8, <3>12, <3>13
      <4> QED
        BY <3>14, <4>1, <4>2, <4>3, <4>4 DEF InOrder
    <3> QED
      BY <3>2, <3>3, <3>11, <3>12, <3>15
  <2>2. CASE NextItem(c)
    <3>1. /\ cursor[c].queue # <<>> /\ cursor[c].on # NoPage /\ cursor[c].on \in Makers
          /\ page[cursor[c].on].shape # "none"
      BY <1>1, <2>2 DEF NextItem, SessionsInv, StreamsFit, Cursors
    <3>2. page[cursor[c].on].log \in Seq(Events)
      BY <3>1 DEF SessionsInv, SessionsTyped, Pages
    <3>3. PICK n \in Nat : n = Len(page[cursor[c].on].log)
      BY <3>2
    <3>4. InOrder(cursor[c], n) /\ cursor[c].queue \in Seq(Nat)
      BY <1>1, <3>1, <3>3 DEF SessionsInv, StreamsFit, Cursors
    <3>5. PICK q, d : q = Tail(cursor[c].queue) /\ d = [cursor[c] EXCEPT !.queue = q, !.seen = Head(cursor[c].queue)]
      OBVIOUS
    <3>6. cursor' = [cursor EXCEPT ![c] = d]
      BY <1>1, <2>2, <3>5 DEF NextItem
    <3>7. /\ q \in Seq(Nat) /\ Len(q) = Len(cursor[c].queue) - 1 /\ Len(cursor[c].queue) \in Nat \ {0}
          /\ \A k \in 1 .. Len(q) : q[k] = cursor[c].queue[k + 1]
          /\ Head(cursor[c].queue) = cursor[c].queue[1] /\ cursor[c].queue[1] \in Nat
      BY <3>1, <3>4, <3>5
    <3>8. /\ d \in Cursors /\ d.on = cursor[c].on /\ d.queue = q /\ d.full = cursor[c].full
          /\ d.seen = cursor[c].queue[1]
      BY <1>1, <3>5, <3>7 DEF Cursors
    <3>9. PICK l \in Nat : Len(cursor[c].queue) = l + 1 /\ Len(q) = l
      BY <3>7
    <3>10. PICK f, seen : f = cursor[c].queue /\ seen = cursor[c].seen
      OBVIOUS
    <3>11. /\ l + 1 <= QueueSize /\ seen \in Nat
           /\ \A k \in 1 .. l + 1 : f[k] > seen /\ f[k] <= n
           /\ \A j, k \in 1 .. l + 1 : j < k => f[j] < f[k]
           /\ ~cursor[c].full => seen + (l + 1) = n /\ \A k \in 1 .. l + 1 : f[k] = seen + k
      BY <1>1, <3>4, <3>9, <3>10 DEF InOrder, Cursors
    <3>12. (\A k \in 1 .. l : q[k] = f[k + 1]) /\ d.seen = f[1]
      BY <3>7, <3>8, <3>9, <3>10
    <3>13. 1 \in 1 .. l + 1 /\ \A k \in 1 .. l : k + 1 \in 1 .. l + 1 /\ 1 < k + 1
      OBVIOUS
    <3>14. l <= QueueSize /\ f[1] <= n
      BY <3>11, <3>13
    <3>15. \A k \in 1 .. l : q[k] > f[1] /\ q[k] <= n
      <4> SUFFICES ASSUME NEW k \in 1 .. l PROVE q[k] > f[1] /\ q[k] <= n
        OBVIOUS
      <4>1. f[1] < f[k + 1] /\ f[k + 1] <= n
        BY <3>11, <3>13
      <4>2. q[k] = f[k + 1]
        BY <3>12
      <4> QED
        BY <4>1, <4>2
    <3>16. \A j, k \in 1 .. l : j < k => q[j] < q[k]
      <4> SUFFICES ASSUME NEW j \in 1 .. l, NEW k \in 1 .. l, j < k PROVE q[j] < q[k]
        OBVIOUS
      <4>1. j + 1 \in 1 .. l + 1 /\ k + 1 \in 1 .. l + 1 /\ j + 1 < k + 1
        OBVIOUS
      <4>2. f[j + 1] < f[k + 1]
        BY <3>11, <4>1
      <4> QED
        BY <3>12, <4>2
    <3>17. ASSUME ~cursor[c].full PROVE f[1] + l = n /\ \A k \in 1 .. l : q[k] = f[1] + k
      <4>1. seen + (l + 1) = n /\ f[1] = seen + 1 /\ \A k \in 1 .. l : f[k + 1] = seen + (k + 1)
        BY <3>11, <3>13, <3>17
      <4>2. f[1] + l = n
        BY <3>11, <4>1
      <4> QED
        BY <3>11, <3>12, <4>1, <4>2
    <3>18. InOrder(d, n)
      BY <3>8, <3>9, <3>12, <3>14, <3>15, <3>16, <3>17 DEF InOrder
    <3> QED
      BY <3>1, <3>3, <3>6, <3>8, <3>18
  <2> QED
    BY <2>1, <2>2
<1>3. StreamsFit'
  BY <1>1, <1>2 DEF SessionsInv, StreamsFit
<1> QED
  BY <1>1, <1>2, <1>3 DEF SessionsInv, SessionsTyped, FreshHasNone, ProductsKept, JobRows

-----------------------------------------------------------------------------
(* Every step *)

LEMMA SessionsKeep ==
  ASSUME SessionsInv, [SessionsNext]_sessionVars
  PROVE  SessionsInv' /\ ProductsKept
<1>1. Inits \subseteq Threads /\ Opens \subseteq Threads /\ Analyses \subseteq Threads /\ Starters \subseteq Threads
      /\ Preanalyses \subseteq Threads /\ Polls \subseteq Threads /\ Makers \subseteq Threads /\ Inits \subseteq Makers
  BY DEF Threads, Makers, Starters
<1>2. ASSUME NEW t \in Threads, QuietSteps(t) PROVE SessionsInv' /\ ProductsKept
  <2>1. /\ ThreadsMove /\ jobRow' \in JobRows /\ UNCHANGED <<page, shelf, cursor>>
        /\ ProductsKept
    BY <1>2, QuietMove
  <2>2. page' \in [Makers -> Pages] /\ shelf' \subseteq shelf
    BY <2>1 DEF SessionsInv, SessionsTyped
  <2> QED
    BY <2>1, <2>2, QuietKeeps
<1>3. ASSUME NEW t \in Threads,
             \/ InitEmit(t) \/ Begin(t) \/ Analyse(t) \/ Announce(t) \/ PreTell(t) \/ FailEvent(t)
      PROVE SessionsInv' /\ ProductsKept
  <2>1. \E M, e : EmitSteps(t, M, e)
    BY <1>3 DEF EmitSteps, InitEmit, Begin, Analyse, Announce, PreTell, FailEvent
  <2> QED
    BY <2>1, EmitMove
<1>4. ASSUME NEW t \in Threads, Classify(t) PROVE SessionsInv' /\ ProductsKept
  <2>1. CASE UNCHANGED <<page, cursor>>
    <3>1. local \in [Threads -> Locals] /\ page \in [Makers -> Pages] /\ jobRow \in JobRows
      BY DEF SessionsInv, SessionsTyped
    <3>2. ThreadsMove
      BY <1>4, <3>1, GoStep DEF Classify, ThreadsMove, Places, Early
    <3>3. UNCHANGED <<page, shelf, cursor>> /\ (UNCHANGED jobRow \/ jobRow' = [jobRow EXCEPT !.pending = FALSE])
      BY <1>4, <2>1 DEF Classify
    <3>4. jobRow' \in JobRows /\ ProductsKept
      BY <3>1, <3>3 DEF JobRows, ProductsKept
    <3> QED
      BY <3>1, <3>2, <3>3, <3>4, QuietKeeps
  <2>2. CASE ~UNCHANGED <<page, cursor>>
    <3>1. EmitSteps(t, Here(t), "stage")
      BY <1>4, <2>2 DEF Classify, EmitSteps
    <3> QED
      BY <3>1, EmitMove
  <2> QED
    BY <2>1, <2>2
<1>5. ASSUME NEW t \in Threads, AnalyzeMark(t) \/ Publish(t) \/ FailSession(t) PROVE SessionsInv' /\ ProductsKept
  BY <1>5, UpdateMove
<1>6. ASSUME NEW t \in Threads, PreSync(t) PROVE SessionsInv' /\ ProductsKept
  <2>1. CASE UNCHANGED <<page, cursor>> /\ Go(t, "syncing", "over")
    <3>1. local \in [Threads -> Locals] /\ page \in [Makers -> Pages] /\ jobRow \in JobRows
      BY DEF SessionsInv, SessionsTyped
    <3>2. ThreadsMove
      BY <2>1, <3>1, GoStep DEF ThreadsMove, Places, Early
    <3>3. UNCHANGED <<page, shelf, cursor, jobRow>>
      BY <1>6, <2>1 DEF PreSync
    <3> QED
      BY <3>1, <3>2, <3>3, QuietKeeps DEF ProductsKept, JobRows
  <2>2. CASE \E m \in FindByJob : Update({m}, LAMBDA s : Ready(local[t], s))
              /\ GoWith(t, "syncing", "telling", [local[t] EXCEPT !.at = m, !.by = page[m].shape])
    BY <1>6, <2>2, UpdateMove
  <2> QED
    BY <1>6, <2>1, <2>2 DEF PreSync
<1>7. ASSUME NEW m \in Makers, Prune(m) PROVE SessionsInv' /\ ProductsKept
  BY <1>7 DEF Prune, SessionsInv, SessionsTyped, FreshHasNone, StreamsFit, ProductsKept, JobRows
<1>8. CASE UNCHANGED sessionVars
  BY <1>8 DEF sessionVars, SessionsInv, SessionsTyped, FreshHasNone, StreamsFit, ProductsKept, JobRows
<1>9. CASE SessionsNext
  <2>1. CASE \E i \in Inits : InitSteps(i)
    BY <2>1, <1>1, <1>2, <1>3, CreateMove DEF InitSteps, QuietSteps
  <2>2. CASE (\E q \in Opens : OpenFind(q)) \/ (\E m \in Makers : OpenCreate(m)) \/ (\E m \in Makers : Prune(m))
    BY <2>2, <1>1, <1>2, <1>7, CreateMove DEF QuietSteps
  <2>3. CASE (\E a \in Analyses : AnalyzeTest(a) \/ AnalyzeMark(a)) \/ (\E r \in Polls : PollBody(r) \/ PollTag(r))
    BY <2>3, <1>1, <1>2, <1>5 DEF QuietSteps
  <2>4. CASE \E t \in Starters : Refused(t) \/ StartPipeline(t) \/ PipelineSteps(t)
    BY <2>4, <1>1, <1>2, <1>3, <1>4, <1>5 DEF QuietSteps, PipelineSteps
  <2>5. CASE \E x \in Preanalyses : PreRead(x) \/ PreCall(x) \/ PreSave(x) \/ PreSync(x) \/ PreTell(x)
    BY <2>5, <1>1, <1>2, <1>3, <1>6 DEF QuietSteps
  <2>6. CASE \E c \in Streams : Subscribe(c) \/ NextItem(c)
    BY <2>6, StreamMove
  <2> QED
    BY <1>9, <2>1, <2>2, <2>3, <2>4, <2>5, <2>6 DEF SessionsNext
<1> QED
  BY <1>8, <1>9

\* What the invariant says of the types.
LEMMA SessionsTypesFollow == ASSUME SessionsInv PROVE SessionsTypeOK
<1>1. \A m \in Makers : page[m] \in Pages
  BY DEF SessionsInv, SessionsTyped
<1>2. \A m \in Makers : \A k \in 1 .. Len(page[m].log) : page[m].log[k] \in Events
  BY <1>1 DEF Pages
<1>3. \A c \in Streams : cursor[c] \in Cursors /\ Len(cursor[c].queue) <= QueueSize
  BY DEF SessionsInv, SessionsTyped, StreamsFit, InOrder, Cursors
<1> QED
  BY <1>1, <1>2, <1>3 DEF SessionsInv, SessionsTyped, SessionsTypeOK, Pages, Cursors

\* What it says of the streams.
LEMMA StreamsFollow == ASSUME SessionsInv PROVE StreamsMissNothing
<1> SUFFICES ASSUME NEW c \in Streams, cursor[c].on # NoPage
             PROVE  LET q == cursor[c].queue IN
                    /\ \A k \in 1 .. Len(q) : q[k] > (IF k = 1 THEN cursor[c].seen ELSE q[k - 1])
                    /\ ~cursor[c].full =>
                         /\ cursor[c].seen + Len(q) = Len(page[cursor[c].on].log)
                         /\ \A k \in 1 .. Len(q) : q[k] = cursor[c].seen + k
  BY DEF StreamsMissNothing
<1>1. InOrder(cursor[c], Len(page[cursor[c].on].log)) /\ cursor[c].queue \in Seq(Nat)
  BY DEF SessionsInv, SessionsTyped, StreamsFit, Cursors
<1>2. \A k \in 1 .. Len(cursor[c].queue) : k # 1 => k - 1 \in 1 .. Len(cursor[c].queue) /\ k - 1 < k
  BY <1>1
<1> QED
  BY <1>1, <1>2 DEF InOrder

-----------------------------------------------------------------------------
(* Sessions: theorems *)

\* The sessions of workspace.py and the queues of its event bus: every subscriber's queue
\* continues the log of its session where the client is.
THEOREM SessionsInvariance == SessionsSpec => []SessionsInv
BY SessionsStart, SessionsKeep, PTL DEF SessionsSpec

\* The variables keep their types, and no queue grows past its bound.
THEOREM SessionsTypes == SessionsSpec => []SessionsTypeOK
BY SessionsTypesFollow, SessionsInvariance, PTL

\* For any number of requests, sessions and listeners: a stream that has not overflowed will
\* show its client every event of the log, in order and once (event_bus.py, workspace.py).
THEOREM NothingIsMissed == SessionsSpec => []StreamsMissNothing
BY StreamsFollow, SessionsInvariance, PTL

\* However the pipelines that share a job row interleave, none of their steps takes the
\* profile or the gap from it once it is stored.
THEOREM ProductsStay == SessionsSpec => ProductsSurvive
<1>1. SessionsInv /\ [SessionsNext]_sessionVars => [ProductsKept]_sessionVars
  BY SessionsKeep
<1> QED
  BY <1>1, SessionsInvariance, PTL DEF SessionsSpec, ProductsSurvive, ProductsKept
=============================================================================
