----------------------------- MODULE Preanalysis -----------------------------
(***************************************************************************)
(* Import batches and preanalysis sweeps (services/jobs.py): two kinds of  *)
(* background threads that walk over rows, create library jobs and run the *)
(* preanalysis of one job after the other, with retries of transient LLM   *)
(* failures, a stop on failures that concern all rows, and a cancel.       *)
(*                                                                         *)
(* One tenant is modelled.  A library job is named by the input row that   *)
(* created it.  Two rows may show the same posting under different keys: a *)
(* link and a pasted text.                                                 *)
(***************************************************************************)
EXTENDS Naturals, FiniteSets

CONSTANTS
  InputRows,         \* input rows
  Blanks,       \* those without text and link
  Posting,      \* row -> the posting it shows
  Key,          \* row -> its dedupe_key, a text or a link
  Imports,      \* import batches
  Feed,         \* import batch -> its rows
  Sweeps,       \* preanalysis batches
  Delays,       \* number of _IMPORT_RETRY_DELAYS
  MaxKept,      \* max_kept of both prune functions
  BatchMixes,   \* bound: the sets of batches of one behaviour
  NoRow         \* no row

Batches == Imports \cup Sweeps

ASSUME PreanalysisAssumption ==
  /\ Blanks \subseteq InputRows
  /\ Feed \in [Imports -> SUBSET InputRows]
  /\ Imports \cap Sweeps = {}
  /\ Delays \in Nat /\ MaxKept \in Nat

VARIABLES
  jobs,        \* rows that became library jobs
  classified, \* jobs with a job function
  unsettled,  \* jobs with classification_pending
  profiled,   \* jobs with a jd_profile
  batch,      \* batch -> its dictionary and the position of its thread
  keptBatches \* batches in _import_batches or _preanalyze_batches

preVars == <<jobs, classified, unsettled, profiled, batch, keptBatches>>

BatchPcs == {"off", "new", "next", "found", "inserting", "attempt", "done"}

PreTypeOK ==
  /\ jobs \subseteq InputRows \ Blanks
  /\ classified \subseteq jobs /\ unsettled \subseteq jobs /\ profiled \subseteq jobs
  /\ keptBatches \subseteq Batches
  /\ \A b \in Batches :
       /\ batch[b].pc \notin {"off", "new", "done"} => b \in keptBatches
       /\ batch[b].pc \in BatchPcs
       /\ batch[b].todo \subseteq InputRows
       /\ batch[b].row \in InputRows \cup {NoRow}
       /\ batch[b].tries \in 0 .. Delays
       /\ \A field \in {"created", "analyzed", "failed", "skipped"} :
            batch[b][field] \subseteq InputRows
       /\ \A flag \in {"preanalyze", "stop", "canceled", "stopped", "broken"} :
            batch[b][flag] \in BOOLEAN

NewBatch == [pc |-> "new", todo |-> {}, row |-> NoRow, tries |-> 0, created |-> {},
             analyzed |-> {}, failed |-> {}, skipped |-> {}, preanalyze |-> TRUE,
             stop |-> FALSE, canceled |-> FALSE, stopped |-> FALSE, broken |-> FALSE]

PreInit ==
  /\ jobs = {} /\ classified = {} /\ unsettled = {} /\ profiled = {}
  /\ \E mix \in BatchMixes :
       batch = [b \in Batches |->
                  [NewBatch EXCEPT !.pc = IF b \in mix THEN "new" ELSE "off"]]
  /\ keptBatches = {}

Store == <<jobs, classified, unsettled, profiled>>

-----------------------------------------------------------------------------
(* Requests *)

\* job_needs_preanalyze
NeedsPreanalyze(j) == j \in unsettled \/ j \notin profiled

StartImport(b) ==
  /\ batch[b].pc = "new"
  /\ \E pre \in BOOLEAN :
       batch' = [batch EXCEPT ![b].pc = "next", ![b].todo = Feed[b], ![b].preanalyze = pre]
  /\ keptBatches' = keptBatches \cup {b}
  /\ UNCHANGED Store

\* The jobs of a sweep are those that need it when it is requested.
StartSweep(b) ==
  LET pending == {j \in jobs : NeedsPreanalyze(j)} IN
  /\ batch[b].pc = "new" /\ pending # {}
  /\ batch' = [batch EXCEPT ![b].pc = "next", ![b].todo = pending]
  /\ keptBatches' = keptBatches \cup {b}
  /\ UNCHANGED Store

\* A sweep that is pruned answers 404, one that is done 409.
CancelSweep(b) ==
  /\ b \in keptBatches /\ batch[b].pc # "done"
  /\ batch' = [batch EXCEPT ![b].stop = TRUE]
  /\ UNCHANGED <<Store, keptBatches>>

-----------------------------------------------------------------------------
(* The end of a thread *)

Alike(b) == keptBatches \cap (IF b \in Imports THEN Imports ELSE Sweeps)
Finished(b) == {c \in Alike(b) : batch[c].pc = "done"} \cup (keptBatches \cap {b})

\* Mutant of Pruned: unfinished batches are dropped as well.
PrunedAny(b) ==
  IF Cardinality(Alike(b)) <= MaxKept THEN {{}}
  ELSE {D \in SUBSET Alike(b) : Cardinality(Alike(b) \ D) = MaxKept}

\* Finished batches make room in the order of their ids, which are random.
Pruned(b) ==
  IF Cardinality(Finished(b)) <= MaxKept THEN {{}}
  ELSE {D \in SUBSET Finished(b) : Cardinality(Finished(b) \ D) = MaxKept}

\* done = TRUE, then the pruning.
End(b, last) ==
  /\ batch' = [batch EXCEPT ![b] = [last EXCEPT !.pc = "done", !.row = NoRow, !.tries = 0]]
  /\ \E D \in Pruned(b) : keptBatches' = keptBatches \ D

EndOfRows(b) ==
  /\ batch[b].pc = "next" /\ batch[b].todo = {}
  /\ End(b, batch[b])
  /\ UNCHANGED Store

\* The stop flag is looked at before each row.
StopHere(b) ==
  /\ b \in Sweeps /\ batch[b].pc = "next" /\ batch[b].stop /\ batch[b].todo # {}
  /\ End(b, [batch[b] EXCEPT !.canceled = TRUE])
  /\ UNCHANGED Store

\* Any other exception ends the batch with the rows it has left.
Break(b) ==
  /\ batch[b].pc \in {"next", "found", "inserting"} /\ batch[b].todo # {}
  /\ End(b, [batch[b] EXCEPT !.broken = TRUE])
  /\ UNCHANGED Store

-----------------------------------------------------------------------------
(* _run_import: one row *)

\* find_duplicate tries the link, the text and the identity of the posting.
Duplicate(r) == \E j \in jobs : Posting[j] = Posting[r]

Took(b, r) == [batch[b] EXCEPT !.todo = @ \ {r}]

SkipRow(b) ==
  \E r \in batch[b].todo :
    /\ b \in Imports /\ batch[b].pc = "next"
    /\ r \in Blanks \/ Duplicate(r)
    /\ batch' = [batch EXCEPT ![b] = [Took(b, r) EXCEPT !.skipped = @ \cup {r}]]
    /\ UNCHANGED <<Store, keptBatches>>

\* No duplicate yet: the row goes to the classifier.
FindRow(b) ==
  \E r \in batch[b].todo :
    /\ b \in Imports /\ batch[b].pc = "next"
    /\ r \notin Blanks /\ ~Duplicate(r)
    /\ batch' = [batch EXCEPT ![b].pc = "found", ![b].row = r]
    /\ UNCHANGED <<Store, keptBatches>>

\* Mutant of Refuse: the row is counted as created although another thread has it.
RefuseAsCreated(b, r) ==
  /\ batch' = [batch EXCEPT ![b] = [Took(b, r) EXCEPT !.created = @ \cup jobs,
                                                      !.pc = "next", !.row = NoRow]]
  /\ UNCHANGED <<Store, keptBatches>>

Refuse(b, r) ==
  /\ batch' = [batch EXCEPT ![b] = [Took(b, r) EXCEPT !.skipped = @ \cup {r},
                                                      !.pc = "next", !.row = NoRow]]
  /\ UNCHANGED <<Store, keptBatches>>

\* create_job looks for duplicates once more ...
RecheckRow(b) ==
  LET r == batch[b].row IN
  /\ batch[b].pc = "found"
  /\ IF Duplicate(r) THEN Refuse(b, r)
     ELSE batch' = [batch EXCEPT ![b].pc = "inserting"] /\ UNCHANGED <<Store, keptBatches>>

\* Mutant of KeyTaken: the index covers settled jobs only.
KeyTakenSettled(r) == \E j \in jobs \ unsettled : Key[j] = Key[r]

\* The unique index on tenant and dedupe_key.
KeyTaken(r) == \E j \in jobs : Key[j] = Key[r]

\* ... and then inserts.  A failed classification leaves the job unsettled.
InsertRow(b) ==
  LET r == batch[b].row
      go == batch[b].preanalyze
  IN
  /\ batch[b].pc = "inserting"
  /\ \/ KeyTaken(r) /\ Refuse(b, r)
     \/ /\ ~KeyTaken(r)
        /\ batch' = [batch EXCEPT ![b] = [Took(b, r) EXCEPT
             !.created = @ \cup {r}, !.pc = IF go THEN "attempt" ELSE "next",
             !.row = IF go THEN r ELSE NoRow]]
        /\ jobs' = jobs \cup {r}
        /\ \/ classified' = classified \cup {r} /\ UNCHANGED unsettled
           \/ unsettled' = unsettled \cup {r} /\ UNCHANGED classified
        /\ UNCHANGED <<profiled, keptBatches>>

-----------------------------------------------------------------------------
(* _run_preanalyze_batch: one row *)

\* A job that another thread has analysed meanwhile is skipped.
TakeJob(b) ==
  \E r \in batch[b].todo :
    /\ b \in Sweeps /\ batch[b].pc = "next" /\ ~batch[b].stop
    /\ batch' = [batch EXCEPT ![b] =
         IF NeedsPreanalyze(r) THEN [Took(b, r) EXCEPT !.pc = "attempt", !.row = r]
         ELSE [Took(b, r) EXCEPT !.skipped = @ \cup {r}]]
    /\ UNCHANGED <<Store, keptBatches>>

-----------------------------------------------------------------------------
(* _preanalyze_row_with_retry around preanalyze_job *)

Close(b, field) ==
  batch' = [batch EXCEPT ![b] = [batch[b] EXCEPT ![field] = @ \cup {batch[b].row},
                                 !.pc = "next", !.row = NoRow, !.tries = 0]]

\* The profile is stored and the job settled; a classification that failed is
\* taken for an empty one.
Analyzed(b) ==
  LET r == batch[b].row IN
  /\ batch[b].pc = "attempt"
  /\ profiled' = profiled \cup {r}
  /\ unsettled' = unsettled \ {r}
  /\ \/ classified' = classified \cup {r}
     \/ UNCHANGED classified
  /\ Close(b, "analyzed")
  /\ UNCHANGED <<jobs, keptBatches>>

\* Mutant of TransientFailure: the delays never run out.
TransientForever(b) ==
  /\ batch[b].pc = "attempt"
  /\ NeedsPreanalyze(batch[b].row)
  /\ batch' = [batch EXCEPT ![b].tries = IF @ < Delays THEN @ + 1 ELSE 0]
  /\ UNCHANGED <<Store, keptBatches>>

\* A timeout, an HTTP error or a rate limit is retried after a delay.
TransientFailure(b) ==
  /\ batch[b].pc = "attempt"
  /\ NeedsPreanalyze(batch[b].row)
  /\ batch[b].tries < Delays
  /\ batch' = [batch EXCEPT ![b].tries = @ + 1]
  /\ UNCHANGED <<Store, keptBatches>>

\* Any other failure, or the last retry failed too: the row is given up.
RowFails(b) ==
  /\ batch[b].pc = "attempt"
  /\ NeedsPreanalyze(batch[b].row)
  /\ Close(b, "failed")
  /\ UNCHANGED <<Store, keptBatches>>

\* PreanalyzeUnavailable (no LLM, the cap, auth or quota): a sweep ends, an
\* import goes on without preanalysis.
Unavailable(b) ==
  /\ batch[b].pc = "attempt"
  /\ NeedsPreanalyze(batch[b].row)
  /\ \/ /\ b \in Sweeps
        /\ End(b, [batch[b] EXCEPT !.stopped = TRUE, !.failed = @ \cup {batch[b].row}])
     \/ /\ b \in Imports
        /\ batch' = [batch EXCEPT ![b].preanalyze = FALSE, ![b].pc = "next",
                                  ![b].row = NoRow, ![b].tries = 0]
        /\ UNCHANGED keptBatches
  /\ UNCHANGED Store

BatchSteps(b) ==
  \/ EndOfRows(b) \/ StopHere(b) \/ Break(b)
  \/ SkipRow(b) \/ FindRow(b) \/ RecheckRow(b) \/ InsertRow(b) \/ TakeJob(b)
  \/ Analyzed(b) \/ TransientFailure(b) \/ RowFails(b) \/ Unavailable(b)

PreNext ==
  \/ \E b \in Imports : StartImport(b)
  \/ \E b \in Sweeps : StartSweep(b) \/ CancelSweep(b)
  \/ \E b \in Batches : BatchSteps(b)

\* Each batch has a thread; every LLM call has a deadline.
PreFairness == \A b \in Batches : WF_preVars(BatchSteps(b))

PreSpec == PreInit /\ [][PreNext]_preVars /\ PreFairness

-----------------------------------------------------------------------------
(* Properties *)

Worked(b) == batch[b].created \cup batch[b].skipped \cup batch[b].failed \cup batch[b].analyzed

\* What a batch reports is what it did, whatever the other batches do at the same
\* time: no two imports claim one job, what is counted as analysed has its
\* profile, and a batch that neither stopped, was canceled nor broke has
\* accounted for all its rows.
BatchesAccount ==
  /\ \A b, c \in Imports : b # c => batch[b].created \cap batch[c].created = {}
  /\ \A b \in Batches : batch[b].analyzed \subseteq profiled
  /\ \A b \in Imports : batch[b].created \cap batch[b].skipped = {}
  /\ \A b \in Batches :
       batch[b].pc = "done" /\ ~batch[b].broken /\ ~batch[b].stopped /\ ~batch[b].canceled
         => batch[b].todo = {} /\ (b \in Imports => Worked(b) = Feed[b])

\* The index on the dedupe key is the last guard: whatever the imports find when
\* they look for duplicates, no two jobs have one key.
KeysAreUnique == \A i, j \in jobs : Key[i] = Key[j] => i = j

\* Every batch comes to its end, however often the LLM fails.
BatchesEnd == \A b \in Batches : batch[b].pc = "next" ~> batch[b].pc = "done"

-----------------------------------------------------------------------------
(* Statements of the repository that the code does not keep *)

\* services/jobs.py:660-661: a job whose classification failed stays pending.
SettledIsClassified == jobs \ unsettled \subseteq classified

\* job_library/__init__.py:1180-1182: a posting captured through two channels
\* resolves to its first row.
OneJobPerPosting == \A i, j \in jobs : Posting[i] = Posting[j] => i = j

=============================================================================
