------------------------------ MODULE Delivery ------------------------------
(***************************************************************************)
(* The delivery side of the job library (job_library/__init__.py,          *)
(* job_library/status_lifecycle.py) under the routes that drive it:        *)
(* final drafts and their history, the delivery status and its dates, the  *)
(* snapshots of applied drafts, applications, the kanban's bulk moves and  *)
(* deletion.  One transaction of the store is one action; a route that     *)
(* opens several is as many actions, and other routes step in between.     *)
(***************************************************************************)
EXTENDS Naturals, Sequences, SequencesExt

CONSTANTS
  Postings,       \* library jobs of one tenant
  Drafts,         \* texts of final drafts
  BulkKeys,       \* idempotency keys of bulk moves
  DeliveryMixes,  \* bound: the sets of requests one behaviour has
  NoDraft, NoSent, NoAnswer

Statuses == {"draft", "applied", "interview", "offer", "withdrawn"}
Dates    == {"applied_at", "offer_at", "rejected_at"}

\* A request is a record: its kind, its job (jobs for a bulk move) and its arguments.
\* `given` maps the dates a PATCH carries to TRUE (a date) or FALSE (cleared).
IsRequest(r) ==
  /\ r.kind \in {"save", "rollback", "patch", "apply", "outcome", "bulk", "delete"}
  /\ r.kind # "bulk" => r.job \in Postings
  /\ r.kind = "save" => r.draft \in Drafts
  /\ r.kind \in {"patch", "bulk"} => r.status \in Statuses
  /\ r.kind = "outcome" => r.status \in (Statuses \ {"draft"}) \cup {"rejected"}

ASSUME DeliveryAssumption ==
  /\ \A mix \in DeliveryMixes : \A r \in mix : IsRequest(r)
  /\ NoDraft \notin Drafts

VARIABLES
  posting,   \* job -> its row of library_jobs
  history,   \* job -> its rows of final_draft_versions
  frozen,    \* job -> the drafts of its rows of application_snapshots
  sent,      \* job -> its row of job_applications
  bulkOps,   \* key -> the stored answer of kanban_bulk_ops
  place,     \* request -> the step it is at
  known,     \* request -> what it read in an earlier transaction
  answers    \* request -> what a bulk move answered

rowVars      == <<posting, history, frozen, sent>>
deliveryVars == <<posting, history, frozen, sent, bulkOps, place, known, answers>>

NothingKnown == [append |-> FALSE, writes |-> <<>>, draft |-> NoDraft]

DeliveryInit ==
  /\ posting = [j \in Postings |-> [live |-> TRUE, status |-> "draft", dates |-> {},
                                    draft |-> NoDraft, version |-> 0]]
  /\ history = [j \in Postings |-> <<>>]
  /\ frozen = [j \in Postings |-> <<>>]
  /\ sent = [j \in Postings |-> NoSent]
  /\ bulkOps = [k \in BulkKeys |-> NoAnswer]
  /\ \E mix \in DeliveryMixes :
       /\ place = [r \in mix |-> "start"]
       /\ known = [r \in mix |-> NothingKnown]
       /\ answers = [r \in mix |-> NoAnswer]

Requests == DOMAIN place

Finish(r) == place' = [place EXCEPT ![r] = "done"]
Wait(r, step, what) ==
  /\ place' = [place EXCEPT ![r] = step]
  /\ known' = [known EXCEPT ![r] = what]

(***************************************************************************)
(* The delivery status.                                                    *)
(***************************************************************************)
DELIVERY_TRANSITIONS ==
  [draft     |-> Statuses,
   applied   |-> {"applied", "interview", "offer", "withdrawn"},
   interview |-> {"interview", "offer", "withdrawn"},
   offer     |-> {"offer", "withdrawn"},
   withdrawn |-> {"withdrawn"}]
Terminal == {"offer", "withdrawn"}

Allowed(from, to, revive) ==
  \/ to \in DELIVERY_TRANSITIONS[from]
  \/ revive /\ from \in Terminal /\ to \notin Terminal

\* The dates a move to `to` writes; one the caller gives wins over today's.
LifecycleFields(to, given) ==
  LET Pick(d) == (d :> IF d \in DOMAIN given THEN given[d] ELSE TRUE)
      Clear(D) == [d \in D |-> FALSE]
  IN CASE to = "draft"     -> Clear(Dates)
       [] to \in {"applied", "interview"} ->
                              Pick("applied_at") @@ Clear({"offer_at", "rejected_at"})
       [] to = "offer"     -> Pick("offer_at") @@ Clear({"rejected_at"})
       [] to = "withdrawn" -> Pick("rejected_at")

Dated(dates, writes) ==
  {d \in Dates : IF d \in DOMAIN writes THEN writes[d] ELSE d \in dates}

\* The stage the dashboard counts a job under.
FunnelStage(row) ==
  IF "offer_at" \in row.dates \/ row.status = "offer" THEN "offer"
  ELSE IF row.status = "interview" THEN "interview"
  ELSE IF "applied_at" \in row.dates \/ row.status = "applied" THEN "applied"
  ELSE "draft"

(***************************************************************************)
(* Final drafts.                                                           *)
(***************************************************************************)
\* save_final_draft: the version row and the projection in one transaction.
SaveDraft(j, d) ==
  LET version == posting[j].version + 1
  IN /\ history' = [history EXCEPT ![j] = Append(@, [version |-> version, draft |-> d])]
     /\ posting' = [posting EXCEPT ![j].draft = d, ![j].version = version]

SaveFinal(r) ==
  /\ r.kind = "save" /\ place[r] = "start"
  /\ IF posting[r.job].live THEN SaveDraft(r.job, r.draft) ELSE UNCHANGED <<posting, history>>
  /\ Finish(r)
  /\ UNCHANGED <<frozen, sent, bulkOps, known, answers>>

\* rollback_final_draft reads the old version, then saves it as a new one.
RollbackRead(r) ==
  /\ r.kind = "rollback" /\ place[r] = "start"
  /\ IF r.version \in DOMAIN history[r.job]
       THEN Wait(r, "restore", [NothingKnown EXCEPT !.draft = history[r.job][r.version].draft])
       ELSE Finish(r) /\ UNCHANGED known
  /\ UNCHANGED <<rowVars, bulkOps, answers>>

\* Mutant: an old version becomes current again by its number.
RestoreByNumber(j, d, version) ==
  /\ posting' = [posting EXCEPT ![j].draft = d, ![j].version = version]
  /\ UNCHANGED history

Restore(j, d, version) == SaveDraft(j, d)

RollbackSave(r) ==
  /\ r.kind = "rollback" /\ place[r] = "restore"
  /\ IF posting[r.job].live
       THEN Restore(r.job, known[r].draft, r.version)
       ELSE UNCHANGED <<posting, history>>
  /\ Finish(r)
  /\ UNCHANGED <<frozen, sent, bulkOps, known, answers>>

(***************************************************************************)
(* PATCH /api/jobs/{job_id}.  The handler runs on the event loop, so two   *)
(* of them do not interleave; the other routes run in worker threads.      *)
(***************************************************************************)
InPatch(r) == r.kind = "patch" /\ place[r] \in {"write", "record"}

\* _resolve_job_update_lifecycle, in a transaction of its own.
PatchRead(r) ==
  LET row == posting[r.job]
      append == ~r.revive /\ r.status = "applied" /\ row.status # "draft"
      moves == LifecycleFields(r.status, r.given)
      kept == IF r.revive /\ row.status \in Terminal THEN {"offer_at", "rejected_at"} ELSE {}
      writes == [d \in DOMAIN moves \ kept |-> moves[d]] @@ r.given
  IN /\ r.kind = "patch" /\ place[r] = "start"
     /\ \A q \in Requests : ~InPatch(q)
     /\ IF ~row.live \/ ~(append \/ Allowed(row.status, r.status, r.revive))
          THEN Finish(r) /\ UNCHANGED known
          ELSE Wait(r, "write", [NothingKnown EXCEPT !.append = append,
                                 !.writes = IF append THEN r.given ELSE writes])
     /\ UNCHANGED <<rowVars, bulkOps, answers>>

\* A snapshot is taken of a draft there is.
Freeze(j, row) == frozen' = [frozen EXCEPT ![j] = IF row.draft = NoDraft THEN @
                                                  ELSE Append(@, row.draft)]

\* _persist_job_update: the row and the snapshot in one transaction.
PatchWrite(r) ==
  LET j == r.job
      row == [posting[j] EXCEPT !.status = IF known[r].append THEN @ ELSE r.status,
                                !.dates = Dated(@, known[r].writes)]
  IN /\ r.kind = "patch" /\ place[r] = "write"
     /\ IF posting[j].live
          THEN /\ posting' = [posting EXCEPT ![j] = row]
               /\ IF r.status = "applied" THEN Freeze(j, row) ELSE UNCHANGED frozen
               /\ place' = [place EXCEPT ![r] =
                    IF r.status = "applied" \/ "applied_at" \in Dated({}, r.given)
                    THEN "record" ELSE "done"]
          ELSE UNCHANGED <<posting, frozen>> /\ Finish(r)
     /\ UNCHANGED <<history, sent, bulkOps, known, answers>>

(***************************************************************************)
(* Applications.                                                           *)
(***************************************************************************)
\* The version an application is bound to: the newest row, else the projection.
NewestVersion(j) ==
  IF history[j] # <<>> THEN Last(history[j])
  ELSE [version |-> posting[j].version, draft |-> posting[j].draft]

\* upsert_job_application, in one transaction.  A refreshed application keeps its status.
UpsertApplication(j) ==
  LET newest == NewestVersion(j)
  IN IF posting[j].live /\ posting[j].draft # NoDraft
       THEN /\ sent' = [sent EXCEPT ![j] =
                 [version |-> newest.version, draft |-> newest.draft,
                  status |-> IF @ = NoSent THEN "applied" ELSE @.status]]
            /\ posting' = [posting EXCEPT
                 ![j].dates = @ \cup {"applied_at"},
                 ![j].status = IF @ = "draft" THEN "applied" ELSE @]
       ELSE UNCHANGED <<sent, posting>>

\* The last step of a PATCH that applies, and POST .../application.
RecordApplication(r) ==
  /\ \/ r.kind = "patch" /\ place[r] = "record"
     \/ r.kind = "apply" /\ place[r] = "start"
  /\ UpsertApplication(r.job)
  /\ Finish(r)
  /\ UNCHANGED <<history, frozen, bulkOps, known, answers>>

\* update_job_application_outcome labels the job without a look at its status.
Outcome(r) ==
  /\ r.kind = "outcome" /\ place[r] = "start"
  /\ Finish(r)
  /\ IF sent[r.job] = NoSent THEN UNCHANGED <<sent, posting>>
     ELSE /\ sent' = [sent EXCEPT ![r.job].status = r.status]
          /\ posting' = IF posting[r.job].live
                        THEN [posting EXCEPT ![r.job].status =
                                IF r.status = "rejected" THEN "withdrawn" ELSE r.status]
                        ELSE posting
  /\ UNCHANGED <<history, frozen, bulkOps, known, answers>>

(***************************************************************************)
(* The kanban's bulk moves: the key is looked up, the rows are written and *)
(* the answer is stored in three transactions.                             *)
(***************************************************************************)
BulkLookup(r) ==
  /\ r.kind = "bulk" /\ place[r] = "start"
  /\ IF bulkOps[r.key] # NoAnswer
       THEN answers' = [answers EXCEPT ![r] = bulkOps[r.key]] /\ Finish(r)
       ELSE place' = [place EXCEPT ![r] = "write"] /\ UNCHANGED answers
  /\ UNCHANGED <<rowVars, bulkOps, known>>

\* What the move does to one row.
BulkResult(r, j) ==
  IF ~posting[j].live THEN "not_found"
  ELSE IF r.expected \notin {posting[j].status, "any"} THEN "conflict" ELSE "updated"

BulkWrite(r) ==
  LET hit == {j \in r.jobs : BulkResult(r, j) = "updated"}
      again == {j \in hit : r.status = "applied" /\ posting[j].status # "draft"}
  IN /\ r.kind = "bulk" /\ place[r] = "write"
     /\ posting' = [j \in Postings |->
          IF j \in hit \ again
          THEN [posting[j] EXCEPT !.status = r.status,
                                  !.dates = Dated(@, LifecycleFields(r.status, <<>>))]
          ELSE posting[j]]
     /\ frozen' = [j \in Postings |->
          IF j \in hit /\ r.status = "applied" /\ posting[j].draft # NoDraft
          THEN Append(frozen[j], posting[j].draft) ELSE frozen[j]]
     /\ answers' = [answers EXCEPT ![r] = [j \in r.jobs |-> BulkResult(r, j)]]
     /\ place' = [place EXCEPT ![r] = "store"]
     /\ UNCHANGED <<history, sent, bulkOps, known>>

\* INSERT OR REPLACE.
BulkStore(r) ==
  /\ r.kind = "bulk" /\ place[r] = "store"
  /\ bulkOps' = [bulkOps EXCEPT ![r.key] = answers[r]]
  /\ Finish(r)
  /\ UNCHANGED <<rowVars, known, answers>>

\* delete_job takes the snapshots along, and leaves versions and applications.
Delete(r) ==
  /\ r.kind = "delete" /\ place[r] = "start"
  /\ posting' = [posting EXCEPT ![r.job].live = FALSE]
  /\ frozen' = [frozen EXCEPT ![r.job] = <<>>]
  /\ Finish(r)
  /\ UNCHANGED <<history, sent, bulkOps, known, answers>>

DeliveryNext ==
  \E r \in Requests :
    \/ SaveFinal(r) \/ RollbackRead(r) \/ RollbackSave(r)
    \/ PatchRead(r) \/ PatchWrite(r) \/ RecordApplication(r) \/ Outcome(r)
    \/ BulkLookup(r) \/ BulkWrite(r) \/ BulkStore(r) \/ Delete(r)

DeliverySpec == DeliveryInit /\ [][DeliveryNext]_deliveryVars

(***************************************************************************)
(* Properties.                                                             *)
(***************************************************************************)
Versions     == [version : Nat, draft : Drafts]
DeliveryRows == [live : BOOLEAN, status : Statuses, dates : SUBSET Dates,
                 draft : Drafts \cup {NoDraft}, version : Nat]

DeliveryTypeOK ==
  /\ posting \in [Postings -> DeliveryRows]
  /\ history \in [Postings -> Seq(Versions)]
  /\ frozen \in [Postings -> Seq(Drafts)]
  /\ \A j \in Postings : sent[j] = NoSent \/
       sent[j] \in [version : Nat, draft : Drafts, status : (Statuses \ {"draft"}) \cup {"rejected"}]

\* However saves, rollbacks, PATCHes and deletions interleave, the draft the row shows and
\* its number are those of the newest version row, and an application names a version that
\* is still there with the very text that was sent: the history is the evidence of what
\* was submitted.
DraftsAgree ==
  \A j \in Postings :
    /\ posting[j].version = Len(history[j])
    /\ posting[j].draft = IF history[j] = <<>> THEN NoDraft ELSE Last(history[j]).draft
    /\ sent[j] # NoSent =>
         \E v \in Range(history[j]) : v.version = sent[j].version /\ v.draft = sent[j].draft

\* Violated by the code.  status_lifecycle.py and the dashboard state that a job, once it
\* has had an offer, keeps that in its dates when it is reopened.
OfferIsRemembered ==
  [][\A j \in Postings : FunnelStage(posting[j]) = "offer" => FunnelStage(posting'[j]) = "offer"]_deliveryVars

=============================================================================
