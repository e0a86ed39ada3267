--------------------------- MODULE StoredRowsProofs ---------------------------
(***************************************************************************)
(* Proofs about the rows that requests read, compute from and write back   *)
(* whole: the delivery of applications, master resumes and settings, for   *)
(* any postings, resumes and requests.  What must hold of a stored row     *)
(* must hold of every copy of it that a request may still write.  At the   *)
(* end, the composition that the stores run checks: its five components    *)
(* share no variable, so that each keeps the inductive invariant of its    *)
(* own specification whatever the others do.                               *)
(***************************************************************************)
EXTENDS MCStores, BackgroundProofs, FiniteSetTheorems, TLAPS

-----------------------------------------------------------------------------
(* Delivery: the inductive invariant *)

DeliveryRequestsFit ==
  /\ \A r \in Requests : IsRequest(r)
  /\ place = [r \in Requests |-> place[r]]
  /\ known = [r \in Requests |-> known[r]]

SentFits == sent = [j \in Postings |-> sent[j]]

\* A rollback brings back a draft that was in the history when it was read.
RestoresFit == \A r \in Requests : place[r] = "restore" =>
  known[r].draft \in Drafts /\ r.kind = "rollback"

DeliveryInv == DeliveryTypeOK /\ DeliveryRequestsFit /\ SentFits /\ RestoresFit /\ DraftsAgree

USE DeliveryAssumption

-----------------------------------------------------------------------------
(* Histories *)

\* What appending a version does to a history.
LEMMA AppendedHistory ==
  ASSUME NEW h \in Seq(Versions), NEW v \in Versions
  PROVE  /\ Append(h, v) \in Seq(Versions) /\ Append(h, v) # <<>>
         /\ Len(Append(h, v)) = Len(h) + 1
         /\ Last(Append(h, v)) = v
         /\ Range(h) \subseteq Range(Append(h, v))
BY DEF Last, Range

\* The newest version is one of the history.
LEMMA NewestIsThere ==
  ASSUME NEW h \in Seq(Versions), h # <<>>
  PROVE  Last(h) \in Range(h) /\ Last(h) \in Versions
BY DEF Last, Range

Redrafted(row, d, n) == [row EXCEPT !.draft = d, !.version = n]
Moved(row, s, D) == [row EXCEPT !.status = s, !.dates = D]

\* A row with another draft under another number is a row.
LEMMA RowWithDraft ==
  ASSUME NEW row \in DeliveryRows, NEW d \in Drafts \cup {NoDraft}, NEW n \in Nat
  PROVE  /\ Redrafted(row, d, n) \in DeliveryRows
         /\ Redrafted(row, d, n).draft = d /\ Redrafted(row, d, n).version = n
<1>1. [row EXCEPT !.draft = d, !.version = n] \in DeliveryRows
  BY DEF DeliveryRows
<1> QED
  BY <1>1 DEF DeliveryRows, Redrafted

LEMMA VersionRow ==
  ASSUME NEW n \in Nat, NEW d \in Drafts
  PROVE  [version |-> n, draft |-> d] \in Versions
BY DEF Versions

-----------------------------------------------------------------------------
(* The steps *)

\* Saving a draft writes row and history in one transaction.
LEMMA SavingKeeps ==
  ASSUME DeliveryTypeOK, SentFits, DraftsAgree, NEW j \in Postings, NEW d \in Drafts,
         SaveDraft(j, d), UNCHANGED <<frozen, sent>>
  PROVE  DeliveryTypeOK' /\ SentFits' /\ DraftsAgree'
<1> DEFINE n == posting[j].version + 1
          v == [version |-> n, draft |-> d]
          row == Redrafted(posting[j], d, n)
<1>t. posting[j] \in DeliveryRows /\ posting \in [Postings -> DeliveryRows]
  BY DEF DeliveryTypeOK
<1>h. history[j] \in Seq(Versions)
  BY DEF DeliveryTypeOK
<1>m. posting[j].version \in Nat
  BY <1>t DEF DeliveryRows
<1>n. n \in Nat
  BY <1>m
<1>2. history' = [history EXCEPT ![j] = Append(history[j], v)]
  BY DEF SaveDraft
<1>3. posting' = [posting EXCEPT ![j] = row]
  BY DEF SaveDraft, DeliveryTypeOK, Redrafted
<1>4. v.version = n /\ v.draft = d /\ n = posting[j].version + 1
  OBVIOUS
<1> HIDE DEF n
<1>1. v \in Versions
  BY <1>n, VersionRow
<1>r. row \in DeliveryRows /\ row.draft = d /\ row.version = n
  <2>1. d \in Drafts \cup {NoDraft}
    OBVIOUS
  <2> QED
    BY <1>t, <1>n, <2>1, RowWithDraft
<1> HIDE DEF v, row
<1>5. DeliveryTypeOK'
  <2>1. posting' \in [Postings -> DeliveryRows]
    BY <1>t, <1>3, <1>r
  <2>2. history' \in [Postings -> Seq(Versions)]
    <3>1. Append(history[j], v) \in Seq(Versions)
      BY <1>1, <1>h, AppendedHistory
    <3> QED
      BY <1>2, <3>1 DEF DeliveryTypeOK
  <2> QED
    BY <2>1, <2>2 DEF DeliveryTypeOK
<1>6. ASSUME NEW k \in Postings
      PROVE  /\ posting'[k].version = Len(history'[k])
             /\ posting'[k].draft = IF history'[k] = <<>> THEN NoDraft ELSE Last(history'[k]).draft
             /\ sent[k] # NoSent =>
                  \E w \in Range(history'[k]) : w.version = sent[k].version /\ w.draft = sent[k].draft
  <2>1. CASE k # j
    BY <1>2, <1>3, <2>1 DEF DeliveryTypeOK, DraftsAgree
  <2>2. CASE k = j
    <3>1. history'[j] = Append(history[j], v) /\ posting'[j].version = n /\ posting'[j].draft = d
      BY <1>t, <1>2, <1>3, <1>r DEF DeliveryTypeOK
    <3>2. posting[j].version = Len(history[j])
      BY DEF DraftsAgree
    <3>3. Range(history[j]) \subseteq Range(history'[j])
      BY <1>1, <1>h, <3>1, AppendedHistory
    <3> QED
      BY <1>1, <1>h, <1>4, <2>2, <3>1, <3>2, <3>3, AppendedHistory DEF DraftsAgree
  <2> QED
    BY <2>1, <2>2
<1> QED
  BY <1>5, <1>6 DEF DraftsAgree, SentFits

\* A step that leaves drafts, versions and histories alone, and what was sent.
LEMMA OthersKeep ==
  ASSUME DeliveryTypeOK, SentFits, DraftsAgree,
         posting' \in [Postings -> DeliveryRows],
         \A j \in Postings : /\ posting'[j].draft = posting[j].draft
                             /\ posting'[j].version = posting[j].version,
         UNCHANGED <<history, sent>>, frozen' \in [Postings -> Seq(Drafts)]
  PROVE  DeliveryTypeOK' /\ SentFits' /\ DraftsAgree'
<1>1. DeliveryTypeOK' /\ SentFits'
  BY DEF DeliveryTypeOK, SentFits
<1>2. DraftsAgree'
  BY DEF DraftsAgree
<1> QED
  BY <1>1, <1>2

\* A save or a rollback is such a transaction, or finds the job deleted.
LEMMA WritingKeeps ==
  ASSUME DeliveryInv, NEW r \in Requests, SaveFinal(r) \/ RollbackSave(r)
  PROVE  DeliveryTypeOK' /\ SentFits' /\ DraftsAgree'
<1>1. CASE UNCHANGED <<posting, history>>
  BY <1>1 DEF SaveFinal, RollbackSave, DeliveryInv, DeliveryTypeOK, SentFits, DraftsAgree
<1>2. CASE ~UNCHANGED <<posting, history>>
  <2>1. PICK d \in Drafts : SaveDraft(r.job, d)
    BY <1>2 DEF SaveFinal, RollbackSave, Restore, DeliveryInv, RestoresFit, DeliveryRequestsFit, IsRequest
  <2>2. r.job \in Postings /\ UNCHANGED <<frozen, sent>>
    BY DEF SaveFinal, RollbackSave, DeliveryInv, DeliveryRequestsFit, IsRequest
  <2> QED
    BY <2>1, <2>2, SavingKeeps DEF DeliveryInv
<1> QED
  BY <1>1, <1>2

\* A row moved to another status, with other dates, is a row with the same draft.
LEMMA MovedRow ==
  ASSUME NEW row \in DeliveryRows, NEW s \in Statuses, NEW D \in SUBSET Dates
  PROVE  /\ Moved(row, s, D) \in DeliveryRows
         /\ Moved(row, s, D).draft = row.draft /\ Moved(row, s, D).version = row.version
BY DEF DeliveryRows, Moved

\* A PATCH writes status and dates, and freezes the draft the row has.
LEMMA PatchKeeps ==
  ASSUME DeliveryInv, NEW r \in Requests, PatchWrite(r)
  PROVE  DeliveryTypeOK' /\ SentFits' /\ DraftsAgree'
<1> DEFINE j == r.job
           s == IF known[r].append THEN posting[j].status ELSE r.status
           D == Dated(posting[j].dates, known[r].writes)
           row == Moved(posting[j], s, D)
<1>1. j \in Postings /\ r.status \in Statuses /\ UNCHANGED <<history, sent>>
  BY DEF PatchWrite, DeliveryInv, DeliveryRequestsFit, IsRequest
<1>2. posting[j] \in DeliveryRows /\ D \in SUBSET Dates /\ frozen \in [Postings -> Seq(Drafts)]
  BY <1>1 DEF DeliveryInv, DeliveryTypeOK, Dated
<1>3. s \in Statuses
  BY <1>1, <1>2 DEF DeliveryRows
<1>4. row \in DeliveryRows /\ row.draft = posting[j].draft /\ row.version = posting[j].version
  BY <1>2, <1>3, MovedRow
<1>5. CASE UNCHANGED <<posting, frozen>>
  BY <1>1, <1>5 DEF DeliveryInv, DeliveryTypeOK, SentFits, DraftsAgree
<1>6. CASE posting' = [posting EXCEPT ![j] = row] /\ (Freeze(j, row) \/ UNCHANGED frozen)
  <2>1. row.draft # NoDraft => Append(frozen[j], row.draft) \in Seq(Drafts)
    BY <1>1, <1>2, <1>4 DEF DeliveryRows
  <2>2. frozen' \in [Postings -> Seq(Drafts)]
    BY <1>1, <1>2, <1>6, <2>1 DEF Freeze
  <2>3. posting' \in [Postings -> DeliveryRows]
    BY <1>1, <1>4, <1>6 DEF DeliveryInv, DeliveryTypeOK
  <2>4. \A k \in Postings : posting'[k].draft = posting[k].draft /\ posting'[k].version = posting[k].version
    BY <1>1, <1>4, <1>6 DEF DeliveryInv, DeliveryTypeOK
  <2> QED
    BY <1>1, <2>2, <2>3, <2>4, OthersKeep DEF DeliveryInv
<1>7. \/ UNCHANGED <<posting, frozen>>
      \/ posting' = [posting EXCEPT ![j] = row] /\ (Freeze(j, row) \/ UNCHANGED frozen)
  BY DEF PatchWrite, Moved
<1> QED
  BY <1>5, <1>6, <1>7

\* A bulk move does the same to every row it hits.
LEMMA BulkKeeps ==
  ASSUME DeliveryInv, NEW r \in Requests, BulkWrite(r)
  PROVE  DeliveryTypeOK' /\ SentFits' /\ DraftsAgree'
<1> DEFINE D(j) == Dated(posting[j].dates, LifecycleFields(r.status, <<>>))
           row(j) == Moved(posting[j], r.status, D(j))
<1>1. r.status \in Statuses /\ UNCHANGED <<history, sent>>
  BY DEF BulkWrite, DeliveryInv, DeliveryRequestsFit, IsRequest
<1>2. ASSUME NEW j \in Postings
      PROVE  row(j) \in DeliveryRows /\ row(j).draft = posting[j].draft
             /\ row(j).version = posting[j].version
  <2>1. posting[j] \in DeliveryRows /\ D(j) \in SUBSET Dates
    BY DEF DeliveryInv, DeliveryTypeOK, Dated
  <2> QED
    BY <1>1, <2>1, MovedRow
<1>3. DOMAIN posting' = Postings /\ posting' = [j \in Postings |-> posting'[j]]
      /\ \A j \in Postings : posting'[j] = row(j) \/ posting'[j] = posting[j]
  BY DEF BulkWrite, Moved
<1>4. ASSUME NEW j \in Postings
      PROVE  posting'[j] \in DeliveryRows /\ posting'[j].draft = posting[j].draft
             /\ posting'[j].version = posting[j].version
  <2>1. posting[j] \in DeliveryRows
    BY DEF DeliveryInv, DeliveryTypeOK
  <2> HIDE DEF row
  <2> QED
    BY <1>2, <1>3, <2>1
<1>5. posting' \in [Postings -> DeliveryRows]
  BY <1>3, <1>4
<1>6. frozen' \in [Postings -> Seq(Drafts)]
  <2>1. ASSUME NEW j \in Postings
        PROVE  /\ frozen[j] \in Seq(Drafts)
               /\ posting[j].draft # NoDraft => Append(frozen[j], posting[j].draft) \in Seq(Drafts)
    <3>1. posting[j] \in DeliveryRows /\ frozen[j] \in Seq(Drafts)
      BY DEF DeliveryInv, DeliveryTypeOK
    <3> QED
      BY <3>1 DEF DeliveryRows
  <2> QED
    BY <2>1 DEF BulkWrite
<1> QED
  BY <1>1, <1>4, <1>5, <1>6, OthersKeep DEF DeliveryInv

\* Deletion takes the snapshots and leaves the history.
LEMMA DeletionKeeps ==
  ASSUME DeliveryInv, NEW r \in Requests, Delete(r)
  PROVE  DeliveryTypeOK' /\ SentFits' /\ DraftsAgree'
<1> DEFINE row == [posting[r.job] EXCEPT !.live = FALSE]
<1>1. r.job \in Postings /\ UNCHANGED <<history, sent>>
  BY DEF Delete, DeliveryInv, DeliveryRequestsFit, IsRequest
<1>2. posting[r.job] \in DeliveryRows
  BY <1>1 DEF DeliveryInv, DeliveryTypeOK
<1>3. row \in DeliveryRows /\ row.draft = posting[r.job].draft /\ row.version = posting[r.job].version
  BY <1>2 DEF DeliveryRows
<1>4. posting' = [posting EXCEPT ![r.job] = row] /\ frozen' = [frozen EXCEPT ![r.job] = <<>>]
  BY <1>1 DEF Delete, DeliveryInv, DeliveryTypeOK
<1> HIDE DEF row
<1>5. posting' \in [Postings -> DeliveryRows] /\ frozen' \in [Postings -> Seq(Drafts)]
  BY <1>1, <1>3, <1>4 DEF DeliveryInv, DeliveryTypeOK
<1>6. \A k \in Postings : posting'[k].draft = posting[k].draft /\ posting'[k].version = posting[k].version
  BY <1>1, <1>3, <1>4 DEF DeliveryInv, DeliveryTypeOK
<1> QED
  BY <1>1, <1>5, <1>6, OthersKeep DEF DeliveryInv

\* Recording an application names the newest version, which the history has.
LEMMA RecordingKeeps ==
  ASSUME DeliveryInv, NEW r \in Requests, RecordApplication(r)
  PROVE  DeliveryTypeOK' /\ SentFits' /\ DraftsAgree'
<1> DEFINE j == r.job
           newest == Last(history[j])
           s == IF posting[j].status = "draft" THEN "applied" ELSE posting[j].status
           D == posting[j].dates \cup {"applied_at"}
           row == Moved(posting[j], s, D)
           label == IF sent[j] = NoSent THEN "applied" ELSE sent[j].status
           record == [version |-> newest.version, draft |-> newest.draft, status |-> label]
<1>1. j \in Postings /\ UNCHANGED <<history, frozen>>
  BY DEF RecordApplication, DeliveryInv, DeliveryRequestsFit, IsRequest
<1>2. CASE UNCHANGED <<sent, posting>>
  BY <1>1, <1>2 DEF DeliveryInv, DeliveryTypeOK, SentFits, DraftsAgree
<1>3. CASE ~UNCHANGED <<sent, posting>>
  <2>1. posting[j].draft # NoDraft /\ UpsertApplication(j)
    BY <1>3 DEF RecordApplication, UpsertApplication
  <2>2. posting[j] \in DeliveryRows /\ history[j] \in Seq(Versions)
    BY <1>1 DEF DeliveryInv, DeliveryTypeOK
  <2>3. history[j] # <<>>
    BY <1>1, <2>1 DEF DeliveryInv, DraftsAgree
  <2>4. newest \in Range(history[j]) /\ newest \in Versions
    BY <2>2, <2>3, NewestIsThere
  <2>5. s \in Statuses /\ D \in SUBSET Dates
    BY <2>2 DEF DeliveryRows, Statuses, Dates
  <2>6. row \in DeliveryRows /\ row.draft = posting[j].draft /\ row.version = posting[j].version
    BY <2>2, <2>5, MovedRow
  <2>7. posting' = [posting EXCEPT ![j] = row]
    <3>1. posting \in [Postings -> DeliveryRows]
      BY DEF DeliveryInv, DeliveryTypeOK
    <3>2. posting' = [posting EXCEPT ![j].dates = D,
                                     ![j].status = IF @ = "draft" THEN "applied" ELSE @]
      BY <1>3, <2>1 DEF UpsertApplication
    <3>3. [[posting[j] EXCEPT !.dates = D] EXCEPT
             !.status = IF @ = "draft" THEN "applied" ELSE @] = row
      BY <2>2 DEF Moved, DeliveryRows
    <3> HIDE DEF row, D
    <3> QED
      BY <1>1, <3>1, <3>2, <3>3
  <2>8. sent' = [sent EXCEPT ![j] = record]
    BY <1>1, <1>3, <2>1, <2>3 DEF UpsertApplication, NewestVersion, DeliveryInv, SentFits
  <2>9. label \in (Statuses \ {"draft"}) \cup {"rejected"}
    BY <1>1 DEF DeliveryInv, DeliveryTypeOK, Statuses
  <2>10. record \in [version : Nat, draft : Drafts, status : (Statuses \ {"draft"}) \cup {"rejected"}]
    BY <2>4, <2>9 DEF Versions
  <2>11. record.version = newest.version /\ record.draft = newest.draft
    OBVIOUS
  <2> HIDE DEF row, record, newest, label
  <2>12. DeliveryTypeOK'
    BY <1>1, <2>6, <2>7, <2>8, <2>10 DEF DeliveryInv, DeliveryTypeOK, SentFits
  <2>13. ASSUME NEW k \in Postings
         PROVE  posting'[k].draft = posting[k].draft /\ posting'[k].version = posting[k].version
    BY <1>1, <2>6, <2>7 DEF DeliveryInv, DeliveryTypeOK
  <2>14. ASSUME NEW k \in Postings, sent'[k] # NoSent
         PROVE  \E v \in Range(history[k]) : v.version = sent'[k].version /\ v.draft = sent'[k].draft
    <3>1. CASE k = j
      BY <1>1, <2>4, <2>8, <2>11, <3>1 DEF DeliveryInv, SentFits
    <3>2. CASE k # j
      BY <2>8, <2>14, <3>2 DEF DeliveryInv, SentFits, DraftsAgree
    <3> QED
      BY <3>1, <3>2
  <2> QED
    BY <1>1, <2>8, <2>12, <2>13, <2>14 DEF DeliveryInv, DraftsAgree, SentFits
<1> QED
  BY <1>2, <1>3

\* An outcome labels the application and the row.
LEMMA OutcomeKeeps ==
  ASSUME DeliveryInv, NEW r \in Requests, Outcome(r)
  PROVE  DeliveryTypeOK' /\ SentFits' /\ DraftsAgree'
<1> DEFINE j == r.job
           s == IF r.status = "rejected" THEN "withdrawn" ELSE r.status
           row == [posting[j] EXCEPT !.status = s]
           record == [sent[j] EXCEPT !.status = r.status]
<1>1. j \in Postings /\ UNCHANGED <<history, frozen>>
      /\ r.status \in (Statuses \ {"draft"}) \cup {"rejected"}
  BY DEF Outcome, DeliveryInv, DeliveryRequestsFit, IsRequest
<1>2. CASE UNCHANGED <<sent, posting>>
  BY <1>1, <1>2 DEF DeliveryInv, DeliveryTypeOK, SentFits, DraftsAgree
<1>3. CASE ~UNCHANGED <<sent, posting>>
  <2>1. sent[j] # NoSent /\ posting[j] \in DeliveryRows
    BY <1>1, <1>3 DEF Outcome, DeliveryInv, DeliveryTypeOK
  <2>2. sent[j] \in [version : Nat, draft : Drafts, status : (Statuses \ {"draft"}) \cup {"rejected"}]
    BY <1>1, <2>1 DEF DeliveryInv, DeliveryTypeOK
  <2>3. /\ record \in [version : Nat, draft : Drafts, status : (Statuses \ {"draft"}) \cup {"rejected"}]
        /\ record.version = sent[j].version /\ record.draft = sent[j].draft
    BY <1>1, <2>2
  <2>4. s \in Statuses
    BY <1>1 DEF Statuses
  <2>5. row \in DeliveryRows /\ row.draft = posting[j].draft /\ row.version = posting[j].version
    BY <2>1, <2>4 DEF DeliveryRows
  <2>6. sent' = [sent EXCEPT ![j] = record]
    BY <1>1, <2>1 DEF Outcome, DeliveryInv, SentFits
  <2>7. posting' = [posting EXCEPT ![j] = row] \/ posting' = posting
    BY <1>1, <2>1 DEF Outcome, DeliveryInv, DeliveryTypeOK
  <2> HIDE DEF row, record
  <2>8. DeliveryTypeOK'
    BY <1>1, <2>3, <2>5, <2>6, <2>7 DEF DeliveryInv, DeliveryTypeOK, SentFits
  <2>9. ASSUME NEW k \in Postings
        PROVE  posting'[k].draft = posting[k].draft /\ posting'[k].version = posting[k].version
    BY <1>1, <2>5, <2>7 DEF DeliveryInv, DeliveryTypeOK
  <2>10. ASSUME NEW k \in Postings, sent'[k] # NoSent
         PROVE  /\ sent[k] # NoSent
                /\ sent'[k].version = sent[k].version /\ sent'[k].draft = sent[k].draft
    <3>1. CASE k = j
      BY <1>1, <2>1, <2>3, <2>6, <3>1 DEF DeliveryInv, SentFits
    <3>2. CASE k # j
      BY <2>6, <2>10, <3>2 DEF DeliveryInv, SentFits
    <3> QED
      BY <3>1, <3>2
  <2> QED
    <3>1. SentFits'
      BY <2>6 DEF DeliveryInv, SentFits
    <3>2. DraftsAgree'
      BY <1>1, <2>9, <2>10 DEF DeliveryInv, DraftsAgree
    <3> QED
      BY <2>8, <3>1, <3>2
<1> QED
  BY <1>2, <1>3

\* The steps of every request keep what the rows have to do with each other.
LEMMA RowsKeep ==
  ASSUME DeliveryInv, [DeliveryNext]_deliveryVars
  PROVE  DeliveryTypeOK' /\ SentFits' /\ DraftsAgree'
<1>1. CASE UNCHANGED rowVars
  BY <1>1 DEF DeliveryInv, rowVars, DeliveryTypeOK, SentFits, DraftsAgree
<1>2. CASE ~UNCHANGED rowVars
  <2>1. PICK r \in Requests :
          \/ SaveFinal(r) \/ RollbackSave(r) \/ PatchWrite(r) \/ RecordApplication(r)
          \/ Outcome(r) \/ BulkWrite(r) \/ Delete(r)
    BY <1>2 DEF DeliveryNext, deliveryVars, rowVars, RollbackRead, PatchRead, BulkLookup, BulkStore
  <2> QED
    BY <2>1, WritingKeeps, PatchKeeps, RecordingKeeps, OutcomeKeeps, BulkKeeps, DeletionKeeps
<1> QED
  BY <1>1, <1>2

\* A request stays the request it is, and only a rollback's read leads to "restore".
LEMMA DeliveryRequestsKeep ==
  ASSUME DeliveryInv, [DeliveryNext]_deliveryVars
  PROVE  DeliveryRequestsFit' /\ RestoresFit'
<1>1. CASE UNCHANGED deliveryVars
  BY <1>1 DEF DeliveryInv, deliveryVars, DeliveryRequestsFit, RestoresFit, Requests
<1>2. CASE DeliveryNext
  <2>1. PICK r \in Requests :
          \/ SaveFinal(r) \/ RollbackRead(r) \/ RollbackSave(r)
          \/ PatchRead(r) \/ PatchWrite(r) \/ RecordApplication(r) \/ Outcome(r)
          \/ BulkLookup(r) \/ BulkWrite(r) \/ BulkStore(r) \/ Delete(r)
    BY <1>2 DEF DeliveryNext
  <2>2. /\ \E step : place' = [place EXCEPT ![r] = step]
        /\ known' = known \/ \E what : known' = [known EXCEPT ![r] = what]
    BY <2>1 DEF SaveFinal, RollbackRead, RollbackSave, PatchRead, PatchWrite, RecordApplication,
                Outcome, BulkLookup, BulkWrite, BulkStore, Delete, Finish, Wait
  <2>3. Requests' = Requests
    BY <2>2 DEF Requests
  <2>4. DeliveryRequestsFit'
    BY <2>2, <2>3 DEF DeliveryInv, DeliveryRequestsFit
  <2>5. place'[r] = "restore" => known'[r].draft \in Drafts /\ r.kind = "rollback"
    <3>1. SUFFICES ASSUME place'[r] = "restore" PROVE known'[r].draft \in Drafts /\ r.kind = "rollback"
      OBVIOUS
    <3>2. RollbackRead(r)
      BY <2>1, <3>1 DEF SaveFinal, RollbackRead, RollbackSave, PatchRead, PatchWrite,
           RecordApplication, Outcome, BulkLookup, BulkWrite, BulkStore, Delete, Finish, Wait,
           DeliveryInv, DeliveryRequestsFit
    <3>3. r.version \in DOMAIN history[r.job]
          /\ known' = [known EXCEPT ![r] = [NothingKnown EXCEPT !.draft = history[r.job][r.version].draft]]
      BY <3>1, <3>2 DEF RollbackRead, Finish, Wait, DeliveryInv, DeliveryRequestsFit
    <3>4. history[r.job] \in Seq(Versions)
      BY <3>2 DEF RollbackRead, DeliveryInv, DeliveryRequestsFit, IsRequest, DeliveryTypeOK
    <3>5. history[r.job][r.version] \in Versions
      BY <3>3, <3>4
    <3>6. known'[r].draft = history[r.job][r.version].draft
      BY <3>3 DEF NothingKnown, DeliveryInv, DeliveryRequestsFit
    <3> QED
      BY <3>2, <3>5, <3>6 DEF Versions, RollbackRead
  <2>6. \A q \in Requests \ {r} : place'[q] = place[q] /\ known'[q] = known[q]
    BY <2>2 DEF DeliveryInv, DeliveryRequestsFit
  <2> QED
    BY <2>3, <2>4, <2>5, <2>6 DEF DeliveryInv, RestoresFit
<1> QED
  BY <1>1, <1>2

-----------------------------------------------------------------------------
(* Delivery: theorems *)

\* The invariant holds when the first request comes in.
LEMMA DeliveryStarts ==
  DeliveryInit => DeliveryInv
<1> SUFFICES ASSUME DeliveryInit PROVE DeliveryInv
  OBVIOUS
<1>1. PICK mix \in DeliveryMixes : place = [r \in mix |-> "start"] /\ known = [r \in mix |-> NothingKnown]
  BY DEF DeliveryInit
<1>2. DeliveryRequestsFit /\ RestoresFit
  BY <1>1 DEF DeliveryRequestsFit, RestoresFit, Requests
<1>3. DeliveryTypeOK
  <2>1. [live |-> TRUE, status |-> "draft", dates |-> {}, draft |-> NoDraft, version |-> 0] \in DeliveryRows
    BY DEF DeliveryRows, Statuses
  <2>2. posting \in [Postings -> DeliveryRows]
    BY <2>1 DEF DeliveryInit
  <2>3. history \in [Postings -> Seq(Versions)] /\ frozen \in [Postings -> Seq(Drafts)]
    BY DEF DeliveryInit
  <2> QED
    BY <2>2, <2>3 DEF DeliveryInit, DeliveryTypeOK
<1>4. SentFits /\ DraftsAgree
  BY DEF DeliveryInit, SentFits, DraftsAgree
<1> QED
  BY <1>2, <1>3, <1>4 DEF DeliveryInv

\* The strengthened invariant holds in every reachable state: it adds to the agreement of
\* drafts and history that a rollback under way brings back a draft it found in the history.
THEOREM DeliveryInvariance == DeliverySpec => []DeliveryInv
<1>1. DeliveryInv /\ [DeliveryNext]_deliveryVars => DeliveryInv'
  BY RowsKeep, DeliveryRequestsKeep DEF DeliveryInv
<1> QED
  BY <1>1, DeliveryStarts, PTL DEF DeliverySpec

\* However the requests of final_drafts, PATCH, bulk and outcome routes interleave, for any
\* number of postings: the draft a row shows is its newest version, numbered by the length
\* of its history, and every application names a version that is still in it.
THEOREM DraftsAlwaysAgree == DeliverySpec => []DraftsAgree
<1>1. DeliveryInv => DraftsAgree
  BY DEF DeliveryInv
<1> QED
  BY <1>1, DeliveryInvariance, PTL

HIDE DeliveryAssumption

-----------------------------------------------------------------------------
(* Master resumes: the inductive invariant *)

\* A row is a record with these fields, whatever its copied diagnosis and profile say.
ResumeFields == {"live", "versions", "current", "job", "diagnosis", "profile"}

ResumeRowFits ==
  /\ resume = [f \in ResumeFields |-> resume[f]]
  /\ resume.versions \in Seq(Contents) /\ resume.current \in DOMAIN resume.versions
  /\ resume.job \in Diagnoses \cup {NoRun}

ResumeRequestsFit ==
  /\ \A r \in Asked : IsResumeRequest(r)
  /\ at = [r \in Asked |-> at[r]]
  /\ seen = [r \in Asked |-> seen[r]]
  /\ \A r \in Asked : at[r] \in {"read", "look"} => seen[r].job \in Diagnoses \cup {NoRun}
  /\ run = [r \in Diagnoses |-> run[r]] /\ \A r \in Diagnoses : "phase" \in DOMAIN run[r]
  /\ served = [r \in DOMAIN served |-> served[r]]

VersionsKept ==
  /\ Len(resume'.versions) >= Len(resume.versions)
  /\ \A v \in DOMAIN resume.versions : resume'.versions[v] = resume.versions[v]

\* What the type invariant says of everything but the row.
RestFits ==
  /\ model \in DiagModels
  /\ \A r \in Diagnoses :
       run[r].phase \in {"none", "queued", "made", "failed", "stored", "succeeded", "pruned"}
  /\ \A r \in Asked : at[r] \in {"start", "read", "link", "clear", "look", "done"}

\* A run begins when its request queues it; one that is over says what it diagnosed and with
\* which model.
RunsSayWhat ==
  /\ \A r \in Diagnoses : at[r] \in {"start", "read"} => run[r].phase = "none"
  /\ \A r \in Diagnoses : run[r].phase \in {"made", "failed", "stored", "succeeded", "pruned"} =>
       run[r] = [f \in {"phase", "content", "model"} |-> run[r][f]]

\* The row's copy of a diagnosis was made by a run.
RowIsGenuine == resume.diagnosis # NoneYet => WasMade(resume.diagnosis.content, resume.diagnosis.model)

ResumesInv == RunsSayWhat /\ RowIsGenuine /\ RestFits /\ ResumeRowFits /\ ResumeRequestsFit /\ ServedDiagnosisFits

USE ResumesAssumption

LEMMA ResumesStart == ResumesInit => ResumesInv
<1> SUFFICES ASSUME ResumesInit PROVE ResumesInv
  OBVIOUS
<1>1. resume = [live |-> TRUE, versions |-> <<FirstContent>>, current |-> 1, job |-> NoRun,
               diagnosis |-> NoneYet, profile |-> NoneYet]
  BY DEF ResumesInit
<1>2. ResumeRowFits
  BY <1>1 DEF ResumeRowFits, ResumeFields
<1>3. PICK mix \in ResumeMixes :
       /\ at = [r \in mix |-> "start"]
       /\ run = [r \in {q \in mix : q.kind = "diagnose"} |-> [phase |-> "none"]]
       /\ seen = [r \in mix |-> NoneYet]
       /\ served = [r \in {q \in mix : q.kind = "tailor"} |-> NoneYet]
  BY DEF ResumesInit
<1>4. ResumeRequestsFit
  BY <1>3 DEF ResumeRequestsFit, Asked, Diagnoses
<1>5. RestFits
  BY <1>3 DEF RestFits, Asked, Diagnoses, ResumesInit
<1>6. ServedDiagnosisFits
  BY <1>3 DEF ServedDiagnosisFits
<1>7. RunsSayWhat /\ RowIsGenuine
  BY <1>1, <1>3 DEF RunsSayWhat, RowIsGenuine, Diagnoses, Asked
<1> QED
  BY <1>2, <1>4, <1>5, <1>6, <1>7 DEF ResumesInv

\* A step asks nothing new of anyone.
LEMMA SameRequests ==
  ASSUME ResumeRequestsFit, NEW r \in Asked, NEW x, To(r, x) \/ UNCHANGED at
  PROVE  /\ Asked' = Asked /\ Diagnoses' = Diagnoses
         /\ at' = [q \in Asked |-> at'[q]]
BY DEF ResumeRequestsFit, Asked, Diagnoses, To

\* What a run made stays made; a step that leaves runs as they are keeps what is said of them.
LEMMA MadeStaysMade ==
  ASSUME UNCHANGED Diagnoses, NEW c, NEW m, WasMade(c, m),
         \A q \in Diagnoses : run[q].phase \in {"made", "stored", "succeeded", "pruned"} =>
           /\ run'[q].phase \in {"made", "stored", "succeeded", "pruned"}
           /\ run'[q].content = run[q].content /\ run'[q].model = run[q].model
  PROVE  WasMade(c, m)'
BY DEF WasMade

\* Writing a field that is no version leaves a row.
LEMMA FieldWrite ==
  ASSUME ResumeRowFits, UNCHANGED Diagnoses, NEW f \in {"live", "job", "diagnosis", "profile"}, NEW v,
         f = "job" => v \in Diagnoses \cup {NoRun},
         resume' = [resume EXCEPT ![f] = v]
  PROVE  /\ ResumeRowFits' /\ resume'.versions = resume.versions
         /\ resume'.diagnosis = IF f = "diagnosis" THEN v ELSE resume.diagnosis
BY DEF ResumeRowFits, ResumeFields

LEMMA RequestSteps ==
  ASSUME ResumesInv, NEW r \in Asked,
         \/ Read(r) \/ QueueDiagnosis(r) \/ FindDangling(r)
         \/ LookInRegistry(r) \/ LookInRow(r) \/ SwitchModel(r)
  PROVE  ResumesInv' /\ UNCHANGED resume
<1> USE DEF ResumesInv, RestFits, ResumeRequestsFit, ServedDiagnosisFits
<1>a. PICK x \in {"start", "read", "link", "clear", "look", "done"} : To(r, x)
  BY DEF Read, QueueDiagnosis, FindDangling, LookInRegistry, LookInRow, SwitchModel
<1>1. UNCHANGED resume
  BY DEF Read, QueueDiagnosis, FindDangling, LookInRegistry, LookInRow, SwitchModel
<1>2. Asked' = Asked /\ Diagnoses' = Diagnoses /\ at' = [q \in Asked |-> at'[q]]
  BY <1>a, SameRequests
<1>3. \A q \in Asked : at'[q] \in {"start", "read", "link", "clear", "look", "done"}
  BY <1>a, <1>2 DEF To
<1>4. ResumeRowFits'
  BY <1>1, <1>2 DEF ResumeRowFits
<1>5. ResumeRequestsFit'
  BY <1>2, <1>3, <1>a DEF ResumeRowFits, To, Read, QueueDiagnosis, FindDangling, LookInRegistry, LookInRow, SwitchModel
<1>6. RestFits'
  BY <1>2, <1>3 DEF Read, QueueDiagnosis, FindDangling, LookInRegistry, LookInRow, SwitchModel
<1>7. \A q \in Diagnoses : run'[q] = run[q] \/ (run[q].phase = "none" /\ run'[q].phase = "queued")
  BY DEF RunsSayWhat, Diagnoses, Read, QueueDiagnosis, FindDangling, LookInRegistry, LookInRow, SwitchModel
<1>8. ASSUME NEW c, NEW m, WasMade(c, m) PROVE WasMade(c, m)'
  BY <1>2, <1>7, <1>8, MadeStaysMade
<1>9. ServedDiagnosisFits'
  <2>1. CASE UNCHANGED served
    BY <1>8, <2>1
  <2>2. ASSUME NEW d, LookInRegistry(r) \/ LookInRow(r), served' = [served EXCEPT ![r] = d], d # NoneYet, r \in DOMAIN served
        PROVE  /\ d.made = d.for /\ d.by = d.with /\ WasMade(d.made, d.by)
    <3>f. r \in DOMAIN served => served'[r] = d
      BY <2>2
    <3>1. CASE LookInRegistry(r) /\ r \in DOMAIN served
      BY <2>2, <3>1, <3>f DEF LookInRegistry, FitsContent, WasMade
    <3>2. CASE LookInRow(r) /\ r \in DOMAIN served
      BY <2>2, <3>2, <3>f DEF LookInRow, FitsContent, RowIsGenuine
    <3> QED
      BY <2>2, <3>1, <3>2
  <2> QED
    BY <1>8, <2>1, <2>2 DEF Read, QueueDiagnosis, FindDangling, LookInRegistry, LookInRow, SwitchModel
<1>10. RunsSayWhat' /\ RowIsGenuine'
  <2>1. at'[r] \in {"start", "read"} => at[r] = "start" /\ UNCHANGED run
    BY <1>2 DEF To, Read, QueueDiagnosis, FindDangling, LookInRegistry, LookInRow, SwitchModel
  <2>2. \A q \in Asked \ {r} : at'[q] = at[q]
    BY <1>a DEF To
  <2>3. \A q \in Diagnoses : q # r => run'[q] = run[q]
    BY DEF Read, QueueDiagnosis, FindDangling, LookInRegistry, LookInRow, SwitchModel
  <2>4. \A q \in Diagnoses : at'[q] \in {"start", "read"} => run'[q].phase = "none"
    <3> TAKE q \in Diagnoses
    <3>1. CASE q = r
      BY <2>1, <3>1 DEF RunsSayWhat
    <3>2. CASE q # r
      BY <2>2, <2>3, <3>2 DEF RunsSayWhat, Diagnoses
    <3> QED
      BY <3>1, <3>2
  <2>5. RowIsGenuine'
    BY <1>1, <1>8 DEF RowIsGenuine
  <2> QED
    BY <1>2, <1>7, <2>4, <2>5 DEF RunsSayWhat
<1> QED
  BY <1>1, <1>4, <1>5, <1>6, <1>9, <1>10

LEMMA RowSteps ==
  ASSUME ResumesInv, NEW r \in Asked,
         \/ Edit(r) \/ Rollback(r) \/ Drop(r) \/ LinkDiagnosis(r) \/ ClearDangling(r)
         \/ Extract(r) \/ HandEdit(r)
  PROVE  ResumesInv' /\ VersionsKept
<1> USE DEF ResumesInv
<1> DEFINE Row == resume'
<1>1. To(r, "done") /\ UNCHANGED <<model, run, seen, served>>
  BY DEF Edit, Rollback, Drop, LinkDiagnosis, ClearDangling, Extract, HandEdit, SaveProfile
<1>2. Asked' = Asked /\ Diagnoses' = Diagnoses /\ at' = [q \in Asked |-> at'[q]]
  BY <1>1, SameRequests
<1>3. RestFits' /\ ResumeRequestsFit'
  BY <1>1, <1>2 DEF RestFits, ResumeRequestsFit, To
<1>w. \A c, m : WasMade(c, m)' <=> WasMade(c, m)
  BY <1>1, <1>2 DEF WasMade
<1>s. RunsSayWhat' /\ ServedDiagnosisFits'
  <2>1. \A q \in Asked : at'[q] \in {"start", "read"} => at'[q] = at[q]
    BY <1>1 DEF To, ResumeRequestsFit
  <2> QED
    BY <1>1, <1>2, <1>w, <2>1 DEF RunsSayWhat, ServedDiagnosisFits, Diagnoses
<1>q. ASSUME ResumeRowFits', VersionsKept, resume'.diagnosis = resume.diagnosis
      PROVE  ResumesInv' /\ VersionsKept
  BY <1>3, <1>w, <1>s, <1>q DEF RowIsGenuine
<1>4. CASE UNCHANGED resume
  BY <1>2, <1>q, <1>4 DEF ResumeRowFits, VersionsKept
<1>5. CASE Edit(r) /\ ~UNCHANGED resume
  <2>1. r.content \in Contents
    BY <1>5 DEF Edit, ResumeRequestsFit, IsResumeRequest
  <2> DEFINE n == NextVersion(resume)
             after == [v \in 1 .. n |-> IF v = n THEN r.content ELSE resume.versions[v]]
  <2>2. resume' = [resume EXCEPT !["current"] = n, !["versions"] = after]
    BY <1>5 DEF Edit
  <2>3. after \in Seq(Contents) /\ Len(after) = Len(resume.versions) + 1 /\ n \in DOMAIN after
    BY <2>1 DEF ResumeRowFits, NextVersion
  <2>4. \A v \in DOMAIN resume.versions : after[v] = resume.versions[v]
    BY DEF ResumeRowFits, NextVersion
  <2> HIDE DEF n, after
  <2>5. resume'.current = n /\ resume'.versions = after /\ resume'.job = resume.job
        /\ resume'.diagnosis = resume.diagnosis /\ resume' = [f \in ResumeFields |-> resume'[f]]
    BY <2>2 DEF ResumeRowFits, ResumeFields
  <2> QED
    BY <1>2, <1>q, <2>3, <2>4, <2>5 DEF ResumeRowFits, VersionsKept
<1>6. CASE Rollback(r) /\ ~UNCHANGED resume
  <2>1. resume' = [resume EXCEPT !["current"] = r.version] /\ r.version \in DOMAIN resume.versions
    BY <1>6 DEF Rollback
  <2>2. /\ resume'.current = r.version /\ resume'.versions = resume.versions /\ resume'.job = resume.job
        /\ resume'.diagnosis = resume.diagnosis /\ resume' = [f \in ResumeFields |-> resume'[f]]
    BY <2>1 DEF ResumeRowFits, ResumeFields
  <2> QED
    BY <1>2, <1>q, <2>1, <2>2 DEF ResumeRowFits, VersionsKept
<1>7. CASE (Drop(r) \/ LinkDiagnosis(r) \/ ClearDangling(r) \/ Extract(r) \/ HandEdit(r)) /\ ~UNCHANGED resume
  <2>0. PICK f \in {"live", "job", "profile"} : \E v :
          (f = "job" => v \in Diagnoses \cup {NoRun}) /\ resume' = [resume EXCEPT ![f] = v]
    BY <1>7 DEF Drop, LinkDiagnosis, ClearDangling, Extract, HandEdit, SaveProfile, Diagnoses
  <2>1. PICK v : (f = "job" => v \in Diagnoses \cup {NoRun}) /\ resume' = [resume EXCEPT ![f] = v]
    BY <2>0
  <2>2. ResumeRowFits' /\ resume'.versions = resume.versions /\ resume'.diagnosis = resume.diagnosis
    BY <1>2, <2>1, FieldWrite
  <2>3. VersionsKept
    BY <2>2 DEF VersionsKept, ResumeRowFits
  <2> QED
    BY <1>q, <2>2, <2>3
<1> QED
  BY <1>4, <1>5, <1>6, <1>7

\* What runs do to themselves.
RunsGoOn ==
  \A q \in Diagnoses : run[q].phase \in {"made", "stored", "succeeded", "pruned"} =>
    /\ run'[q].phase \in {"made", "stored", "succeeded", "pruned"}
    /\ run'[q].content = run[q].content /\ run'[q].model = run[q].model

LEMMA RunSteps ==
  ASSUME ResumesInv, NEW r \in Diagnoses, RunDiagnosis(r) \/ RecordRun(r) \/ PruneRun(r) \/ StoreSnapshot(r)
  PROVE  ResumesInv' /\ VersionsKept
<1> USE DEF ResumesInv
<1>1. UNCHANGED <<at, model, seen, served>> /\ Asked' = Asked /\ Diagnoses' = Diagnoses
  BY DEF RunDiagnosis, RecordRun, PruneRun, StoreSnapshot, Asked, Diagnoses
<1>2. /\ run' = [q \in Diagnoses |-> run'[q]]
      /\ \A q \in Diagnoses : "phase" \in DOMAIN run'[q]
      /\ \A q \in Diagnoses : run'[q].phase \in {"none", "queued", "made", "failed", "stored", "succeeded", "pruned"}
  BY DEF RunDiagnosis, RecordRun, PruneRun, StoreSnapshot, RestFits, ResumeRequestsFit
<1>g. RunsGoOn /\ RunsSayWhat'
  <2>1. CASE RunDiagnosis(r)
    <3>1. PICK p \in {"made", "failed"} :
            run' = [run EXCEPT ![r] = [phase |-> p, content |-> @.content, model |-> model]]
      BY <2>1 DEF RunDiagnosis
    <3>2. /\ run'[r] = [f \in {"phase", "content", "model"} |-> run'[r][f]] /\ run'[r].phase = p
          /\ \A q \in Diagnoses \ {r} : run'[q] = run[q]
      BY <3>1 DEF ResumeRequestsFit
    <3>3. run[r].phase = "queued"
      BY <2>1 DEF RunDiagnosis
    <3> QED
      BY <1>1, <3>2, <3>3 DEF RunsGoOn, RunsSayWhat
  <2>2. CASE RecordRun(r) \/ PruneRun(r) \/ StoreSnapshot(r)
    <3>1. PICK p \in {"succeeded", "pruned", "stored"} : run' = [run EXCEPT ![r].phase = p]
      BY <2>2 DEF RecordRun, PruneRun, StoreSnapshot
    <3>2. run[r].phase \in {"made", "failed", "stored", "succeeded"}
      BY <2>2 DEF RecordRun, PruneRun, StoreSnapshot
    <3>3. /\ run'[r] = [f \in {"phase", "content", "model"} |-> run'[r][f]]
          /\ run'[r].phase = p /\ run'[r].content = run[r].content /\ run'[r].model = run[r].model
          /\ \A q \in Diagnoses \ {r} : run'[q] = run[q]
      BY <3>1, <3>2 DEF RunsSayWhat, ResumeRequestsFit
    <3> QED
      BY <1>1, <3>2, <3>3 DEF RunsGoOn, RunsSayWhat
  <2> QED
    BY <2>1, <2>2
<1>w. \A c, m : WasMade(c, m) => WasMade(c, m)'
  BY <1>1, <1>g, MadeStaysMade DEF RunsGoOn
<1>3. RestFits' /\ ResumeRequestsFit' /\ ServedDiagnosisFits'
  BY <1>1, <1>2, <1>w DEF RestFits, ResumeRequestsFit, ServedDiagnosisFits
<1>4. CASE UNCHANGED resume
  BY <1>1, <1>3, <1>4, <1>g, <1>w DEF ResumeRowFits, VersionsKept, RowIsGenuine
<1>5. CASE ~UNCHANGED resume
  <2>1. StoreSnapshot(r)
    BY <1>5 DEF RunDiagnosis, RecordRun, PruneRun
  <2>0. PICK d : d = [content |-> run[r].content, model |-> run[r].model]
    OBVIOUS
  <2>2. resume' = [resume EXCEPT !["diagnosis"] = d]
    BY <1>5, <2>0, <2>1 DEF StoreSnapshot
  <2>3. ResumeRowFits' /\ resume'.versions = resume.versions /\ resume'.diagnosis = d
    BY <1>1, <2>2, FieldWrite
  <2>4. WasMade(d.content, d.model)'
    <3>1. WasMade(d.content, d.model)
      BY <2>0, <2>1 DEF StoreSnapshot, WasMade
    <3> QED
      BY <3>1, <1>w
  <2>5. VersionsKept
    BY <2>3 DEF VersionsKept, ResumeRowFits
  <2> QED
    BY <1>3, <1>g, <2>3, <2>4, <2>5 DEF RowIsGenuine
<1> QED
  BY <1>4, <1>5

LEMMA ResumesKeep == ASSUME ResumesInv, [ResumesNext]_resumeVars PROVE ResumesInv' /\ VersionsKept
<1>1. ASSUME NEW r \in Asked,
             \/ Read(r) \/ QueueDiagnosis(r) \/ FindDangling(r)
             \/ LookInRegistry(r) \/ LookInRow(r) \/ SwitchModel(r)
      PROVE  ResumesInv' /\ VersionsKept
  <2>1. ResumesInv' /\ UNCHANGED resume
    BY <1>1, RequestSteps
  <2> QED
    BY <2>1 DEF VersionsKept, ResumesInv, ResumeRowFits
<1>2. CASE Backfill
  <2>0. PICK d : d = [content |-> run[resume.job].content, model |-> run[resume.job].model]
    OBVIOUS
  <2>1. /\ UNCHANGED <<model, run, at, seen, served>> /\ UNCHANGED <<Asked, Diagnoses>>
        /\ resume' = [resume EXCEPT !["diagnosis"] = d]
        /\ resume.job # NoRun /\ run[resume.job].phase = "succeeded"
    BY <1>2, <2>0 DEF Backfill, Asked, Diagnoses
  <2>2. ResumeRowFits' /\ resume'.versions = resume.versions /\ resume'.diagnosis = d
    BY <2>1, FieldWrite DEF ResumesInv
  <2>3. \A c, m : WasMade(c, m)' <=> WasMade(c, m)
    BY <2>1 DEF WasMade
  <2>4. WasMade(d.content, d.model)
    BY <2>0, <2>1 DEF WasMade, ResumesInv, ResumeRowFits
  <2>5. RestFits' /\ ResumeRequestsFit' /\ ServedDiagnosisFits' /\ RunsSayWhat'
    BY <2>1, <2>3 DEF ResumesInv, RestFits, ResumeRequestsFit, ServedDiagnosisFits, RunsSayWhat
  <2> QED
    BY <2>2, <2>3, <2>4, <2>5 DEF ResumesInv, VersionsKept, RowIsGenuine, ResumeRowFits
<1>3. CASE UNCHANGED resumeVars
  <2>1. \A c, m : WasMade(c, m)' <=> WasMade(c, m)
    BY <1>3 DEF resumeVars, WasMade, Asked, Diagnoses
  <2> QED
   BY <1>3, <2>1 DEF resumeVars, ResumesInv, VersionsKept, RestFits, ResumeRequestsFit, ServedDiagnosisFits,
     ResumeRowFits, RunsSayWhat, RowIsGenuine, Asked, Diagnoses
<1> QED
  BY <1>1, <1>2, <1>3, RowSteps, RunSteps DEF ResumesNext

\* What the invariant says of the types.
LEMMA ResumesTypesFollow == ASSUME ResumesInv PROVE ResumesTypeOK
BY DEF ResumesInv, ResumesTypeOK, RestFits, ResumeRowFits

-----------------------------------------------------------------------------
(* Master resumes: theorems *)

\* The resume row, the requests on it and the diagnosis runs of users.py and routers/resumes.py
\* fit each other: whatever is stored or served was made by a run.
THEOREM ResumesInvariance == ResumesSpec => []ResumesInv
BY ResumesStart, ResumesKeep, PTL DEF ResumesSpec

\* The variables keep their types.
THEOREM ResumesTypes == ResumesSpec => []ResumesTypeOK
BY ResumesTypesFollow, ResumesInvariance, PTL

\* Whichever edits, rollbacks, diagnoses and switches of the model interleave, a diagnosis that
\* is served was made by a run that said so, from the content and with the model that the
\* answer names.
THEOREM ServedFits == ResumesSpec => []ServedDiagnosisFits
<1>1. ResumesInv => ServedDiagnosisFits
  BY DEF ResumesInv
<1> QED
  BY <1>1, ResumesInvariance, PTL

\* No request takes a version from a resume or changes the text of one.
THEOREM VersionsAreKept == ResumesSpec => VersionsStay
<1>1. ResumesInv /\ [ResumesNext]_resumeVars => [VersionsKept]_resumeVars
  BY ResumesKeep
<1>2. VersionsKept <=> (/\ Len(resume'.versions) >= Len(resume.versions)
     /\ \A v \in DOMAIN resume.versions : resume'.versions[v] = resume.versions[v])
  BY DEF VersionsKept
<1> QED
  BY <1>1, <1>2, ResumesInvariance, PTL DEF ResumesSpec, VersionsStay

HIDE ResumesAssumption

-----------------------------------------------------------------------------
(* Settings: the inductive invariant *)

SettingsFields == {"provider", "model", "key", "cap", "vocabulary", "auto", "path", "last", "token"}

\* A row is a function on its fields, whatever they hold.
IsSettingsRow(row) == row = [f \in SettingsFields |-> row[f]]

\* A row passes the validation but for a vocabulary that is still to be repaired.
IsSound(row) ==
  /\ row.model # Unset => row.provider # Unset
  /\ row.auto => row.path # Unset
  /\ row.cap # Unset => row.cap <= PlatformMax
  /\ row.vocabulary \in {"builtin", "custom", "corrupt"}

Holders == DOMAIN turn

RowsAreRows == IsSettingsRow(settings) /\ \A t \in Holders : IsSettingsRow(mine[t])

SettingsSteps == {"list", "token", "stored", "get", "heal", "read", "save", "record", "switch", "resolve", "done"}

\* The step after a get_settings is not the repair, which belongs to it.
HoldersFit ==
  /\ turn \in [Holders -> [do : SettingsSteps, then : SettingsSteps \ {"heal"}]]
  /\ mine = [t \in Holders |-> mine[t]]
  /\ AutoSync \in Holders

\* A copy that a repair is about to write from has a repaired vocabulary.
RepairsAreRepaired == \A t \in Holders : turn[t].do = "heal" => mine[t].vocabulary = "builtin"

SettingsInv == RowsAreRows /\ HoldersFit /\ IsSound(settings) /\ RepairsAreRepaired

-----------------------------------------------------------------------------
(* What becomes of a row *)

LEMMA DefaultIsRow == IsSettingsRow(default_settings)
BY DEF default_settings, IsSettingsRow, SettingsFields

\* A merge keeps the fields of the row it starts from.
LEMMA MergeIsRow ==
  ASSUME NEW row, NEW updates, IsSettingsRow(row)
  PROVE  IsSettingsRow(_merge_defaults(row, updates))
BY DEF IsSettingsRow, _merge_defaults, SettingsFields

\* What passes the validation is sound.
LEMMA ValidIsSound ==
  ASSUME NEW row, _validate_settings(row)
  PROVE  IsSound(row)
BY DEF _validate_settings, IsSound

\* The row that is written with the outcome of a sync is the one that was validated.
LEMMA RecordedRow ==
  ASSUME NEW row, IsSettingsRow(row)
  PROVE  _merge_defaults(row, [last |-> "recent"]) = [row EXCEPT !.last = "recent"]
BY DEF IsSettingsRow, _merge_defaults, SettingsFields

\* Any one field of a row may be overwritten.
LEMMA ExceptIsRow ==
  ASSUME NEW row, NEW v, NEW f \in SettingsFields, IsSettingsRow(row)
  PROVE  IsSettingsRow([row EXCEPT ![f] = v])
BY DEF IsSettingsRow

-----------------------------------------------------------------------------
(* The steps *)

LEMMA SettingsStart == ASSUME SettingsInit PROVE SettingsInv
<1>1. PICK v \in {"builtin", "corrupt"}, p \in {"csv", Unset} :
        settings = [default_settings EXCEPT !.vocabulary = v, !.path = p, !.auto = p # Unset]
  BY DEF SettingsInit
<1>2. PICK mix \in SettingsMixes :
        /\ turn = [t \in mix \cup {AutoSync} |->
             CASE t = AutoSync -> At("list", "list")
               [] t # AutoSync /\ t.kind = "renew" -> At("token", "done")
               [] t # AutoSync /\ t.kind = "config" -> At("stored", "done")
               [] t # AutoSync /\ t.kind = "page" -> At("get", "token")
               [] t # AutoSync /\ t.kind = "sync" -> At("get", "read")
               [] t # AutoSync /\ t.kind \in {"put", "reset"} -> At("get", "save")]
        /\ mine = [t \in mix \cup {AutoSync} |-> default_settings]
  BY DEF SettingsInit
<1>3. IsSettingsRow(settings) /\ IsSound(settings)
  BY <1>1 DEF default_settings, IsSettingsRow, IsSound, SettingsFields
<1>4. Holders = mix \cup {AutoSync}
  BY <1>2 DEF Holders
<1>5. \A t \in Holders : IsSettingsRow(mine[t])
  BY <1>2, <1>4, DefaultIsRow
<1>6. ASSUME NEW t \in Holders
      PROVE  turn[t] \in [do : SettingsSteps \ {"heal"}, then : SettingsSteps \ {"heal"}]
  <2>1. t # AutoSync => t.kind \in Kinds
    BY <1>4, SettingsAssumption DEF IsSettingsRequest
  <2> QED
    BY <1>2, <1>4, <2>1 DEF Kinds, At, SettingsSteps
<1>7. HoldersFit /\ RepairsAreRepaired
  BY <1>2, <1>4, <1>6 DEF HoldersFit, RepairsAreRepaired
<1> QED
  BY <1>3, <1>5, <1>7 DEF SettingsInv, RowsAreRows

\* The steps that write the row.
LEMMA WritersKeep ==
  ASSUME SettingsInv, NEW t \in Holders, Heal(t) \/ SaveSettings(t) \/ Token(t) \/ RecordSync(t)
  PROVE  SettingsInv'
<1> USE DEF SettingsInv, HoldersFit, RowsAreRows, RepairsAreRepaired, Holders, GoTo, Forget, At, Ended, SettingsSteps
<1>1. CASE Heal(t)
  <2>1. settings' = [settings EXCEPT !["vocabulary"] = "builtin"]
    BY <1>1 DEF Heal
  <2>2. IsSettingsRow(settings')
    BY <2>1, ExceptIsRow DEF SettingsFields
  <2>3. IsSound(settings')
    BY <2>1 DEF IsSound, IsSettingsRow, SettingsFields
  <2> QED
    BY <1>1, <2>2, <2>3 DEF Heal
<1>2. CASE SaveSettings(t)
  <2>1. IsSettingsRow(settings') /\ IsSound(settings')
    BY <1>2, MergeIsRow, ValidIsSound DEF SaveSettings, Written
  <2> QED
    BY <1>2, <2>1, DefaultIsRow DEF SaveSettings
<1>3. CASE Token(t)
  <2>1. IsSettingsRow(settings') /\ IsSound(settings')
    BY <1>3 DEF Token, IsSettingsRow, IsSound, SettingsFields
  <2> QED
    BY <1>3, <2>1, DefaultIsRow DEF Token
<1>4. CASE RecordSync(t)
  <2>1. \/ UNCHANGED settings
        \/ /\ _validate_settings([mine[t] EXCEPT !.last = "recent"])
           /\ settings' = [mine[t] EXCEPT !.last = "recent"]
    BY <1>4, RecordedRow DEF RecordSync, Written
  <2>2. IsSettingsRow([mine[t] EXCEPT !["last"] = "recent"])
    BY ExceptIsRow DEF SettingsFields
  <2>3. IsSettingsRow(settings') /\ IsSound(settings')
    BY <2>1, <2>2, ValidIsSound
  <2> QED
    BY <1>4, <2>3, DefaultIsRow DEF RecordSync
<1> QED
  BY <1>1, <1>2, <1>3, <1>4

\* The steps that read it.
LEMMA ReadersKeep ==
  ASSUME SettingsInv, NEW t \in Holders,
         GetSettings(t) \/ Switch(t) \/ Stored(t) \/ Resolve(t) \/ ReadTable(t)
  PROVE  SettingsInv'
<1> USE DEF SettingsInv, HoldersFit, RowsAreRows, RepairsAreRepaired, Holders, GoTo, Forget, At, Ended, SettingsSteps
<1>1. CASE GetSettings(t)
  <2> DEFINE v == _repair_classification_vocabulary(settings.vocabulary)
  <2>1. mine'[t] = [settings EXCEPT !["vocabulary"] = v]
    BY <1>1 DEF GetSettings
  <2>2. IsSettingsRow(mine'[t])
    <3>1. IsSettingsRow(settings)
      OBVIOUS
    <3> HIDE DEF v, SettingsInv
    <3> QED
      BY <2>1, <3>1 DEF IsSettingsRow, SettingsFields
  <2>3. settings.vocabulary = "corrupt" => mine'[t].vocabulary = "builtin"
    BY <2>1 DEF _repair_classification_vocabulary, IsSettingsRow, SettingsFields
  <2> QED
    BY <1>1, <2>2, <2>3 DEF GetSettings
<1>2. CASE Stored(t)
  BY <1>2 DEF Stored
<1>3. CASE Switch(t) \/ Resolve(t) \/ ReadTable(t)
  BY <1>3, DefaultIsRow DEF Switch, Resolve, ReadTable
<1> QED
  BY <1>1, <1>2, <1>3

LEMMA SettingsKeep == ASSUME SettingsInv, [SettingsNext]_settingsVars PROVE SettingsInv'
<1>1. ASSUME NEW t \in Holders,
             \/ Heal(t) \/ SaveSettings(t) \/ Token(t) \/ RecordSync(t)
             \/ GetSettings(t) \/ Switch(t) \/ Stored(t) \/ Resolve(t) \/ ReadTable(t)
      PROVE  SettingsInv'
  BY <1>1, WritersKeep, ReadersKeep
<1>2. CASE List
  BY <1>2 DEF List, SettingsInv, HoldersFit, RowsAreRows, RepairsAreRepaired, Holders, GoTo, At, SettingsSteps
<1>3. CASE Elapse
  <2>1. settings' = [settings EXCEPT !["last"] = "old"]
    BY <1>3 DEF Elapse
  <2>2. IsSettingsRow(settings')
    BY <2>1, ExceptIsRow DEF SettingsFields, SettingsInv, RowsAreRows
  <2>3. IsSound(settings')
    BY <2>1 DEF IsSound, IsSettingsRow, SettingsFields, SettingsInv, RowsAreRows
  <2> QED
    BY <1>3, <2>2, <2>3 DEF Elapse, SettingsInv, HoldersFit, RowsAreRows, RepairsAreRepaired, Holders
<1>4. CASE EditTable \/ (\E r \in TableRows : Import(r)) \/ UNCHANGED settingsVars
  BY <1>4 DEF EditTable, Import, settingsVars, SettingsInv, HoldersFit, RowsAreRows, RepairsAreRepaired, Holders
<1>5. AutoSync \in Holders /\ Clients \subseteq Holders
  BY DEF SettingsInv, HoldersFit, Clients, Holders
<1> QED
  BY <1>1, <1>2, <1>3, <1>4, <1>5 DEF SettingsNext, SyncSteps

-----------------------------------------------------------------------------
(* Settings: theorems *)

\* The settings row and every copy of it that a handler has in hand (settings_store.py) are
\* whole rows, and the stored one passes the validation but for its vocabulary.
THEOREM SettingsInvariance == SettingsSpec => []SettingsInv
<1>1. SettingsInit => SettingsInv
  BY SettingsStart
<1>2. SettingsInv /\ [SettingsNext]_settingsVars => SettingsInv'
  BY SettingsKeep
<1> QED
  BY <1>1, <1>2, PTL DEF SettingsSpec

\* Whatever saves, resets, repairs and sync records interleave (settings_store.py:318-400),
\* the stored row is one that the validation accepts.
THEOREM StoredRowIsValid == SettingsSpec => []StoredSettingsAreValid
<1>1. SettingsInv => StoredSettingsAreValid
  BY DEF SettingsInv, IsSound, StoredSettingsAreValid, _validate_settings
<1> QED
  BY <1>1, SettingsInvariance, PTL

-----------------------------------------------------------------------------
(* Settings: the types *)

\* What a request updates has the types of the row's fields.
LEMMA MergeTyped ==
  ASSUME NEW r, IsSettingsRequest(r), r.kind \in {"put", "reset"}, NEW row \in StoredRows
  PROVE  _merge_defaults(row, Updates(r)) \in StoredRows
<1> DEFINE u == Updates(r)
<1>1. CASE r.kind = "reset"
  <2>1. u = [f \in DOMAIN default_settings \ {"token"} |-> default_settings[f]]
    BY <1>1 DEF Updates, Restrict
  <2> QED
    BY <2>1 DEF _merge_defaults, StoredRows, default_settings
<1>2. CASE r.kind = "put"
  <2>1. PICK names : names = IF "vocabulary" \in DOMAIN r THEN [vocabulary |-> r.vocabulary] ELSE <<>>
    OBVIOUS
  <2>2. PICK cap : cap = [cap |-> IF "cap" \in DOMAIN r THEN r.cap ELSE Unset]
    OBVIOUS
  <2>3. PICK llm : llm = IF "llm" \in DOMAIN r THEN r.llm ELSE [provider |-> Unset, model |-> Unset]
    OBVIOUS
  <2>4. PICK sync : sync = IF "table" \in DOMAIN r THEN r.table ELSE <<>>
    OBVIOUS
  <2> DEFINE Over(f, g) == [x \in DOMAIN f \cup DOMAIN g |-> IF x \in DOMAIN f THEN f[x] ELSE g[x]]
  <2>5. u = Over(names, Over(cap, Over(llm, sync)))
    BY <1>2, <2>1, <2>2, <2>3, <2>4, Zenon DEF Updates
  <2>6. DOMAIN names \subseteq {"vocabulary"} /\ \A f \in DOMAIN names : names[f] \in {"builtin", "custom", "corrupt"}
    BY <2>1 DEF IsSettingsRequest
  <2>7. DOMAIN cap = {"cap"} /\ cap["cap"] \in Nat \cup {Unset}
    BY <2>2 DEF IsSettingsRequest
  <2>8. \A f \in DOMAIN llm : \/ f \in {"provider", "key"} /\ llm[f] \in Providers \cup {Unset}
                              \/ f = "model" /\ llm[f] \in Models \cup {Unset}
    BY <2>3 DEF IsSettingsRequest
  <2>9. \A f \in DOMAIN sync : \/ f = "auto" /\ sync[f] \in BOOLEAN
                               \/ f = "path" /\ sync[f] \in {"csv", Unset}
    BY <2>4 DEF IsSettingsRequest
  <2>10. \A f \in DOMAIN u :
           \/ f \in DOMAIN names /\ u[f] = names[f]
           \/ f \in DOMAIN cap /\ u[f] = cap[f]
           \/ f \in DOMAIN llm /\ u[f] = llm[f]
           \/ f \in DOMAIN sync /\ u[f] = sync[f]
    BY <2>5, Zenon
  <2> HIDE DEF u
  <2>11. \A f \in DOMAIN u :
           /\ f \in {"provider", "key"} => u[f] \in Providers \cup {Unset}
           /\ f = "model" => u[f] \in Models \cup {Unset}
           /\ f = "cap" => u[f] \in Nat \cup {Unset}
           /\ f = "vocabulary" => u[f] \in {"builtin", "custom", "corrupt"}
           /\ f = "auto" => u[f] \in BOOLEAN
           /\ f = "path" => u[f] \in {"csv", Unset}
           /\ f \notin {"last", "token"}
    BY <2>6, <2>7, <2>8, <2>9, <2>10
  <2>12. \A f \in DOMAIN row : _merge_defaults(row, u)[f] \in {row[f]} \cup {u[g] : g \in {f} \cap DOMAIN u}
    BY DEF _merge_defaults
  <2> DEFINE m == _merge_defaults(row, u)
  <2>13. m = [f \in SettingsFields |-> m[f]]
    BY DEF _merge_defaults, StoredRows, SettingsFields
  <2> HIDE DEF m
  <2>14. /\ m.provider \in Providers \cup {Unset} /\ m.model \in Models \cup {Unset}
         /\ m.key \in Providers \cup {Unset} /\ m.cap \in Nat \cup {Unset}
         /\ m.vocabulary \in {"builtin", "custom", "corrupt"} /\ m.auto \in BOOLEAN
         /\ m.path \in {"csv", Unset} /\ m.last \in {"never", "recent", "old"} /\ m.token \in Nat
    BY <2>11, <2>12 DEF m, StoredRows
  <2> QED
    <3>1. m \in StoredRows
      BY <2>13, <2>14 DEF StoredRows, SettingsFields
    <3> QED
      BY <3>1 DEF m, u
<1> QED
  BY <1>1, <1>2

\* What the types rest on: requests are well formed, and only updates are saved.
TurnsTyped ==
  /\ turn = [t \in Holders |-> turn[t]] /\ IsFiniteSet(Holders) /\ AutoSync \in Holders
  /\ \A t \in Clients : IsSettingsRequest(t)
  /\ \A t \in Holders :
       /\ turn[t] = At(turn[t].do, turn[t].then)
       /\ "save" \in {turn[t].do, turn[t].then} => t \in Clients /\ t.kind \in {"put", "reset"}

RowsTyped ==
  /\ settings \in StoredRows /\ mine = [t \in Holders |-> mine[t]]
  /\ \A t \in Holders : mine[t] \in StoredRows

SyncTyped ==
  /\ runtime \in [provider : Providers \cup {Unset}, model : Models \cup {Unset}]
  /\ imports \subseteq TableRows /\ library \subseteq TableRows
  /\ faults \in Nat /\ faults <= MaxFaults

SettingsTypes == TurnsTyped /\ RowsTyped /\ SyncTyped

LEMMA DefaultTyped == default_settings \in StoredRows
BY DEF default_settings, StoredRows

LEMMA SettingsTyped == ASSUME SettingsInit PROVE SettingsTypes
<1> DEFINE First(t) ==
             CASE t = AutoSync -> At("list", "list")
               [] t # AutoSync /\ t.kind = "renew" -> At("token", "done")
               [] t # AutoSync /\ t.kind = "config" -> At("stored", "done")
               [] t # AutoSync /\ t.kind = "page" -> At("get", "token")
               [] t # AutoSync /\ t.kind = "sync" -> At("get", "read")
               [] t # AutoSync /\ t.kind \in {"put", "reset"} -> At("get", "save")
<1>1. PICK v \in {"builtin", "corrupt"}, p \in {"csv", Unset} :
        settings = [default_settings EXCEPT !.vocabulary = v, !.path = p, !.auto = p # Unset]
  BY DEF SettingsInit
<1>2. PICK mix \in SettingsMixes :
        /\ turn = [t \in mix \cup {AutoSync} |-> First(t)]
        /\ mine = [t \in mix \cup {AutoSync} |-> default_settings]
  BY DEF SettingsInit
<1>3. settings \in StoredRows
  <2>1. PICK on \in BOOLEAN : on = (p # Unset)
    OBVIOUS
  <2>2. settings = [default_settings EXCEPT !.vocabulary = v, !.path = p, !.auto = on]
    BY <1>1, <2>1
  <2> QED
    BY <2>2 DEF default_settings, StoredRows
<1>4. Holders = mix \cup {AutoSync} /\ Clients \subseteq mix
  BY <1>2 DEF Holders, Clients
<1>5. IsFiniteSet(Holders)
  BY <1>4, SettingsAssumption, FS_Union, FS_Singleton
<1>6. ASSUME NEW t \in Clients
      PROVE  /\ IsSettingsRequest(t)
             /\ "save" \in {turn[t].do, turn[t].then} => t.kind \in {"put", "reset"}
             /\ turn[t] = At(turn[t].do, turn[t].then)
  <2>1. IsSettingsRequest(t) /\ t # AutoSync /\ t \in mix
    BY <1>4, SettingsAssumption DEF Clients
  <2> QED
    BY <1>2, <2>1 DEF IsSettingsRequest, Kinds, At
<1>7. turn[AutoSync] = At("list", "list") /\ turn[AutoSync].do = "list" /\ turn[AutoSync].then = "list"
  BY <1>2 DEF At
<1>8. TurnsTyped
  <2>1. turn = [t \in Holders |-> turn[t]] /\ AutoSync \in Holders /\ Clients = Holders \ {AutoSync}
    <3>1. PICK f : turn = [t \in mix \cup {AutoSync} |-> f[t]]
      <4> HIDE DEF First
      <4>1. turn = [t \in mix \cup {AutoSync} |-> turn[t]]
        BY <1>2
      <4> QED
        BY <4>1
    <3> QED
      BY <3>1, <1>4 DEF Clients, Holders
  <2> QED
    BY <1>5, <1>6, <1>7, <2>1 DEF TurnsTyped
<1>9. RowsTyped
  BY <1>2, <1>3, <1>4, DefaultTyped DEF RowsTyped
<1>10. SyncTyped
  BY SettingsAssumption DEF SettingsInit, SyncTyped
<1> QED
  BY <1>8, <1>9, <1>10 DEF SettingsTypes

\* A thread goes on to a step that is no save, or is an updating request.
LEMMA TurnKept ==
  ASSUME TurnsTyped, NEW t \in Holders, NEW step, step = At(step.do, step.then),
         "save" \in {step.do, step.then} => t \in Clients /\ t.kind \in {"put", "reset"},
         turn' = [turn EXCEPT ![t] = step]
  PROVE  TurnsTyped' /\ Holders' = Holders
<1>1. Holders' = Holders /\ Clients' = Clients
  BY DEF TurnsTyped, Holders, Clients
<1>2. \A u \in Holders : turn'[u] = IF u = t THEN step ELSE turn[u]
  BY DEF TurnsTyped
<1>3. turn' = [u \in Holders |-> turn'[u]]
  BY DEF TurnsTyped
<1> QED
  BY <1>1, <1>2, <1>3 DEF TurnsTyped, Clients

\* A thread puts down what it read or picks up a row.
LEMMA RowsKept ==
  ASSUME RowsTyped, NEW t \in Holders, NEW x \in StoredRows, settings' \in StoredRows,
         mine' = [mine EXCEPT ![t] = x] \/ UNCHANGED mine, Holders' = Holders
  PROVE  RowsTyped'
BY DEF RowsTyped

\* A step that keeps turns and rows as they are typed touches the rest only in these ways.
LEMMA SettingsTypesKeep == ASSUME SettingsTypes, [SettingsNext]_settingsVars PROVE SettingsTypes'
<1> USE DEF GoTo, Forget
<1>h. AutoSync \in Holders /\ Clients = Holders \ {AutoSync}
  BY DEF SettingsTypes, TurnsTyped, Clients, Holders
<1>0. \A d, n : At(d, n).do = d /\ At(d, n).then = n
  BY DEF At
<1>t. ASSUME NEW t \in Holders, Heal(t) \/ GetSettings(t) \/ ReadTable(t) \/ RecordSync(t)
      PROVE  TurnsTyped' /\ Holders' = Holders
  <2>1. CASE GetSettings(t)
    <3>1. PICK step : step = IF settings.vocabulary = "corrupt" THEN [turn[t] EXCEPT !.do = "heal"]
                             ELSE At(turn[t].then, "done")
      OBVIOUS
    <3>2. turn[t] = At(turn[t].do, turn[t].then)
      BY DEF SettingsTypes, TurnsTyped
    <3>3. step \in {At("heal", turn[t].then), At(turn[t].then, "done")}
      BY <3>1, <3>2 DEF At
    <3>4. step = At(step.do, step.then) /\ ("save" \in {step.do, step.then} => turn[t].then = "save")
      BY <3>3, <1>0 DEF At
    <3> QED
      BY <2>1, <3>1, <3>4, <1>h, TurnKept DEF GetSettings, SettingsTypes, TurnsTyped
  <2>2. CASE Heal(t) \/ ReadTable(t) \/ RecordSync(t)
    <3>1. PICK step : turn' = [turn EXCEPT ![t] = step] /\
             step \in {At(turn[t].then, "done"), At("get", "record"), At("list", "list"), At("done", "done")}
      BY <2>2 DEF Heal, ReadTable, RecordSync, Ended
    <3>2. step = At(step.do, step.then) /\ ("save" \in {step.do, step.then} => turn[t].then = "save")
      BY <3>1, <1>0 DEF At
    <3> QED
      BY <3>1, <3>2, <1>h, TurnKept DEF SettingsTypes, TurnsTyped
  <2> QED
    BY <1>t, <2>1, <2>2
<1>c. ASSUME NEW t \in Clients, \/ SaveSettings(t) \/ Token(t) \/ Switch(t) \/ Stored(t) \/ Resolve(t)
      PROVE  TurnsTyped' /\ Holders' = Holders
  <2>1. PICK step : turn' = [turn EXCEPT ![t] = step] /\
           step \in {At("get", "switch"), At("get", "token"), At("switch", "done"), At("resolve", "done"),
                     At("done", "done")}
    BY <1>c DEF SaveSettings, Token, Switch, Stored, Resolve, Ended
  <2>2. step = At(step.do, step.then) /\ "save" \notin {step.do, step.then}
    BY <2>1, <1>0 DEF At
  <2> QED
    BY <2>1, <2>2, <1>h, TurnKept DEF SettingsTypes
<1>1. ASSUME NEW t \in Clients, SaveSettings(t)
      PROVE  SettingsTypes'
  <2>1. /\ t \in Holders /\ mine[t] \in StoredRows /\ IsSettingsRequest(t) /\ t.kind \in {"put", "reset"}
    BY <1>1, <1>h DEF SettingsTypes, RowsTyped, TurnsTyped, SaveSettings
  <2>2. settings' \in StoredRows
    BY <1>1, <2>1, MergeTyped DEF SaveSettings, Written, SettingsTypes, RowsTyped
  <2> QED
    BY <1>1, <1>c, <2>1, <2>2, RowsKept, DefaultTyped DEF SaveSettings, SettingsTypes, SyncTyped, syncVars
<1>2. ASSUME NEW t \in Clients, Token(t)
      PROVE  SettingsTypes'
  <2>1. PICK n \in Nat : n = 1 + Cardinality({r \in Clients : turn[r].do = "done"})
    <3>1. IsFiniteSet({r \in Clients : turn[r].do = "done"})
      BY <1>h, FS_Subset DEF SettingsTypes, TurnsTyped
    <3>2. PICK k \in Nat : k = Cardinality({r \in Clients : turn[r].do = "done"})
      BY <3>1, FS_CardinalityType
    <3>3. 1 + k \in Nat
      OBVIOUS
    <3> QED
      BY <3>2, <3>3
  <2>2. settings' \in StoredRows
    BY <1>2, <2>1 DEF Token, StoredRows, SettingsTypes, RowsTyped
  <2> QED
    BY <1>2, <1>c, <1>h, <2>2, RowsKept, DefaultTyped DEF Token, SettingsTypes, SyncTyped, syncVars
<1>3. ASSUME NEW t \in Holders, Heal(t) \/ GetSettings(t) \/ ReadTable(t) \/ RecordSync(t)
      PROVE  SettingsTypes'
  <2>0. settings \in StoredRows /\ mine[t] \in StoredRows
    BY DEF SettingsTypes, RowsTyped
  <2>1. CASE Heal(t)
    <3>1. settings' \in StoredRows
      BY <2>0, <2>1 DEF Heal, StoredRows
    <3> QED
      BY <1>3, <1>t, <2>0, <2>1, <3>1, RowsKept DEF Heal, SettingsTypes, SyncTyped, syncVars
  <2>2. CASE GetSettings(t)
    <3>1. [settings EXCEPT !.vocabulary = _repair_classification_vocabulary(@)] \in StoredRows
      BY <2>0 DEF StoredRows, _repair_classification_vocabulary
    <3> QED
      BY <1>3, <1>t, <2>0, <2>2, <3>1, RowsKept DEF GetSettings, SettingsTypes, SyncTyped, syncVars
  <2>3. CASE ReadTable(t)
    BY <1>3, <1>t, <2>0, <2>3, RowsKept, DefaultTyped DEF ReadTable, SettingsTypes, SyncTyped
  <2>4. CASE RecordSync(t)
    <3>1. settings' \in StoredRows
      BY <2>0, <2>4 DEF RecordSync, StoredRows, Written, _merge_defaults
    <3> QED
      BY <1>3, <1>t, <2>4, <3>1, RowsKept, DefaultTyped DEF RecordSync, SettingsTypes, SyncTyped, syncVars
  <2> QED
    BY <1>3, <2>1, <2>2, <2>3, <2>4
<1>4. ASSUME NEW t \in Clients, Switch(t) \/ Stored(t) \/ Resolve(t)
      PROVE  SettingsTypes'
  <2>0. t \in Holders /\ settings \in StoredRows /\ mine[t] \in StoredRows
    BY <1>h DEF SettingsTypes, RowsTyped
  <2>1. CASE Switch(t)
    <3>1. runtime' \in [provider : Providers \cup {Unset}, model : Models \cup {Unset}]
      BY <2>0, <2>1 DEF Switch, StoredRows
    <3> QED
      BY <1>4, <1>c, <2>0, <2>1, <3>1, RowsKept, DefaultTyped DEF Switch, SettingsTypes, SyncTyped, syncVars
  <2>2. CASE Stored(t) \/ Resolve(t)
    BY <1>4, <1>c, <2>0, <2>2, RowsKept, DefaultTyped DEF Stored, Resolve, SettingsTypes, SyncTyped, syncVars
  <2> QED
    BY <1>4, <2>1, <2>2
<1>5. CASE List
  <2>1. turn' = [turn EXCEPT ![AutoSync] = At("get", "read")]
    BY <1>5 DEF List
  <2>2. TurnsTyped' /\ Holders' = Holders
    BY <2>1, <1>h, <1>0, TurnKept DEF SettingsTypes
  <2> QED
    BY <1>5, <2>2 DEF List, SettingsTypes, RowsTyped, SyncTyped, syncVars
<1>6. ASSUME UNCHANGED <<turn, mine, settings>>
      PROVE  TurnsTyped' /\ RowsTyped'
  BY <1>6 DEF SettingsTypes, RowsTyped, TurnsTyped, Holders, Clients
<1>7. ASSUME NEW r \in TableRows, Import(r)
      PROVE  SettingsTypes'
  BY <1>6, <1>7, SettingsAssumption DEF Import, SettingsTypes, SyncTyped
<1>8. CASE EditTable
  BY <1>6, <1>8 DEF EditTable, SettingsTypes, SyncTyped
<1>9. CASE Elapse
  <2>1. settings' \in StoredRows /\ UNCHANGED <<turn, mine>>
    BY <1>9 DEF Elapse, StoredRows, SettingsTypes, RowsTyped
  <2> QED
    BY <1>9, <2>1 DEF Elapse, SettingsTypes, RowsTyped, TurnsTyped, SyncTyped, Holders, Clients, syncVars
<1>10. CASE UNCHANGED settingsVars
  BY <1>6, <1>10 DEF settingsVars, SettingsTypes, SyncTyped
<1> QED
  BY <1>h, <1>1, <1>2, <1>3, <1>4, <1>5, <1>7, <1>8, <1>9, <1>10 DEF SettingsNext, SyncSteps

\* What the types rest on says of them.
LEMMA SettingsTypesFollow == ASSUME SettingsTypes PROVE SettingsTypeOK
BY DEF SettingsTypes, TurnsTyped, RowsTyped, SyncTyped, SettingsTypeOK, Holders

\* The row, its copies, the override and the sync's rows keep their types: no update of a
\* request puts a value into a field of another type (settings_store.py:227-290).
THEOREM SettingsRowsTyped == SettingsSpec => []SettingsTypeOK
BY SettingsTyped, SettingsTypesKeep, SettingsTypesFollow, PTL DEF SettingsSpec

-----------------------------------------------------------------------------
(* The composition: the invariants side by side *)

SessionsSafe == SessionsInv
BatchesSafe == BatchInv /\ PreTyped
DeliverySafe == DeliveryInv
ResumesSafe == ResumesInv
SettingsSafe == SettingsInv /\ SettingsTypes

StoresInv == SessionsSafe /\ BatchesSafe /\ DeliverySafe /\ ResumesSafe /\ SettingsSafe

-----------------------------------------------------------------------------
(* The composition: the initial states and the steps *)

LEMMA StoresStart == ASSUME StoresInit PROVE StoresInv
<1>1. SessionsInit /\ PreInit /\ DeliveryInit /\ ResumesInit /\ SettingsInit
  BY DEF StoresInit
<1> QED
  BY <1>1, SessionsStart, BatchesStart, PreStartTyped, DeliveryStarts, ResumesStart, SettingsStart,
     SettingsTyped
  DEF StoresInv, SessionsSafe, BatchesSafe, DeliverySafe, ResumesSafe, SettingsSafe

\* A step of the composition is, for each component, one of its own or none.
LEMMA StepOfEach ==
  ASSUME [StoresNext]_storesVars
  PROVE  /\ [SessionsNext]_sessionVars /\ [PreNext]_preVars /\ [DeliveryNext]_deliveryVars
         /\ [ResumesNext]_resumeVars /\ [SettingsNext]_settingsVars
<1>1. CASE SessionsPart
  BY <1>1 DEF SessionsPart
<1>2. CASE BatchesPart
  BY <1>2 DEF BatchesPart
<1>3. CASE DeliveryPart
  BY <1>3 DEF DeliveryPart
<1>4. CASE ResumesPart
  BY <1>4 DEF ResumesPart
<1>5. CASE SettingsPart
  BY <1>5 DEF SettingsPart
<1>6. CASE UNCHANGED storesVars
  BY <1>6 DEF storesVars
<1> QED
  BY <1>1, <1>2, <1>3, <1>4, <1>5, <1>6 DEF StoresNext

\* Sessions keep their products, master resumes their versions.
LEMMA StoresKeep ==
  ASSUME StoresInv, [StoresNext]_storesVars
  PROVE  StoresInv' /\ [ProductsKept]_sessionVars /\ [VersionsKept]_resumeVars
<1>1. /\ [SessionsNext]_sessionVars /\ [PreNext]_preVars /\ [DeliveryNext]_deliveryVars
      /\ [ResumesNext]_resumeVars /\ [SettingsNext]_settingsVars
  BY StepOfEach
<1>2. SessionsSafe' /\ [ProductsKept]_sessionVars
  BY <1>1, SessionsKeep DEF StoresInv, SessionsSafe
<1>3. BatchesSafe'
  BY <1>1, BatchesKeep, PreTypesKeep DEF StoresInv, BatchesSafe
<1>4. DeliverySafe'
  BY <1>1, RowsKeep, DeliveryRequestsKeep DEF StoresInv, DeliverySafe, DeliveryInv
<1>5. ResumesSafe' /\ [VersionsKept]_resumeVars
  BY <1>1, ResumesKeep DEF StoresInv, ResumesSafe
<1>6. SettingsSafe'
  BY <1>1, SettingsKeep, SettingsTypesKeep DEF StoresInv, SettingsSafe
<1> QED
  BY <1>2, <1>3, <1>4, <1>5, <1>6 DEF StoresInv

-----------------------------------------------------------------------------
(* The composition: theorems *)

\* The five stores of workspace.py, services/jobs.py, final_drafts.py, users.py and
\* settings_store.py keep their invariants side by side.
THEOREM StoresInvariance == StoresSpec => []StoresInv
<1>1. StoresInit => StoresInv
  BY StoresStart
<1>2. StoresInv /\ [StoresNext]_storesVars => StoresInv'
  BY StoresKeep
<1> QED
  BY <1>1, <1>2, PTL DEF StoresSpec

\* Every variable of the five stores keeps its type.
THEOREM StoresTypes == StoresSpec => []StoresTypeOK
<1>1. StoresInv => StoresTypeOK
  <2> SUFFICES ASSUME StoresInv PROVE StoresTypeOK
    OBVIOUS
  <2>1. SessionsTypeOK
    BY SessionsTypesFollow DEF StoresInv, SessionsSafe
  <2>2. PreTypeOK
    BY PreTypesFollow DEF StoresInv, BatchesSafe
  <2>3. DeliveryTypeOK
    BY DEF StoresInv, DeliverySafe, DeliveryInv
  <2>4. ResumesTypeOK
    BY ResumesTypesFollow DEF StoresInv, ResumesSafe
  <2>5. SettingsTypeOK
    BY SettingsTypesFollow DEF StoresInv, SettingsSafe
  <2> QED
    BY <2>1, <2>2, <2>3, <2>4, <2>5 DEF StoresTypeOK
<1> QED
  BY <1>1, StoresInvariance, PTL

\* In the composition: streams, batches, jobs, drafts, served diagnoses and the settings row
\* are as their components promise.
THEOREM StoresAreSafe ==
  StoresSpec => [](/\ StreamsMissNothing /\ BatchesAccount /\ KeysAreUnique
                   /\ DraftsAgree /\ ServedDiagnosisFits /\ StoredSettingsAreValid)
<1>1. StoresInv => StreamsMissNothing
  BY StreamsFollow DEF StoresInv, SessionsSafe
<1>2. StoresInv => BatchesAccount /\ KeysAreUnique
  BY AccountsFollow DEF StoresInv, BatchesSafe, BatchInv
<1>3. StoresInv => DraftsAgree
  BY DEF StoresInv, DeliverySafe, DeliveryInv
<1>4. StoresInv => ServedDiagnosisFits
  BY DEF StoresInv, ResumesSafe, ResumesInv
<1>5. StoresInv => StoredSettingsAreValid
  BY DEF StoresInv, SettingsSafe, SettingsInv, IsSound, StoredSettingsAreValid, _validate_settings
<1> QED
  BY <1>1, <1>2, <1>3, <1>4, <1>5, StoresInvariance, PTL

\* In the composition: no step takes a product from a job row or a version from a resume.
THEOREM StoresLoseNothing == StoresSpec => ProductsSurvive /\ VersionsStay
<1>1. StoresInv /\ [StoresNext]_storesVars => [ProductsKept]_sessionVars /\ [VersionsKept]_resumeVars
  BY StoresKeep
<1>2. VersionsKept <=> (/\ Len(resume'.versions) >= Len(resume.versions)
                        /\ \A v \in DOMAIN resume.versions : resume'.versions[v] = resume.versions[v])
  BY DEF VersionsKept
<1> QED
  BY <1>1, <1>2, StoresInvariance, PTL DEF StoresSpec, ProductsSurvive, ProductsKept, VersionsStay
=============================================================================
