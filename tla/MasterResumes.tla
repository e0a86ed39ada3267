---------------------------- MODULE MasterResumes ----------------------------
(***************************************************************************)
(* A master resume (workspace.py, routers/resumes.py, services/resumes.py):*)
(* its versions, its diagnosis, cached in the registry and in the row, and *)
(* its structured profile.  Each of the two carries the hash of the        *)
(* content it was made from; a hash is the content itself here.            *)
(***************************************************************************)
EXTENDS Naturals, Sequences, SequencesExt

CONSTANTS
  Contents,     \* what a resume may say
  Trim(_),      \* content.strip()
  DiagModels,       \* models the configuration may name
  FirstContent, FirstModel, \* bound: what the resume and the configuration start with
  ResumeMixes,  \* bound: the sets of requests one behaviour has
  NoRun, NoneYet

\* A request is a record: its kind and what it carries.  A diagnosis run goes on under
\* the request that queued it.
ResumeKinds == {"edit", "rollback", "drop", "diagnose", "show", "extract", "handEdit", "tailor", "switch"}

IsResumeRequest(r) ==
  /\ r.kind \in ResumeKinds
  /\ r.kind = "edit" => r.content \in Contents

ASSUME ResumesAssumption ==
  /\ \A c \in Contents : Trim(c) \in Contents /\ Trim(Trim(c)) = Trim(c)
  /\ FirstContent \in Contents /\ FirstModel \in DiagModels
  /\ \A mix \in ResumeMixes : \A r \in mix : IsResumeRequest(r)

VARIABLES
  resume,   \* the row of master_resumes with its resume_versions
  model,    \* the model of the configuration
  run,      \* diagnose request -> its run in the job registry
  at,       \* request -> the step it is at
  seen,     \* request -> the content and the diagnosis job it read
  served    \* tailor request -> the diagnosis it hands to its run

resumeVars == <<resume, model, run, at, seen, served>>

Asked == DOMAIN at
Diagnoses == {r \in Asked : r.kind = "diagnose"}

Content(row) == row.versions[row.current]

ResumesInit ==
  /\ resume = [live |-> TRUE, versions |-> <<FirstContent>>, current |-> 1, job |-> NoRun,
               diagnosis |-> NoneYet, profile |-> NoneYet]
  /\ model = FirstModel
  /\ \E mix \in ResumeMixes :
       /\ at = [r \in mix |-> "start"]
       /\ run = [r \in {q \in mix : q.kind = "diagnose"} |-> [phase |-> "none"]]
       /\ seen = [r \in mix |-> NoneYet]
       /\ served = [r \in {q \in mix : q.kind = "tailor"} |-> NoneYet]

To(r, step) == at' = [at EXCEPT ![r] = step]

\* The handlers that begin with get_master_resume.
Read(r) ==
  /\ r.kind \in {"diagnose", "show", "extract", "handEdit", "tailor"} /\ at[r] = "start"
  /\ IF resume.live
       THEN To(r, "read") /\ seen' = [seen EXCEPT ![r] = [content |-> Content(resume), job |-> resume.job]]
       ELSE To(r, "done") /\ UNCHANGED seen
  /\ UNCHANGED <<resume, model, run, served>>

(***************************************************************************)
(* Versions.                                                               *)
(***************************************************************************)
\* Mutant: the next number follows the current version.
AfterCurrent(row) == row.current + 1

NextVersion(row) == Len(row.versions) + 1

Edit(r) ==
  /\ r.kind = "edit" /\ at[r] = "start"
  /\ resume' = IF ~resume.live THEN resume
       ELSE [resume EXCEPT !.current = NextVersion(resume),
                           !.versions = [v \in 1 .. NextVersion(resume) |->
                              IF v = NextVersion(resume) THEN r.content ELSE @[v]]]
  /\ To(r, "done")
  /\ UNCHANGED <<model, run, seen, served>>

Rollback(r) ==
  /\ r.kind = "rollback" /\ at[r] = "start"
  /\ resume' = IF resume.live /\ r.version \in DOMAIN resume.versions
               THEN [resume EXCEPT !.current = r.version] ELSE resume
  /\ To(r, "done")
  /\ UNCHANGED <<model, run, seen, served>>

Drop(r) ==
  /\ r.kind = "drop" /\ at[r] = "start"
  /\ resume' = [resume EXCEPT !.live = FALSE]
  /\ To(r, "done")
  /\ UNCHANGED <<model, run, seen, served>>

(***************************************************************************)
(* Diagnosis.                                                              *)
(***************************************************************************)
\* _queue_job, then set_latest_diagnosis_job.
QueueDiagnosis(r) ==
  /\ r.kind = "diagnose" /\ at[r] = "read"
  /\ run' = [run EXCEPT ![r] = [phase |-> "queued", content |-> seen[r].content]]
  /\ To(r, "link")
  /\ UNCHANGED <<resume, model, seen, served>>

LinkDiagnosis(r) ==
  /\ r.kind = "diagnose" /\ at[r] = "link"
  /\ resume' = IF resume.live THEN [resume EXCEPT !.job = r] ELSE resume
  /\ To(r, "done")
  /\ UNCHANGED <<model, run, seen, served>>

RunDiagnosis(r) ==
  /\ run[r].phase = "queued"
  /\ \E phase \in {"made", "failed"} :
       run' = [run EXCEPT ![r] = [phase |-> phase, content |-> @.content, model |-> model]]
  /\ UNCHANGED <<resume, model, at, seen, served>>

\* The snapshot is stored before the run is recorded; a failure to store it is swallowed.
StoreSnapshot(r) ==
  /\ run[r].phase = "made"
  /\ \/ resume.live /\ resume' = [resume EXCEPT !.diagnosis =
                                    [content |-> run[r].content, model |-> run[r].model]]
     \/ UNCHANGED resume
  /\ run' = [run EXCEPT ![r].phase = "stored"]
  /\ UNCHANGED <<model, at, seen, served>>

RecordRun(r) ==
  /\ run[r].phase = "stored"
  /\ run' = [run EXCEPT ![r].phase = "succeeded"]
  /\ UNCHANGED <<resume, model, at, seen, served>>

\* The registry prunes its oldest terminal jobs.
PruneRun(r) ==
  /\ run[r].phase \in {"succeeded", "failed"}
  /\ run' = [run EXCEPT ![r].phase = "pruned"]
  /\ UNCHANGED <<resume, model, at, seen, served>>

\* GET drops a reference to a run that is gone; the two stores are asked one after the other.
FindDangling(r) ==
  /\ r.kind = "show" /\ at[r] = "read"
  /\ To(r, IF seen[r].job # NoRun /\ run[seen[r].job].phase = "pruned" THEN "clear" ELSE "done")
  /\ UNCHANGED <<resume, model, run, seen, served>>

ClearDangling(r) ==
  /\ r.kind = "show" /\ at[r] = "clear"
  /\ resume' = IF resume.live THEN [resume EXCEPT !.job = NoRun] ELSE resume
  /\ To(r, "done")
  /\ UNCHANGED <<model, run, seen, served>>

\* At startup, before any request: results of the registry become snapshots.
Backfill ==
  /\ \A r \in Asked : at[r] \in {"start", "done"}
  /\ \A r \in Diagnoses : run[r].phase \notin {"queued", "made", "stored"}
  /\ resume.live /\ resume.job # NoRun /\ resume.diagnosis = NoneYet
  /\ run[resume.job].phase = "succeeded" /\ run[resume.job].content = Content(resume)
  /\ resume' = [resume EXCEPT !.diagnosis =
                  [content |-> run[resume.job].content, model |-> run[resume.job].model]]
  /\ UNCHANGED <<model, run, at, seen, served>>

(***************************************************************************)
(* _cached_diagnosis: a run of this resume reuses what fits.               *)
(***************************************************************************)
\* Mutant: the hash is not compared.
FitsAny(diagnosis, content) == TRUE

FitsContent(diagnosis, content) == diagnosis.content = content

\* The registry's result first.
LookInRegistry(r) ==
  /\ r.kind = "tailor" /\ at[r] = "read"
  /\ LET job == seen[r].job
     IN IF job # NoRun /\ run[job].phase = "succeeded" /\ FitsContent(run[job], seen[r].content)
          THEN /\ served' = [served EXCEPT ![r] = IF run[job].model # model THEN NoneYet ELSE
                    [made |-> run[job].content, by |-> run[job].model, for |-> seen[r].content,
                     with |-> model]]
               /\ To(r, "done")
          ELSE To(r, "look") /\ UNCHANGED served
  /\ UNCHANGED <<resume, model, run, seen>>

\* Then the snapshot of the row.
LookInRow(r) ==
  /\ r.kind = "tailor" /\ at[r] = "look"
  /\ LET d == resume.diagnosis
     IN served' = [served EXCEPT ![r] =
          IF resume.live /\ d # NoneYet /\ FitsContent(d, seen[r].content) /\ d.model = model
          THEN [made |-> d.content, by |-> d.model, for |-> seen[r].content, with |-> model]
          ELSE NoneYet]
  /\ To(r, "done")
  /\ UNCHANGED <<resume, model, run, seen>>

SwitchModel(r) ==
  /\ r.kind = "switch" /\ at[r] = "start"
  /\ \E m \in DiagModels \ {model} : model' = m
  /\ To(r, "done")
  /\ UNCHANGED <<resume, run, seen, served>>

(***************************************************************************)
(* The structured profile.  `of` is the content it was made from.          *)
(***************************************************************************)
SaveProfile(r, hash) ==
  /\ at[r] = "read"
  /\ resume' = IF resume.live
       THEN [resume EXCEPT !.profile = [hash |-> hash, of |-> seen[r].content]] ELSE resume
  /\ To(r, "done")
  /\ UNCHANGED <<model, run, seen, served>>

Extract(r) == r.kind = "extract" /\ SaveProfile(r, seen[r].content)

\* edit_resume_profile hashes the stripped content.
HandEdit(r) == r.kind = "handEdit" /\ SaveProfile(r, Trim(seen[r].content))

Stale(row) == row.profile.hash # Content(row)

ResumesNext ==
  \/ \E r \in Asked :
       \/ Read(r) \/ Edit(r) \/ Rollback(r) \/ Drop(r)
       \/ QueueDiagnosis(r) \/ LinkDiagnosis(r) \/ FindDangling(r) \/ ClearDangling(r)
       \/ LookInRegistry(r) \/ LookInRow(r) \/ SwitchModel(r) \/ Extract(r) \/ HandEdit(r)
  \/ \E r \in Diagnoses : RunDiagnosis(r) \/ StoreSnapshot(r) \/ RecordRun(r) \/ PruneRun(r)
  \/ Backfill

ResumesSpec == ResumesInit /\ [][ResumesNext]_resumeVars

(***************************************************************************)
(* Properties.                                                             *)
(***************************************************************************)
ResumesTypeOK ==
  /\ resume.versions \in Seq(Contents) /\ resume.current \in DOMAIN resume.versions
  /\ resume.job \in Diagnoses \cup {NoRun}
  /\ model \in DiagModels
  /\ \A r \in Diagnoses :
       run[r].phase \in {"none", "queued", "made", "failed", "stored", "succeeded", "pruned"}
  /\ \A r \in Asked : at[r] \in {"start", "read", "link", "clear", "look", "done"}

\* A diagnosis run that has not failed made a diagnosis of this content with this model.
WasMade(content, by) ==
  \E q \in Diagnoses : /\ run[q].phase \in {"made", "stored", "succeeded", "pruned"}
                       /\ run[q].content = content /\ run[q].model = by

\* A diagnosis that a run is given was made by a diagnosis run of this resume, of the very
\* content the run aligns and by the model it aligns with, whatever edits, rollbacks, model
\* switches and later diagnoses happened between the diagnosis and its reuse.
ServedDiagnosisFits ==
  \A r \in DOMAIN served : served[r] # NoneYet =>
    /\ served[r].made = served[r].for /\ served[r].by = served[r].with
    /\ WasMade(served[r].made, served[r].by)

\* Version history is immutable: an edit after a rollback keeps the versions it skipped.
VersionsStay ==
  [][/\ Len(resume'.versions) >= Len(resume.versions)
     /\ \A v \in DOMAIN resume.versions : resume'.versions[v] = resume.versions[v]]_resumeVars

\* Violated by the code.  A profile is stale if and only if the content changed since it
\* was extracted or edited by hand.
StaleMeansChanged ==
  resume.live /\ resume.profile # NoneYet => (Stale(resume) <=> resume.profile.of # Content(resume))
=============================================================================
