-------------------------- MODULE WorkbenchSessions --------------------------
(***************************************************************************)
(* Workbench sessions (services/workbench.py, routers/workspace.py): the   *)
(* in-memory session registry with its event bus, the background pipeline  *)
(* that classifies, profiles and gap-analyses the job of a session, and    *)
(* preanalyze_job (services/jobs.py), which writes the same library row    *)
(* and the same session.                                                   *)
(*                                                                         *)
(* One tenant and one job description are modelled: sessions of different  *)
(* jobs share nothing but the store's lock.  Profiles and gap reports are  *)
(* TRUE where there is one.                                                *)
(***************************************************************************)
EXTENDS Naturals, Sequences, FiniteSets

CONSTANTS
  Inits,      \* POST /api/workbench/session/init requests, with one idempotency key
  Opens,      \* GET /api/workspace/session/{job_id} requests
  Analyses,   \* POST .../analyze requests
  Preanalyses,\* calls of preanalyze_job
  Streams,    \* GET .../events requests, one _SessionEventCursor each
  Polls,      \* GET .../session/{id} requests
  QueueSize,  \* _SESSION_EVENT_QUEUE_SIZE
  HasResume,  \* whether the sessions have a resume to compare with
  SessionMixes, \* bound: the sets of requests one behaviour has
  NoPage      \* no session

\* A session is named by the request that creates it; a request creates one at most.
Makers   == Inits \cup Opens
\* The pipeline a request starts goes on under the name of the request.
Starters == Inits \cup Analyses
Threads  == Makers \cup Analyses \cup Preanalyses \cup Polls

ASSUME SessionsAssumption ==
  /\ QueueSize \in Nat \ {0}
  /\ HasResume \in BOOLEAN
  /\ NoPage \notin Makers
  /\ SessionMixes \subseteq SUBSET (Threads \cup Streams)

VARIABLES
  jobRow,       \* the library row of the job
  page,      \* maker -> the session it created
  shelf,     \* sessions in WorkstationSessionStore._sessions
  local,     \* thread -> where it is and what it has read
  cursor     \* stream -> its queue and what its client got

sessionVars == <<jobRow, page, shelf, local, cursor>>

JobRows == [stored : BOOLEAN, profile : BOOLEAN, gap : BOOLEAN, pending : BOOLEAN]

\* The sections of WorkstationState that change.  jobGap is the gap report of the
\* row as it was copied into the session.
Sections == [status : {"ready", "failed"}, jd : {"ready", "queued", "failed"},
             profile : BOOLEAN, gapStatus : {"queued", "ready", "blocked"},
             gap : BOOLEAN, jobGap : BOOLEAN]
Events == {"stage", "gap_ready", "error"}

NoSections == [status |-> "ready", jd |-> "ready", profile |-> FALSE,
               gapStatus |-> "blocked", gap |-> FALSE, jobGap |-> FALSE]
EmptyPage == [shape |-> "none", keyed |-> FALSE, state |-> NoSections, log |-> <<>>]

Places == {"idle", "creating", "fresh", "created", "opening", "marking", "starting",
           "begin", "read", "classify", "analyse", "persist", "publish", "announce",
           "failing", "reporting", "calling", "saving", "syncing", "telling", "tag", "over"}
Locals == [pc : Places, at : Makers \cup {NoPage}, by : {"own", "job"},
           profile : BOOLEAN, gap : BOOLEAN, jobGap : BOOLEAN, pending : BOOLEAN,
           got : Sections]
NoLocal == [pc |-> "idle", at |-> NoPage, by |-> "own", profile |-> FALSE,
            gap |-> FALSE, jobGap |-> FALSE, pending |-> FALSE, got |-> NoSections]
NoMore == [NoLocal EXCEPT !.pc = "over"]

SessionsTypeOK ==
  /\ jobRow \in JobRows
  /\ \A m \in Makers :
       /\ page[m].shape \in {"none", "own", "job"} /\ page[m].keyed \in BOOLEAN
       /\ page[m].state \in Sections
       /\ \A k \in 1 .. Len(page[m].log) : page[m].log[k] \in Events
  /\ shelf \subseteq {m \in Makers : page[m].shape # "none"}
  /\ local \in [Threads -> Locals]
  /\ \A c \in Streams :
       /\ cursor[c].on \in Makers \cup {NoPage}
       /\ cursor[c].seen \in Nat /\ Len(cursor[c].queue) <= QueueSize

SessionsInit ==
  /\ \E stored \in BOOLEAN :
       jobRow = [stored |-> stored, profile |-> FALSE, gap |-> FALSE, pending |-> TRUE]
  /\ page = [m \in Makers |-> EmptyPage]
  /\ shelf = {}
  /\ \E mix \in SessionMixes :
       /\ local = [t \in Threads |-> IF t \in mix THEN NoLocal ELSE NoMore]
       /\ cursor = [c \in Streams |-> [on |-> NoPage, queue |-> <<>>, seen |-> 0,
                                       full |-> FALSE, open |-> c \in mix]]

\* Thread t goes on with the values l; one that is over keeps none.
GoWith(t, from, to, l) ==
  /\ local[t].pc = from
  /\ local' = [local EXCEPT ![t] = IF to = "over" THEN NoMore ELSE [l EXCEPT !.pc = to]]
Go(t, from, to) == GoWith(t, from, to, local[t])

-----------------------------------------------------------------------------
(* The store: every operation holds its lock *)

\* Sessions of POST init have an id of their own; read-only ones share "job:<id>".
Lookup(m, by) == {n \in shelf : page[n].shape = by /\ (by = "own" => n = m)}

\* create: a session under an id in use takes the place of the old one.
Shelved(m, by) == (shelf \ Lookup(m, by)) \cup {m}

\* The session that thread t works on, as the store finds it by its id.
Here(t) == Lookup(local[t].at, local[t].by)

\* find_by_job
FindByJob == shelf
FindByIdempotency == {m \in shelf : page[m].keyed}

\* put_nowait
Delivered(c, seq) ==
  IF Len(c.queue) < QueueSize THEN [c EXCEPT !.queue = Append(@, seq)]
  ELSE [c EXCEPT !.full = TRUE]

\* emit on the sessions M, which is one session or none.
Emit(M, event) ==
  /\ page' = [m \in Makers |->
       IF m \in M THEN [page[m] EXCEPT !.log = Append(@, event)] ELSE page[m]]
  /\ cursor' = [c \in Streams |->
       IF cursor[c].on \in M
         THEN Delivered(cursor[c], Len(page[cursor[c].on].log) + 1)
         ELSE cursor[c]]

\* update on the sessions M; _refresh computes the entity tag from the sections.
Update(M, Patch(_)) ==
  /\ page' = [m \in Makers |->
       IF m \in M THEN [page[m] EXCEPT !.state = Patch(@)] ELSE page[m]]
  /\ UNCHANGED cursor

\* _prune: by age alone, whoever uses the session.
Prune(m) ==
  /\ m \in shelf
  /\ shelf' = shelf \ {m}
  /\ UNCHANGED <<jobRow, page, local, cursor>>

-----------------------------------------------------------------------------
(* The library row: update_job leaves None-valued fields unchanged *)

\* Mutant of WithProducts: None is written too.
WithProductsBlindly(r, profile, gap) == [r EXCEPT !.profile = profile, !.gap = gap]

WithProducts(r, profile, gap) ==
  [r EXCEPT !.profile = @ \/ profile, !.gap = @ \/ gap]

-----------------------------------------------------------------------------
(* POST /api/workbench/session/init *)

InitFind(i) ==
  /\ Go(i, "idle", IF FindByIdempotency # {} THEN "over" ELSE "creating")
  /\ UNCHANGED <<jobRow, page, shelf, cursor>>

\* What a request keeps of the row it has read.
RowRead(t) == [local[t] EXCEPT !.profile = jobRow.profile, !.jobGap = jobRow.gap,
                               !.pending = jobRow.pending]

\* _create_library_job_without_llm; a duplicate leads to the session of its job.
InitCreateJob(i) ==
  /\ GoWith(i, "creating",
            IF ~jobRow.stored THEN "fresh" ELSE IF FindByJob # {} THEN "over" ELSE "opening",
            RowRead(i))
  /\ jobRow' = [jobRow EXCEPT !.stored = TRUE]
  /\ UNCHANGED <<page, shelf, cursor>>

InitRegister(i) ==
  /\ GoWith(i, "fresh", "created", [local[i] EXCEPT !.at = i])
  /\ page' = [page EXCEPT ![i] = [shape |-> "own", keyed |-> TRUE, log |-> <<>>,
       state |-> [NoSections EXCEPT !.gapStatus = IF HasResume THEN "queued" ELSE "blocked"]]]
  /\ shelf' = Shelved(i, "own")
  /\ UNCHANGED <<jobRow, cursor>>

InitEmit(i) ==
  /\ Go(i, "created", "starting")
  /\ Emit(Here(i), "stage")
  /\ UNCHANGED <<jobRow, shelf>>

\* The cap is enforced after the session exists; without an LLM nothing starts.
Refused(t) ==
  /\ Go(t, "starting", "over")
  /\ UNCHANGED <<jobRow, page, shelf, cursor>>

StartPipeline(t) ==
  /\ GoWith(t, "starting", "begin", [NoLocal EXCEPT !.at = local[t].at, !.by = local[t].by])
  /\ UNCHANGED <<jobRow, page, shelf, cursor>>

-----------------------------------------------------------------------------
(* GET /api/workspace/session/{job_id} *)

OpenFind(q) ==
  /\ GoWith(q, "idle", IF ~jobRow.stored \/ FindByJob # {} THEN "over" ELSE "opening",
            RowRead(q))
  /\ UNCHANGED <<jobRow, page, shelf, cursor>>

\* _session_sections_from_job: the products of the row as it was read.
SectionsFromJob(l) ==
  [NoSections EXCEPT !.profile = l.profile, !.gap = l.jobGap, !.jobGap = l.jobGap,
                     !.gapStatus = IF l.jobGap THEN "ready" ELSE "blocked"]

OpenCreate(m) ==
  /\ Go(m, "opening", "over")
  /\ page' = [page EXCEPT ![m] = [shape |-> "job", keyed |-> FALSE, log |-> <<>>,
                                  state |-> SectionsFromJob(local[m])]]
  /\ shelf' = Shelved(m, "job")
  /\ UNCHANGED <<jobRow, cursor>>

-----------------------------------------------------------------------------
(* POST /api/workbench/session/{id}/analyze *)

\* session_gap_stage_pending
StagePending(s) ==
  \/ ~s.profile
  \/ HasResume /\ ~s.gap /\ ~s.jobGap

AnalyzeTest(a) ==
  \E m \in shelf :
    LET s == page[m].state IN
    /\ GoWith(a, "idle", IF s.jd # "queued" /\ StagePending(s) THEN "marking" ELSE "over",
              [local[a] EXCEPT !.at = m, !.by = page[m].shape, !.profile = s.profile])
    /\ UNCHANGED <<jobRow, page, shelf, cursor>>

AnalyzeMark(a) ==
  /\ Go(a, "marking", "starting")
  /\ Update(Here(a), LAMBDA s : [s EXCEPT !.profile = local[a].profile, !.jd = "queued",
                                          !.gap = FALSE, !.gapStatus = "queued"])
  /\ UNCHANGED <<jobRow, shelf>>

-----------------------------------------------------------------------------
(* _run_session_pipeline *)

Begin(p) ==
  /\ Go(p, "begin", IF Here(p) = {} THEN "over" ELSE "read")
  /\ Emit(Here(p), "stage")
  /\ UNCHANGED <<jobRow, shelf>>

\* The row is read again.
ReadRow(p) ==
  /\ GoWith(p, "read", "classify", RowRead(p))
  /\ UNCHANGED <<jobRow, page, shelf, cursor>>

\* Skipped when the row has its classification; an LLM error is only an event.
Classify(p) ==
  /\ Go(p, "classify", "analyse")
  /\ \/ /\ jobRow' = IF local[p].pending THEN [jobRow EXCEPT !.pending = FALSE] ELSE jobRow
        /\ UNCHANGED <<page, cursor>>
     \/ /\ local[p].pending
        /\ Emit(Here(p), "stage")
        /\ UNCHANGED jobRow
  /\ UNCHANGED <<shelf>>

\* A stored profile is reused; the gap stage needs a resume and never raises.
Analysed(l) ==
  {[l EXCEPT !.profile = TRUE, !.gap = gap] :
     gap \in IF HasResume THEN BOOLEAN ELSE {FALSE}}

Analyse(p) ==
  /\ \E l \in Analysed(local[p]) : GoWith(p, "analyse", "persist", l)
  /\ Emit(Here(p), "stage")
  /\ UNCHANGED <<jobRow, shelf>>

\* update_job; a UserStoreError is logged.
Persist(p) ==
  /\ \/ jobRow' = WithProducts(jobRow, local[p].profile, local[p].gap)
     \/ UNCHANGED jobRow
  /\ GoWith(p, "persist", "publish", [local[p] EXCEPT !.jobGap = jobRow'.gap])
  /\ UNCHANGED <<page, shelf, cursor>>

Ready(l, s) ==
  [s EXCEPT !.status = "ready", !.jd = "ready", !.profile = l.profile, !.gap = l.gap,
            !.gapStatus = IF l.gap THEN "ready" ELSE "blocked", !.jobGap = l.jobGap]

\* Mutant of Publish: the event is left out.
PublishSilently(p) ==
  /\ Go(p, "publish", "over")
  /\ Update(Here(p), LAMBDA s : Ready(local[p], s))
  /\ UNCHANGED <<jobRow, shelf>>

Publish(p) ==
  /\ Go(p, "publish", "announce")
  /\ Update(Here(p), LAMBDA s : Ready(local[p], s))
  /\ UNCHANGED <<jobRow, shelf>>

Announce(p) ==
  /\ Go(p, "announce", "over")
  /\ Emit(Here(p), "gap_ready")
  /\ UNCHANGED <<jobRow, shelf>>

\* The stages that call an LLM or read settings may raise.
Raise(p) ==
  /\ \E stage \in {"read", "classify", "analyse"} : Go(p, stage, "failing")
  /\ UNCHANGED <<jobRow, page, shelf, cursor>>

FailSession(p) ==
  /\ Go(p, "failing", "reporting")
  /\ Update(Here(p), LAMBDA s : [s EXCEPT !.status = "failed", !.jd = "failed",
                                          !.profile = FALSE])
  /\ UNCHANGED <<jobRow, shelf>>

FailEvent(p) ==
  /\ Go(p, "reporting", "over")
  /\ Emit(Here(p), "error")
  /\ UNCHANGED <<jobRow, shelf>>

-----------------------------------------------------------------------------
(* preanalyze_job *)

\* A stored profile and a settled gap are answered from the row; otherwise the
\* cap, the configuration or the probe may refuse.
PreRead(x) ==
  /\ jobRow.stored
  /\ LET ready == jobRow.profile /\ ~jobRow.pending /\ (HasResume => jobRow.gap)
     IN \E to \in IF ready THEN {"over"} ELSE {"calling", "over"} :
          GoWith(x, "idle", to,
                 [RowRead(x) EXCEPT !.profile = @ /\ ~jobRow.pending])
  /\ UNCHANGED <<jobRow, page, shelf, cursor>>

\* Classification, profile and gap; a failed profile and an auth or quota
\* failure of any stage end the call with nothing saved.
PreCall(x) ==
  /\ \E to \in {"saving", "over"}, l \in Analysed(local[x]) : GoWith(x, "calling", to, l)
  /\ UNCHANGED <<jobRow, page, shelf, cursor>>

PreSave(x) ==
  /\ jobRow' = [WithProducts(jobRow, local[x].profile, local[x].gap) EXCEPT !.pending = FALSE]
  /\ GoWith(x, "saving", "syncing", [local[x] EXCEPT !.jobGap = jobRow'.gap])
  /\ UNCHANGED <<page, shelf, cursor>>

\* A session of the job is updated and told.
PreSync(x) ==
  /\ \/ FindByJob = {} /\ Go(x, "syncing", "over") /\ UNCHANGED <<page, cursor>>
     \/ \E m \in FindByJob :
          /\ GoWith(x, "syncing", "telling",
                    [local[x] EXCEPT !.at = m, !.by = page[m].shape])
          /\ Update({m}, LAMBDA s : Ready(local[x], s))
  /\ UNCHANGED <<jobRow, shelf>>

PreTell(x) ==
  /\ Go(x, "telling", "over")
  /\ Emit(Here(x), "gap_ready")
  /\ UNCHANGED <<jobRow, shelf>>

-----------------------------------------------------------------------------
(* GET .../events: the cursor copies the history and subscribes under one lock *)

\* Mutant of Replay: the newest event is taken for a live one.
ReplayButLast(n) == [k \in 1 .. (IF n <= QueueSize THEN n ELSE QueueSize) - 1 |-> k]

\* The history that fits the queue.
Replay(n) == [k \in 1 .. (IF n <= QueueSize THEN n ELSE QueueSize) |-> k]

Subscribe(c) ==
  \E m \in shelf :
    LET n == Len(page[m].log) IN
    /\ cursor[c].open /\ cursor[c].on = NoPage
    /\ cursor' = [cursor EXCEPT ![c].on = m, ![c].queue = Replay(n), ![c].full = n > QueueSize]
    /\ UNCHANGED <<jobRow, page, shelf, local>>

\* next_item; on an idle queue it returns a heartbeat, which changes nothing.
NextItem(c) ==
  /\ cursor[c].queue # <<>>
  /\ cursor' = [cursor EXCEPT ![c].queue = Tail(@), ![c].seen = Head(cursor[c].queue)]
  /\ UNCHANGED <<jobRow, page, shelf, local>>

-----------------------------------------------------------------------------
(* GET .../session/{id}: public_state reads the sections, then the tag, unlocked *)

PollBody(r) ==
  \E m \in shelf :
    /\ GoWith(r, "idle", "tag", [local[r] EXCEPT !.at = m, !.got = page[m].state])
    /\ UNCHANGED <<jobRow, page, shelf, cursor>>

PollTag(r) ==
  /\ Go(r, "tag", "over")
  /\ UNCHANGED <<jobRow, page, shelf, cursor>>

-----------------------------------------------------------------------------
InitSteps(i) == InitFind(i) \/ InitCreateJob(i) \/ InitRegister(i) \/ InitEmit(i)

PipelineSteps(p) ==
  \/ Begin(p) \/ ReadRow(p) \/ Classify(p) \/ Analyse(p) \/ Persist(p)
  \/ Publish(p) \/ Announce(p) \/ Raise(p) \/ FailSession(p) \/ FailEvent(p)

SessionsNext ==
  \/ \E i \in Inits : InitSteps(i)
  \/ \E q \in Opens : OpenFind(q)
  \/ \E m \in Makers : OpenCreate(m)
  \/ \E a \in Analyses : AnalyzeTest(a) \/ AnalyzeMark(a)
  \/ \E t \in Starters : Refused(t) \/ StartPipeline(t) \/ PipelineSteps(t)
  \/ \E x \in Preanalyses : PreRead(x) \/ PreCall(x) \/ PreSave(x) \/ PreSync(x) \/ PreTell(x)
  \/ \E c \in Streams : Subscribe(c) \/ NextItem(c)
  \/ \E r \in Polls : PollBody(r) \/ PollTag(r)
  \/ \E m \in Makers : Prune(m)

\* A pipeline is a thread of its own whose calls all have deadlines.
SessionsFairness == \A p \in Starters : WF_sessionVars(PipelineSteps(p))

SessionsSpec == SessionsInit /\ [][SessionsNext]_sessionVars /\ SessionsFairness

-----------------------------------------------------------------------------
(* Properties *)

\* A stream loses nothing between the replay and the live events: what its
\* client got and what waits in its queue are the events of the session, each
\* once and in order, up to the moment its queue overflowed.
StreamsMissNothing ==
  \A c \in Streams : cursor[c].on # NoPage =>
    LET q == cursor[c].queue IN
    /\ \A k \in 1 .. Len(q) : q[k] > (IF k = 1 THEN cursor[c].seen ELSE q[k - 1])
    /\ ~cursor[c].full =>
         /\ cursor[c].seen + Len(q) = Len(page[cursor[c].on].log)
         /\ \A k \in 1 .. Len(q) : q[k] = cursor[c].seen + k

\* A profile or a gap report that the row has once is never lost again, however
\* pipelines and preanalyses that failed a stage save over each other.
ProductsSurvive ==
  [][(jobRow.profile => jobRow'.profile) /\ (jobRow.gap => jobRow'.gap)]_sessionVars

Endings(m) == Cardinality({k \in 1 .. Len(page[m].log) : page[m].log[k] # "stage"})

InPipeline == {"begin", "read", "classify", "analyse", "persist", "publish", "announce",
               "failing", "reporting"}
WorksOn(p, m) == local[p].pc \in InPipeline /\ Here(p) = {m}

\* The subscribers of a session whose pipeline starts are told how it ended,
\* unless the session is pruned or replaced meanwhile.
PipelinesReport ==
  \A m \in Makers :
    (Endings(m) = 0 /\ \E p \in Starters : WorksOn(p, m))
      ~> (m \notin shelf \/ Endings(m) > 0)

-----------------------------------------------------------------------------
(* Statements of the repository that the code does not keep *)

\* services/workbench.py:147: the entity tag is one of the state it is sent with.
TagNamesTheState ==
  [][\A r \in Polls :
       local[r].pc = "tag" /\ local'[r].pc = "over"
         => local[r].got = page[local[r].at].state]_sessionVars

\* routers/workspace.py:255-256: a call to analyze leaves the session with its
\* pipeline, and later calls return the state without another one.
OnePipelinePerSession ==
  \A m \in shelf : Cardinality({p \in Starters : WorksOn(p, m)}) <= 1

\* services/workbench.py:623-625: a session whose analysis did not come about stays re-runnable.
QueuedHasPipeline ==
  \A m \in shelf : page[m].state.jd = "queued" =>
    \E t \in Starters : WorksOn(t, m) \/ (local[t].pc = "starting" /\ Here(t) = {m})

=============================================================================
