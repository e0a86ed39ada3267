------------------------------- MODULE Ranking -------------------------------
(***************************************************************************)
(* The ranking of jobs and resumes (api/services/resume_ranking.py) over   *)
(* the vector index (vector_index.py): the background rebuild with its     *)
(* lock, the recommendations, the best resumes of a job and the near       *)
(* duplicates of an imported posting.                                      *)
(*                                                                         *)
(* A vector is the text it was made from; Score(a, b) is the cosine of the *)
(* vectors of a and b, as a number that grows with it, and the row of a    *)
(* text carries its checksum.                                              *)
(***************************************************************************)
EXTENDS Naturals, Sequences, FiniteSets, Functions, Selection

CONSTANTS
  Postings,    \* bound: job ids, each a number (the order of ties)
  CVs, Inline, \* bound: resume ids, numbers; Inline stands for every text sent with a request
  JobTexts, CVTexts,  \* bound: texts of jobs and of resumes
  Blank, Absent,      \* no text; no such job or row
  EmbedModels, \* embedding models a tenant may configure
  Score(_, _), \* resume text, job text -> similarity
  MatchScore,  \* job -> stored match score
  SkillsOf(_), \* text -> its skills
  Limit,       \* how many rows an answer has
  Threshold,   \* NEAR_DUPLICATE_THRESHOLD
  ChunkSize,   \* batch_size of the rebuild
  Askers, Rebuilders, \* bound: request threads
  MaxEdits,    \* bound: changes of jobs, resumes and settings
  Free         \* the lock is not held

ASSUME RankingAssumption ==
  /\ Postings \subseteq Nat /\ IsFiniteSet(Postings) /\ MatchScore \in [Postings -> Nat]
  /\ CVs \subseteq Nat /\ IsFiniteSet(CVs) /\ Inline \in CVs
  /\ \A text \in JobTexts \union CVTexts :
       IsFiniteSet(SkillsOf(text)) /\ \A job \in JobTexts : Score(text, job) \in Nat
  /\ Blank \notin JobTexts \union CVTexts /\ Absent \notin JobTexts \union CVTexts
  /\ Free \notin Rebuilders
  /\ MaxEdits \in Nat /\ Limit \in Nat \ {0} /\ ChunkSize \in Nat \ {0}

VARIABLES
  jdOf,     \* job -> its text, Blank, or Absent once it is deleted
  cvOf,     \* resume -> its text or Blank
  jobVec,   \* model, job -> the row [text, skills] or Absent
  cvVec,    \* model, resume -> the text of the row or Absent
  embedder, \* the model that is configured
  edits,    \* how often the three changed
  building, \* _build_states: whether a build runs, how far it is, how it ended
  holder,   \* who holds _build_lock
  build,    \* the background thread
  rebuilds, \* request thread of the rebuild and status routes -> its place
  seeker    \* request thread of the ranking routes -> its place and locals

rankVars == <<jdOf, cvOf, jobVec, cvVec, embedder, edits, building, holder, build, rebuilds, seeker>>
library_ == <<jdOf, cvOf, embedder, edits>>
index_   == <<jobVec, cvVec>>
buildVars == <<building, holder, build, rebuilds>>

\* The locals of a request, of which each route uses some, and of the build thread.
Idle == [at |-> "idle", what |-> "none", cv |-> Absent, job |-> Absent, text |-> Absent,
         model |-> Absent, ids |-> {}, query |-> Absent, jobVector |-> Absent, todo |-> {},
         texts |-> Absent, got |-> <<>>, reason |-> "none", items |-> <<>>]
Off  == [at |-> "off", model |-> Absent, texts |-> Absent, todo |-> <<>>, chunk |-> <<>>, done |-> 0]

RankInit ==
  /\ jdOf \in [Postings -> JobTexts \union {Blank, Absent}] /\ cvOf \in [CVs \ {Inline} -> CVTexts]
  /\ jobVec = [m \in EmbedModels |-> [j \in Postings |-> Absent]]
  /\ cvVec = [m \in EmbedModels |-> [r \in CVs |-> Absent]]
  /\ embedder \in EmbedModels /\ edits = 0
  /\ building = [running |-> FALSE, embedded |-> 0, error |-> FALSE]
  /\ holder = Free /\ build = Off
  /\ rebuilds = [q \in Rebuilders |-> "idle"] /\ seeker = [a \in Askers |-> Idle]

(***************************************************************************)
(* The index: VectorIndex.                                                 *)
(***************************************************************************)
\* _upsert leaves a row alone whose checksum is that of the text, also under force.
UpsertJob(m, j, text, skills) ==
  jobVec' = IF jobVec[m][j] # Absent /\ jobVec[m][j].text = text THEN jobVec
            ELSE [jobVec EXCEPT ![m][j] = [text |-> text, skills |-> skills]]

UpsertCV(m, r, text) == cvVec' = [cvVec EXCEPT ![m][r] = text]

Before(s, i, j) == s[i] > s[j] \/ (s[i] = s[j] /\ i < j)
Ranked(ids, s) ==
  [n \in 1..Cardinality(ids) |-> CHOOSE i \in ids : Cardinality({j \in ids : Before(s, j, i)}) = n - 1]
FirstOf(k, seq)     == SubSeq(seq, 1, IF Len(seq) < k THEN Len(seq) ELSE k)

\* Mutant: the search forgets the ids it was given.
SearchAll(m, query, k, ids) ==
  LET rows == {j \in Postings : jobVec[m][j] # Absent}
  IN  FirstOf(k, Ranked(rows, [j \in rows |-> Score(query, jobVec[m][j].text)]))

\* The rows of the model, of the asked ids, by cosine and then id.
SearchJobs(m, query, k, ids) ==
  LET rows == {j \in ids : jobVec[m][j] # Absent}
  IN  FirstOf(k, Ranked(rows, [j \in rows |-> Score(query, jobVec[m][j].text)]))

(***************************************************************************)
(* The rebuild: start_rebuild, rebuild_index, _snapshot, index_status.     *)
(***************************************************************************)
\* _build_lock is a threading.Lock: _snapshot under it waits for itself.
StartRebuild(q) ==
  /\ rebuilds[q] = "idle" /\ holder = Free
  /\ IF building.running
       THEN /\ holder' = q /\ rebuilds' = [rebuilds EXCEPT ![q] = "inner"]
            /\ UNCHANGED <<building, build>>
       ELSE /\ building' = [running |-> TRUE, embedded |-> 0, error |-> FALSE]
            /\ build' = [Off EXCEPT !.at = "list"]
            /\ rebuilds' = [rebuilds EXCEPT ![q] = "reply"] /\ UNCHANGED holder
  /\ UNCHANGED <<library_, index_, seeker>>

IndexStatus(q) ==
  /\ rebuilds[q] = "idle" /\ rebuilds' = [rebuilds EXCEPT ![q] = "status"]
  /\ UNCHANGED <<library_, index_, building, holder, build, seeker>>

\* index_status takes it twice.
Snapshot(q) ==
  /\ rebuilds[q] \in {"inner", "reply", "status"} /\ holder = Free
  /\ rebuilds' = [rebuilds EXCEPT ![q] = IF @ = "status" THEN "reply" ELSE "idle"]
  /\ UNCHANGED <<library_, index_, building, holder, build, seeker>>

BuildStep == UNCHANGED <<library_, building, holder, rebuilds, seeker>>
BuildFails == build' = [Off EXCEPT !.at = "failed"]

\* list_jobs; the embedder was built before.
BuildList ==
  /\ build.at = "list"
  /\ \/ build' = [build EXCEPT !.at = "shas", !.model = embedder, !.texts = jdOf]
     \/ BuildFails
  /\ UNCHANGED index_ /\ BuildStep

BuildShas ==
  /\ build.at = "shas"
  /\ LET todo == {j \in Postings : /\ build.texts[j] \notin {Blank, Absent}
                                   /\ \/ jobVec[build.model][j] = Absent
                                      \/ jobVec[build.model][j].text # build.texts[j]}
     IN  build' = [build EXCEPT !.at = "embed", !.todo = InOrder(todo)]
  /\ UNCHANGED index_ /\ BuildStep

BuildEmbed ==
  /\ build.at = "embed" /\ build.todo # <<>>
  /\ LET n == IF Len(build.todo) < ChunkSize THEN Len(build.todo) ELSE ChunkSize
     IN  \/ build' = [build EXCEPT !.at = "write", !.chunk = SubSeq(build.todo, 1, n),
                                   !.todo = SubSeq(@, n + 1, Len(@))]
         \/ BuildFails
  /\ UNCHANGED index_ /\ BuildStep

\* The vector is of the text that was listed, whatever the job says by now.
BuildWrite ==
  /\ build.at = "write"
  /\ LET j == Head(build.chunk)
     IN  UpsertJob(build.model, j, build.texts[j], SkillsOf(build.texts[j]))
  /\ build' = [build EXCEPT !.chunk = Tail(@), !.done = @ + 1,
                            !.at = IF Len(build.chunk) = 1 THEN "progress" ELSE "write"]
  /\ UNCHANGED cvVec /\ BuildStep

BuildProgress ==
  /\ build.at = "progress" /\ holder = Free
  /\ building' = [building EXCEPT !.embedded = build.done]
  /\ build' = [build EXCEPT !.at = "embed"]
  /\ UNCHANGED <<library_, index_, holder, rebuilds, seeker>>

BuildEnds ==
  /\ build.at = "failed" \/ (build.at = "embed" /\ build.todo = <<>>)
  /\ holder = Free
  /\ building' = IF build.at = "failed" THEN [building EXCEPT !.running = FALSE, !.error = TRUE]
                 ELSE [building EXCEPT !.running = FALSE, !.embedded = build.done]
  /\ build' = Off
  /\ UNCHANGED <<library_, index_, holder, rebuilds, seeker>>

(***************************************************************************)
(* The ranking requests: recommend_jobs, best_resume, similar_existing_*.  *)
(***************************************************************************)
Seek(a, locals) == seeker' = [seeker EXCEPT ![a] = locals]
At(a, place)    == seeker[a].at = place
Answer(a, reason, ids) == Seek(a, [Idle EXCEPT !.at = "answered", !.reason = reason, !.items = ids])
Reads == UNCHANGED <<library_, index_, buildVars>>

\* _fallback: by the stored score, then the id.
Fallback(ids) == FirstOf(Limit, Ranked(ids, MatchScore))

\* The text of the resume, or one that came with the request.
ResumeText(r, sent) == IF r = Inline THEN sent ELSE cvOf[r]

RecommendReads(a) ==
  /\ At(a, "idle")
  /\ \E r \in CVs, sent \in CVTexts \union {Blank} :
       LET text == ResumeText(r, sent)
       IN  IF text = Blank THEN Answer(a, "resume_text_missing", <<>>)
           ELSE Seek(a, [Idle EXCEPT !.at = "list", !.what = "recommend", !.cv = r, !.text = text])
  /\ Reads

\* The listed jobs, some of them when the request has filters; then the embedder.
RecommendLists(a) ==
  /\ At(a, "list")
  /\ \E ids \in SUBSET {j \in Postings : jdOf[j] # Absent} :
       IF ids = {} THEN Answer(a, "none", <<>>)
       ELSE \/ Answer(a, "embedder_unavailable", Fallback(ids))
            \/ Seek(a, [seeker[a] EXCEPT !.at = "sha", !.ids = ids, !.model = embedder])
  /\ Reads

BestReads(a) ==
  /\ At(a, "idle")
  /\ \E j \in Postings :
       /\ jdOf[j] # Absent
       /\ \/ Answer(a, "embedder_unavailable", <<>>)
          \/ Answer(a, "job_text_missing", <<>>) /\ jdOf[j] = Blank
          \/ /\ jdOf[j] # Blank
             /\ Seek(a, [Idle EXCEPT !.at = "jobRow", !.what = "best", !.job = j, !.text = jdOf[j],
                                     !.model = embedder])
  /\ Reads

\* A row of the job is used without a look at its checksum.
BestJobRow(a) ==
  /\ At(a, "jobRow")
  /\ LET me == seeker[a]
         row == jobVec[me.model][me.job]
     IN  IF row # Absent THEN Seek(a, [me EXCEPT !.at = "resumes", !.jobVector = row.text])
         ELSE \/ Answer(a, "embedder_failed", <<>>)
              \/ Seek(a, [me EXCEPT !.at = "jobStore", !.jobVector = me.text])
  /\ Reads

\* Stored without skills: no later build fills them in, the checksum is the same.
BestJobStore(a) ==
  /\ At(a, "jobStore")
  /\ UpsertJob(seeker[a].model, seeker[a].job, seeker[a].text, {})
  /\ Seek(a, [seeker[a] EXCEPT !.at = "resumes"])
  /\ UNCHANGED <<library_, cvVec, buildVars>>

BestLists(a) ==
  /\ At(a, "resumes")
  /\ LET ids == {r \in CVs \ {Inline} : cvOf[r] # Blank}
     IN  Seek(a, [seeker[a] EXCEPT !.at = "each", !.todo = ids, !.texts = cvOf])
  /\ Reads

\* The resumes by the similarity of their vectors to that of the job.
Suited(got, jobVector) ==
  LET ids   == {got[i].cv : i \in DOMAIN got}
      score == [r \in ids |-> Score((CHOOSE i \in Range(got) : i.cv = r).vec, jobVector)]
  IN  FirstOf(Limit, Ranked(ids, score))

BestNext(a) ==
  /\ At(a, "each")
  /\ LET me == seeker[a] IN
     IF me.todo # {}
       THEN LET r == CHOOSE r \in me.todo : \A o \in me.todo : r <= o
            IN  Seek(a, [me EXCEPT !.at = "sha", !.cv = r, !.text = me.texts[r], !.todo = @ \ {r}])
       ELSE Answer(a, "none", Suited(me.got, me.jobVector))
  /\ Reads

\* _resume_vector: checksum, row, embedding and store are calls of their own.
Continue(a, me, vec) ==
  IF me.what = "recommend" THEN Seek(a, [me EXCEPT !.at = "search", !.query = vec])
  ELSE Seek(a, [me EXCEPT !.at = "each", !.got = Append(@, [cv |-> me.cv, vec |-> vec])])

CVSha(a) ==
  /\ At(a, "sha")
  /\ LET me == seeker[a]
     IN  Seek(a, [me EXCEPT !.at = IF cvVec[me.model][me.cv] = me.text THEN "row" ELSE "embed"])
  /\ Reads

CVRow(a) ==
  /\ At(a, "row") /\ Continue(a, seeker[a], cvVec[seeker[a].model][seeker[a].cv]) /\ Reads

\* A failed embedding costs a recommendation its ranking, a best resume this one resume.
CVEmbed(a) ==
  /\ At(a, "embed")
  /\ LET me == seeker[a] IN
     \/ Seek(a, [me EXCEPT !.at = "store"])
     \/ me.what = "recommend" /\ Answer(a, "embedder_failed", Fallback(me.ids))
     \/ me.what = "best" /\ Seek(a, [me EXCEPT !.at = "each"])
  /\ Reads

CVStore(a) ==
  /\ At(a, "store")
  /\ UpsertCV(seeker[a].model, seeker[a].cv, seeker[a].text)
  /\ Continue(a, seeker[a], seeker[a].text)
  /\ UNCHANGED <<library_, jobVec, buildVars>>

\* _rrf of the cosine order and the order by shared skills, over the cosine hits only.
Share(p) == 1000000 \div (60 + p)
Place(seq, j) == CHOOSE p \in 1..Len(seq) : seq[p] = j
Fuse(m, text, hits) ==
  LET overlap(j) == (1000 * Cardinality(SkillsOf(text) \intersect jobVec[m][j].skills))
                      \div Cardinality(jobVec[m][j].skills)
      known   == {j \in Range(hits) : jobVec[m][j].skills # {}}
      keyword == Ranked(known, [j \in known |-> overlap(j)])
      sum     == [j \in Range(hits) |-> Share(Place(hits, j))
                                        + IF j \in known THEN Share(Place(keyword, j)) ELSE 0]
  IN  IF SkillsOf(text) = {} \/ known = {} THEN hits ELSE Ranked(Range(hits), sum)

RecommendSearches(a) ==
  /\ At(a, "search")
  /\ LET me   == seeker[a]
         hits == SearchJobs(me.model, me.query, Limit, me.ids)
     IN  IF hits = <<>> THEN Answer(a, "index_empty", Fallback(me.ids))
         ELSE \E order \in {hits, Fuse(me.model, me.text, hits)} :
                Answer(a, "none", Where(order, me.ids))
  /\ Reads

\* The near duplicates of a new posting: the search sees rows of deleted jobs, too.
HintSearches(a) ==
  /\ At(a, "idle")
  /\ \E j \in Postings :
       /\ jdOf[j] \notin {Blank, Absent} /\ \E i \in Postings : jobVec[embedder][i] # Absent
       /\ LET text == jdOf[j]
              hits == SearchJobs(embedder, text, Limit + 2, Postings)
              near == {i \in Range(hits) \ {j} : Score(text, jobVec[embedder][i].text) >= Threshold}
          IN  Seek(a, [Idle EXCEPT !.at = "hints", !.what = "hint", !.job = j, !.items = Where(hits, near)])
  /\ Reads

HintAnswers(a) ==
  /\ At(a, "hints")
  /\ Answer(a, "none", FirstOf(Limit, Where(seeker[a].items, {i \in Postings : jdOf[i] # Absent})))
  /\ Reads

SeekerRests(a) == At(a, "answered") /\ Seek(a, Idle) /\ Reads

(***************************************************************************)
(* The rest of the program: jobs, resumes and the embedding settings.      *)
(***************************************************************************)
EditLibrary ==
  /\ edits < MaxEdits /\ edits' = edits + 1
  /\ \/ /\ \E j \in Postings, text \in JobTexts \union {Absent} :
             jdOf[j] # Absent /\ jdOf' = [jdOf EXCEPT ![j] = text]
        /\ UNCHANGED <<cvOf, embedder>>
     \/ /\ \E r \in CVs \ {Inline}, text \in CVTexts : cvOf' = [cvOf EXCEPT ![r] = text]
        /\ UNCHANGED <<jdOf, embedder>>
     \/ embedder' \in EmbedModels /\ UNCHANGED <<jdOf, cvOf>>
  /\ UNCHANGED <<index_, buildVars, seeker>>

RebuildNext ==
  \/ \E q \in Rebuilders : StartRebuild(q) \/ IndexStatus(q) \/ Snapshot(q)
  \/ BuildList \/ BuildShas \/ BuildEmbed \/ BuildWrite \/ BuildProgress \/ BuildEnds

SeekNext ==
  \E a \in Askers :
    \/ RecommendReads(a) \/ RecommendLists(a) \/ RecommendSearches(a)
    \/ BestReads(a) \/ BestJobRow(a) \/ BestJobStore(a) \/ BestLists(a) \/ BestNext(a)
    \/ CVSha(a) \/ CVRow(a) \/ CVEmbed(a) \/ CVStore(a)
    \/ HintSearches(a) \/ HintAnswers(a) \/ SeekerRests(a)

RankNext == RebuildNext \/ SeekNext \/ EditLibrary

\* Every thread of a request and of the build goes on while it can.
RankFairness ==
  /\ \A q \in Rebuilders : WF_rankVars(Snapshot(q))
  /\ WF_rankVars(BuildList) /\ WF_rankVars(BuildShas) /\ WF_rankVars(BuildEmbed)
  /\ WF_rankVars(BuildWrite) /\ WF_rankVars(BuildProgress) /\ WF_rankVars(BuildEnds)

RankSpec == RankInit /\ [][RankNext]_rankVars /\ RankFairness

Reasons == {"none", "resume_text_missing", "job_text_missing", "embedder_unavailable",
            "embedder_failed", "index_empty"}

\* Types; a build runs exactly as long as its thread, and at most one request is stuck under the lock.
RankTypeOK ==
  /\ jdOf \in [Postings -> JobTexts \union {Blank, Absent}] /\ embedder \in EmbedModels
  /\ \A m \in EmbedModels, j \in Postings : jobVec[m][j] # Absent => jobVec[m][j].text \in JobTexts
  /\ cvVec \in [EmbedModels -> [CVs -> CVTexts \union {Absent}]]
  /\ building.running <=> build.at # "off"
  /\ \A q \in Rebuilders : rebuilds[q] = "inner" <=> holder = q
  /\ \A a \in Askers : At(a, "answered") => seeker[a].reason \in Reasons

\* A recommendation is filled from the listed jobs: as many of them as have a vector, up to the
\* limit, none twice, and all of them by the stored score when none has one. Rows that deleted or
\* filtered jobs left in the index take no place of theirs.
RankingsServeTheLibrary ==
  [][\A a \in Askers : At(a, "search") /\ At(a, "answered")' =>
       LET me      == seeker[a]
           items   == seeker'[a].items
           indexed == {j \in me.ids : jobVec[me.model][j] # Absent}
           n       == Cardinality(IF indexed = {} THEN me.ids ELSE indexed)
       IN  /\ Range(items) \subseteq me.ids /\ IsInjective(items)
           /\ Len(items) = IF n < Limit THEN n ELSE Limit
           /\ indexed # {} => Range(items) \subseteq indexed]_rankVars

\* "does not block requests": each request of the rebuild and of its status is answered.
RebuildRequestsAnswer == \A q \in Rebuilders : rebuilds[q] # "idle" ~> rebuilds[q] = "idle"
====
