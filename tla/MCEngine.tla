----------------------------- MODULE MCEngine -------------------------------
(***************************************************************************)
(* One instance for five parts of the LLM side that share no variable: the *)
(* tailoring pipeline and its bullet rewrites, the calls to one provider,  *)
(* the ranking of jobs for a resume, the optimization of a master resume   *)
(* and the daily usage ledger.  As in MCStores, a behaviour exercises one  *)
(* of them, chosen in the initial state.                                   *)
(***************************************************************************)
EXTENDS Editor, LLMCalls, MCRanking, MCResumeOptimize, TaskEntry

VARIABLE part

-----------------------------------------------------------------------------
(* The pipeline: have, skill are terms of the resume, gap is a term of the *)
(* job that it lacks, fake one of neither                                  *)

CONSTANTS have, skill, lack, fake
Says(words, n)     == [says |-> words, entries |-> n]
Unit(k, sec, text) == [kind |-> k, section |-> sec, text |-> text]
Plain  == Says({have}, 1)
Grown  == Says({have, lack}, 1)
Faked  == Says({fake}, 1)
SkillUnit == Unit("bullet", "skills", Says({skill}, 1))
MCDocs == {<<Unit("bullet", "work", Plain), Unit("bullet", "work", Plain), SkillUnit>>,
           <<Unit("bullet", "work", Plain), SkillUnit>>,
           <<Unit("text", "work", Plain)>>}

Gap_(missing, supported, evidence, emphasis, scenarios) ==
  [missing |-> missing, supported |-> supported, evidence |-> evidence, emphasis |-> emphasis,
   strength |-> {}, scenarios |-> scenarios]
MCGaps == {Gap_({lack}, {}, {}, {}, {}),
           Gap_({lack}, {have}, {[term |-> have, at |-> 1]}, {skill}, {}),
           Gap_({lack}, {have}, {[term |-> have, at |-> 1]}, {}, {}),
           Gap_({}, {lack}, {}, {}, {lack}),
           Gap_({}, {lack}, {[term |-> lack, at |-> 1]}, {}, {})}

Item(type, sec, quote, original, proposed) ==
  [type |-> type, section |-> sec, quote |-> quote, original |-> original, at |-> 1, proposed |-> proposed]
Invents == Item("modify", "work", "found", Plain, Grown)
MCItems == {Invents,
            Item("modify", "work", "found", Faked, Faked),
            Item("modify", "work", "found", Faked, Says({have, fake}, 1)),
            Item("add", "work", "found", Plain, Faked),
            Item("add", "skills", "close", NoText, Plain),
            Item("modify", "work", "close", Faked, Says({have}, 2)),
            Item("modify", "skills", "absent", Says({skill}, 1), Says({skill}, 2)),
            Item("remove", "work", "lost", Plain, NoText),
            Item("modify", "work", "absent", Plain, Plain),
            Item("remove", "work", "absent", Plain, NoText)}
AnswerOf(items, sections) == [items |-> items, sections |-> sections]
MCAnswers ==
  {AnswerOf(<<i>>, <<>>) : i \in MCItems} \union
  {AnswerOf(<<Invents, Item("modify", "skills", "absent", Says({skill}, 1), Says({}, 1))>>, <<>>),
   AnswerOf(<<Item("modify", "work", "close", Faked, Says({}, 1)),
              Item("modify", "work", "found", Says({}, 1), Says({skill}, 1))>>, <<>>),
   AnswerOf(<<>>, <<Unit("text", "work", Says({have, fake}, 1))>>),
   AnswerOf(<<>>, <<Unit("text", "skills", Says({skill}, 1)), Unit("text", "none", Says({lack}, 1))>>)}

PlanOf(diagnosed, parallel, editor, strict, evaluates) ==
  [diagnosed |-> diagnosed, parallel |-> parallel, editor |-> editor, strict |-> strict,
   evaluates |-> evaluates]
MCPlans == {PlanOf(FALSE, TRUE, "whole", TRUE, TRUE), PlanOf(TRUE, FALSE, "whole", FALSE, FALSE),
            PlanOf(FALSE, FALSE, "local", TRUE, FALSE), PlanOf(TRUE, TRUE, "cloud", TRUE, FALSE)}
MCProposals == {Says({}, 1), Says({skill}, 2), Grown}
MCPreferred == <<"work", "skills">>

-----------------------------------------------------------------------------
(* Calls: two stages that share a cache key *)

CONSTANT cacheKey
MCKeyOf(s) == cacheKey

-----------------------------------------------------------------------------
(* One part at a time; the others stay in one initial state *)

Parts == {"pipeline", "provider", "ranking", "optimize", "ledger"}

EngineInit ==
  /\ part \in Parts
  /\ EditorInit /\ (part # "pipeline" => doc = (CHOOSE d \in Docs : TRUE) /\ plan = (CHOOSE p \in Plans : TRUE))
  /\ LLMInit    /\ (part # "provider" => setup = [s \in Stages |-> [entry |-> "chat_json", short |-> TRUE, timed |-> TRUE]])
  /\ MCRankInit /\ (part # "ranking" => jdOf[2] = jt2)
  /\ OptInit    /\ (part # "optimize" => content = CHOOSE r \in Resumes : TRUE)
  /\ TaskInit

PipelinePart ==
  /\ part = "pipeline" /\ EditorNext
  /\ UNCHANGED <<part, llmVars, rankVars, optVars, taskVars>>

ProviderPart ==
  /\ part = "provider" /\ LLMNext
  /\ UNCHANGED <<part, edVars, rankVars, optVars, taskVars>>

RankingPart ==
  /\ part = "ranking" /\ RankNext
  /\ UNCHANGED <<part, edVars, llmVars, optVars, taskVars>>

OptimizePart ==
  /\ part = "optimize" /\ OptNext
  /\ UNCHANGED <<part, edVars, llmVars, rankVars, taskVars>>

LedgerPart ==
  /\ part = "ledger" /\ TaskNext
  /\ UNCHANGED <<part, edVars, llmVars, rankVars, optVars>>

EngineNext == PipelinePart \/ ProviderPart \/ RankingPart \/ OptimizePart \/ LedgerPart

EngineSpec == EngineInit /\ [][EngineNext]_<<part, edVars, llmVars, rankVars, optVars, taskVars>>

\* The type invariants of the five parts.
EngineTypeOK == EditorTypeOK /\ LLMTypeOK /\ RankTypeOK /\ OptTypeOK /\ TaskTypeOK
=============================================================================
