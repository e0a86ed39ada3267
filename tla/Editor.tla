-------------------------------- MODULE Editor --------------------------------
(***************************************************************************)
(* One alignment run from its diagnosis to the saved advice, and what the  *)
(* user does with the advice: engine/__init__.run, engine/tailor.py, the   *)
(* writer of the result (alignment_rules, alignment_writer), the rewrite   *)
(* and accept endpoints.                                                   *)
(*                                                                         *)
(* A text is the set of checked terms it says (the numbers and names that  *)
(* _unsupported_content compares) and its number of list entries.  That a  *)
(* text occurs in another one is equality with one of its units.           *)
(***************************************************************************)
EXTENDS Naturals, Sequences, FiniteSets, SequencesExt, FiniteSetsExt, Selection

CONSTANTS
  Terms,       \* the terms that are checked
  Sections,    \* section names
  Plans,       \* bound: what runs decide once
  Docs,        \* bound: the master resumes, sequences of units
  Gaps,        \* bound: the gap reports a model may answer
  Answers,     \* bound: the answers of the whole-document editor
  Proposals,   \* bound: the texts a bullet rewrite may answer
  Skills,      \* the section names that match _SKILLS_SECTION_RE
  Preferred,   \* the section names the editor falls back on, in order
  Rewriters,   \* bound: the rewrite requests
  MaxInFlight, \* workers of the bullet pool (4 in the code)
  RunTenant, NoTenant, NoVerdict, Gone

NoText == [says |-> {}, entries |-> 0]
NoGaps == [missing |-> {}, supported |-> {}, evidence |-> {}, emphasis |-> {}, strength |-> {}, scenarios |-> {}]

Texts == [says : SUBSET Terms, entries : Nat]
Units == [kind : {"bullet", "text"}, section : Sections, text : Texts]
Items == [type : {"add", "modify", "remove"}, section : Sections, quote : {"found", "close", "lost", "absent"},
          original : Texts, at : Nat, proposed : Texts]

\* A quote that is close to a unit is close to one of the resume.
ASSUME EditorAssumption ==
  /\ MaxInFlight \in Nat \ {0} /\ RunTenant # NoTenant
  /\ Plans \subseteq [diagnosed : BOOLEAN, parallel : BOOLEAN, editor : {"whole", "local", "cloud"},
                      strict : BOOLEAN, evaluates : BOOLEAN]
  /\ Docs \subseteq Seq(Units) /\ Proposals \subseteq Texts /\ Preferred \in Seq(Sections)
  /\ Answers \subseteq [items : Seq(Items), sections : Seq(Units)]
  /\ \A a \in Answers : \A k \in DOMAIN a.items : \A d \in Docs :
       a.items[k].quote = "close" => a.items[k].at \in DOMAIN d
  /\ \A g \in Gaps : \A e \in g.evidence : e.term \in g.supported

VARIABLES
  doc,      \* the resume text of the run
  plan,     \* what the run decides once: diagnosis at hand, parallel stages, editor, strict, evaluator
  phase,    \* where the run is
  tasks,    \* stages in flight in the two-thread pool
  calls,    \* provider calls made: stage and the tenant they are metered under
  gap,      \* the gap report
  rewrites, \* bullet index -> its rewrite
  product,  \* the TailoredResume of the report, with its degraded flag
  verdict,  \* the evaluator: NoVerdict, or the set of diff ids it names as hallucinated
  advice,   \* what save_alignment wrote
  held,     \* the diffs of the registry's result, Gone once the job has expired
  asks,     \* rewrite request -> its step and the row it read
  accepted  \* the last accepted draft and the diffs it applied

edVars == <<doc, plan, phase, tasks, calls, gap, rewrites, product, verdict, advice, held, asks, accepted>>

\* What a context copied for a pool task carries.  Mutant: the task runs in an empty one.
EmptyContext(tenant) == NoTenant

CopiedContext(tenant) == tenant

Bullets == {i \in DOMAIN doc : doc[i].kind = "bullet"}
DocSays == UNION {doc[i].text.says : i \in DOMAIN doc}
InDoc(text) == \E i \in DOMAIN doc : doc[i].text = text
SectionText(s) ==
  LET units == {i \in DOMAIN doc : doc[i].section = s}
  IN  [says |-> UNION {doc[i].text.says : i \in units}, entries |-> Cardinality(units)]

EditorInit ==
  /\ doc \in Docs
  /\ plan \in Plans
  /\ phase = "diagnose" /\ tasks = {} /\ calls = {} /\ gap = NoGaps /\ rewrites = <<>>
  /\ product = [by |-> "none", sections |-> <<>>, diffs |-> <<>>, invalid |-> <<>>, noSafe |-> FALSE, degraded |-> FALSE]
  /\ verdict = NoVerdict
  /\ advice = [status |-> "running", reason |-> "none", diffs |-> <<>>, invalid |-> <<>>, usable |-> 0,
               draft |-> <<>>]
  /\ held = Gone
  /\ asks = [c \in Rewriters |-> [step |-> "start"]]
  /\ accepted = [draft |-> <<>>, used |-> {}]

Calling(s, tenant) == calls' = calls \union {[stage |-> s, tenant |-> tenant]}

(***************************************************************************)
(* Diagnosis, profile and gap.                                             *)
(***************************************************************************)
\* A diagnosis at hand is not made again; one that fails is made by the local rules.
Diagnose ==
  /\ phase = "diagnose"
  /\ IF plan.parallel /\ ~plan.diagnosed
       THEN phase' = "both" /\ tasks' = {"diagnose", "profile"} /\ UNCHANGED calls
       ELSE /\ phase' = "profile" /\ UNCHANGED tasks
            /\ IF plan.diagnosed THEN UNCHANGED calls ELSE Calling("diagnose", RunTenant)
  /\ UNCHANGED <<doc, plan, gap, rewrites, product, verdict, advice, held, asks, accepted>>

\* The two threads end in any order; the run goes on after both.  A failed profile fails
\* the run, at the join.
PoolTask(s) ==
  /\ phase \in {"both", "bothFailing"} /\ s \in tasks
  /\ Calling(s, CopiedContext(RunTenant))
  /\ tasks' = tasks \ {s}
  /\ \E outcome \in {phase} \union (IF s = "profile" THEN {"bothFailing"} ELSE {}) :
       phase' = IF tasks' # {} THEN outcome ELSE IF outcome = "both" THEN "gap" ELSE "failed"
  /\ UNCHANGED <<doc, plan, gap, rewrites, product, verdict, advice, held, asks, accepted>>

Profile ==
  /\ phase = "profile"
  /\ Calling("profile", RunTenant)
  /\ phase' \in {"gap", "failed"}
  /\ UNCHANGED <<doc, plan, tasks, gap, rewrites, product, verdict, advice, held, asks, accepted>>

\* An answer; an answer without structure, that leaves an empty report; any other failure.
AnalyzeGaps ==
  /\ phase = "gap"
  /\ Calling("gap", RunTenant)
  /\ \/ gap' \in Gaps \union {NoGaps} /\ phase' = "edit"
     \/ phase' = "failed" /\ UNCHANGED gap
  /\ UNCHANGED <<doc, plan, tasks, rewrites, product, verdict, advice, held, asks, accepted>>

(***************************************************************************)
(* What the gap report allows.                                             *)
(***************************************************************************)
\* anchored_supported_keywords: the keywords whose quote is in the resume.
Anchored == {e \in gap.evidence : e.at \in DOMAIN doc}
KeptSupported == {e.term : e \in Anchored}

_gap_support_text == KeptSupported \union gap.emphasis \union gap.strength \union gap.scenarios

_no_safe_rewrite_reason ==
  /\ KeptSupported = {} /\ gap.emphasis = {} /\ gap.strength = {}
  /\ gap.supported # {} \/ gap.missing # {}

_skills_entry_growth(d) ==
  d.type \in {"modify", "add"} /\ d.section \in Skills /\ d.proposed.entries > d.original.entries

_missing_keyword_violation(d) ==
  d.type \in {"modify", "add"} /\ (d.proposed.says \intersect gap.missing) \ (DocSays \union d.original.says) # {}

_unsupported_content(proposed, corpus) == proposed.says \ corpus # {}

(***************************************************************************)
(* The whole-document editor.  An item of its answer: the diff as the      *)
(* model gives it; quote says whether its provenance is found as it is     *)
(* ("found"), close to unit at ("close"), nowhere ("lost") or not given.   *)
(***************************************************************************)
parse_diff_with_provenance(k, item) ==
  LET found == IF item.quote # "absent" \/ item.type = "add" \/ item.original = NoText
                 THEN item.quote ELSE IF InDoc(item.original) THEN "found" ELSE "lost"
  IN  [id |-> k, section |-> item.section, type |-> item.type, span |-> "line",
       original |-> IF found = "close" /\ item.type # "add" THEN doc[item.at].text ELSE item.original,
       proposed |-> item.proposed,
       state |-> IF found \in {"found", "close"} THEN "verified"
                 ELSE IF found = "lost" \/ (item.type = "add" /\ item.original = NoText) THEN "missing"
                 ELSE "pending_review"]

\* Mutant: the content of an addition is not checked.
ContentPassesAdds(d) ==
  d.type = "add" \/ d.proposed = NoText
    \/ ~_unsupported_content(d.proposed, DocSays \union d.original.says \union _gap_support_text)

ContentPasses(d) ==
  d.proposed = NoText \/ ~_unsupported_content(d.proposed, DocSays \union d.original.says \union _gap_support_text)

Blocked(d) == [d EXCEPT !.state = "fabricated"]

\* gate_diff_items and _apply_editor_output_contract: a pair of sequences.
gate_diff_items(items) ==
  LET parsed  == [k \in DOMAIN items |-> parse_diff_with_provenance(k, items[k])]
      empty(d) == d.type = "add" /\ d.original = NoText
      passes(d) == ~empty(d) /\ ContentPasses(d) /\ (d.state = "verified" \/ ~plan.strict)
      refused(d) == ~passes(d) \/ d.state # "verified"
      marked  == [k \in DOMAIN parsed |-> IF empty(parsed[k]) \/ ContentPasses(parsed[k])
                                          THEN parsed[k] ELSE Blocked(parsed[k])]
      grown(d) == _skills_entry_growth(d) \/ _missing_keyword_violation(d)
      through == Select(parsed, passes)
  IN  [diffs   |-> Select(through, LAMBDA d : ~grown(d)),
       invalid |-> Select(marked, LAMBDA d : refused(parsed[d.id]))
                     \o [k \in DOMAIN Select(through, grown) |-> Blocked(Select(through, grown)[k])]]

tailor_resume ==
  /\ phase = "whole"
  /\ IF _no_safe_rewrite_reason
       THEN product' = [product EXCEPT !.noSafe = TRUE] /\ phase' = "derive" /\ UNCHANGED calls
       ELSE /\ Calling("edit", RunTenant)
            /\ \/ \E answer \in Answers :
                    /\ product' = [product EXCEPT !.by = "whole", !.sections = answer.sections,
                                                  !.diffs = gate_diff_items(answer.items).diffs,
                                                  !.invalid = gate_diff_items(answer.items).invalid]
                    /\ phase' = "derive"
               \/ product' = [product EXCEPT !.degraded = TRUE] /\ phase' = "derive" \* schema, parse, empty, timeout
               \/ phase' = "failed" /\ UNCHANGED product
  /\ UNCHANGED <<doc, plan, tasks, gap, rewrites, verdict, advice, held, asks, accepted>>

(***************************************************************************)
(* The bullet editor.  Only bullets that say something of the gap report   *)
(* are rewritten, or the first one.                                        *)
(***************************************************************************)
_focus_phrases == KeptSupported \union gap.emphasis \union gap.scenarios

FirstBullet ==
  LET names == Select(Preferred, LAMBDA s : \E i \in Bullets : doc[i].section = s)
  IN  Min(IF names = <<>> THEN Bullets ELSE {i \in Bullets : doc[i].section = names[1]})

Targets ==
  LET related == {i \in Bullets : \/ doc[i].text.says \intersect _focus_phrases # {}
                                  \/ \E e \in Anchored : doc[e.at].text = doc[i].text}
  IN  IF related = {} THEN {FirstBullet} ELSE related

Pending == Targets \ DOMAIN rewrites
InPool  == plan.editor = "cloud" /\ Cardinality(Targets) > 1
Workable == {i \in Pending : Cardinality({k \in Pending : k < i}) < (IF InPool THEN MaxInFlight ELSE 1)}

StartEditor ==
  /\ phase = "edit"
  /\ IF plan.editor # "whole" /\ _no_safe_rewrite_reason
       THEN product' = [product EXCEPT !.noSafe = TRUE] /\ phase' = "derive"
       ELSE phase' = (IF plan.editor = "whole" \/ Bullets = {} THEN "whole" ELSE "map") /\ UNCHANGED product
  /\ UNCHANGED <<doc, plan, tasks, calls, gap, rewrites, verdict, advice, held, asks, accepted>>

\* rewrite_bullet: what is proposed is compared with the bullet alone.
Rewritten(original, section, proposed) ==
  [id |-> 0, section |-> section, type |-> "modify", span |-> "line", original |-> original,
   proposed |-> proposed,
   state |-> IF _unsupported_content(proposed, original.says) THEN "fabricated" ELSE "verified"]

\* A call that fails leaves a rewrite without text.
_try_rewrite_bullet(i) ==
  /\ phase = "map" /\ i \in Workable
  /\ Calling("edit", IF InPool THEN CopiedContext(RunTenant) ELSE RunTenant)
  /\ \E proposed \in Proposals \union {NoText} :
       LET made == [Rewritten(doc[i].text, doc[i].section, proposed) EXCEPT !.id = i]
       IN  rewrites' = [k \in DOMAIN rewrites \union {i} |-> IF k = i THEN made ELSE rewrites[k]]
  /\ UNCHANGED <<doc, plan, phase, tasks, gap, product, verdict, advice, held, asks, accepted>>

UsableRewrite(d) ==
  /\ d.proposed # NoText /\ d.state # "fabricated"
  /\ ~_skills_entry_growth(d) /\ ~_missing_keyword_violation(d)

RefusedRewrite(d) == [d EXCEPT !.state = IF d.proposed = NoText THEN "missing" ELSE "fabricated"]

\* Mutant: a unit takes its own rewrite, whatever became of it.
ReassembledUnit(i, usable) ==
  IF i \in DOMAIN rewrites /\ rewrites[i].proposed # NoText THEN rewrites[i].proposed ELSE doc[i].text

\* The rewrite of a text is the first one made of that text.
SectionUnit(i, usable) ==
  IF i \in Bullets /\ (\E d \in usable : d.original = doc[i].text)
    THEN rewrites[Min({k \in DOMAIN rewrites : doc[k].text = doc[i].text})].proposed
    ELSE doc[i].text

Reduce ==
  LET order  == Where([i \in DOMAIN doc |-> i], Targets)
      done   == [k \in DOMAIN order |-> rewrites[order[k]]]
      usable == Select(done, UsableRewrite)
      refused == Select(done, LAMBDA d : ~UsableRewrite(d))
  IN
  /\ phase = "map" /\ Pending = {}
  /\ IF usable = <<>> /\ plan.editor = "cloud"
       THEN phase' = "whole" /\ UNCHANGED product
       ELSE /\ phase' = "derive"
            /\ product' = [product EXCEPT !.by = "bullets",
                 !.sections = [i \in DOMAIN doc |-> [doc[i] EXCEPT !.text = SectionUnit(i, ToSet(usable))]],
                 !.diffs = usable,
                 !.invalid = [k \in DOMAIN refused |-> RefusedRewrite(refused[k])]]
  /\ UNCHANGED <<doc, plan, tasks, calls, gap, rewrites, verdict, advice, held, asks, accepted>>

(***************************************************************************)
(* From the editor's result to the saved row.                              *)
(***************************************************************************)
\* An answer without diffs becomes one diff per changed section.
derive_section_diffs ==
  LET changed == Select(product.sections, LAMBDA u :
                   /\ \E i \in DOMAIN doc : doc[i].section = u.section
                   /\ u.text \notin {NoText, SectionText(u.section)})
  IN  IF product.diffs # <<>> \/ product.invalid # <<>> THEN product.diffs
      ELSE [k \in DOMAIN changed |->
             [id |-> k, section |-> changed[k].section, type |-> "modify", span |-> "section",
              original |-> SectionText(changed[k].section), proposed |-> changed[k].text,
              state |-> "verified"]]

Derive ==
  /\ phase = "derive"
  /\ product' = [product EXCEPT !.diffs = derive_section_diffs]
  /\ phase' = IF plan.evaluates THEN "evaluate" ELSE "persist"
  /\ UNCHANGED <<doc, plan, tasks, calls, gap, rewrites, verdict, advice, held, asks, accepted>>

\* A failed evaluation counts as none.
Evaluate ==
  /\ phase = "evaluate"
  /\ Calling("evaluate", RunTenant)
  /\ verdict' \in {NoVerdict} \union SUBSET {product.diffs[k].id : k \in DOMAIN product.diffs}
  /\ phase' = "persist"
  /\ UNCHANGED <<doc, plan, tasks, gap, rewrites, product, advice, held, asks, accepted>>

is_noop_diff(d) == d.type \in {"modify", "remove"} /\ d.original # NoText /\ d.original = d.proposed

\* The diffs the evaluator names are blocked, all of them when it names none.
split_verified_diffs ==
  LET named(d) == /\ verdict # NoVerdict
                  /\ d.id \in verdict \/ verdict = {}
      keeps(d) == ~named(d) /\ ~is_noop_diff(d)
      blocked  == Select(product.diffs, named)
  IN  [kept    |-> Select(product.diffs, keeps),
       invalid |-> product.invalid \o Select(product.diffs, LAMBDA d : ~named(d) /\ is_noop_diff(d))
                     \o [k \in DOMAIN blocked |-> Blocked(blocked[k])]]

resolve_alignment_outcome ==
  LET none   == split_verified_diffs.kept = <<>>
      hasGap == gap.supported # {} \/ gap.missing # {} \/ gap.emphasis # {}
      fails  == none /\ (hasGap \/ verdict # NoVerdict \/ product.noSafe \/ product.degraded)
  IN  [status |-> IF fails THEN "failed" ELSE "succeeded",
       reason |-> IF ~none THEN "none" ELSE IF product.noSafe THEN "no_safe_rewrite"
                  ELSE IF fails THEN "model_failed" ELSE "no_gap"]

persist_alignment ==
  /\ phase = "persist"
  /\ advice' = [status |-> resolve_alignment_outcome.status, reason |-> resolve_alignment_outcome.reason,
                diffs |-> split_verified_diffs.kept, invalid |-> split_verified_diffs.invalid,
                usable |-> Len(split_verified_diffs.kept), draft |-> product.sections]
  /\ held' = split_verified_diffs.kept
  /\ phase' = "saved"
  /\ UNCHANGED <<doc, plan, tasks, calls, gap, rewrites, product, verdict, asks, accepted>>

\* The registry forgets the run.
ResultExpires ==
  /\ phase = "saved" /\ held # Gone
  /\ held' = Gone
  /\ UNCHANGED <<doc, plan, phase, tasks, calls, gap, rewrites, product, verdict, advice, asks, accepted>>

(***************************************************************************)
(* The user's rewrites and acceptance.                                     *)
(***************************************************************************)
AskRewrite(c) ==
  /\ phase = "saved" /\ asks[c].step = "start"
  /\ \E d \in ToSet(advice.diffs \o advice.invalid) :
       /\ d.original # NoText
       /\ asks' = [asks EXCEPT ![c] = [step |-> "asked", diff |-> d, diffs |-> advice.diffs,
                                       invalid |-> advice.invalid]]
  /\ UNCHANGED <<doc, plan, phase, tasks, calls, gap, rewrites, product, verdict, advice, held, accepted>>

\* The lists are written as they were read before the call, with the diff replaced.
AnswerRewrite(c) ==
  /\ asks[c].step = "asked"
  /\ Calling("rewrite", RunTenant)
  /\ \/ UNCHANGED advice
     \/ \E proposed \in Proposals :
          LET old    == asks[c].diff
              new    == [Rewritten(old.original, old.section, proposed) EXCEPT !.id = old.id, !.type = old.type,
                                                                               !.span = old.span]
              fits   == new.state = "verified"
              others(s) == Select(s, LAMBDA d : d.id # old.id)
              listed == \E k \in DOMAIN asks[c].diffs : asks[c].diffs[k].id = old.id
          IN  advice' = [advice EXCEPT
                !.diffs = CASE ~fits -> others(asks[c].diffs)
                            [] fits /\ listed -> [k \in DOMAIN asks[c].diffs |->
                                                    IF asks[c].diffs[k].id = old.id THEN new ELSE asks[c].diffs[k]]
                            [] OTHER -> Append(asks[c].diffs, new),
                !.invalid = others(asks[c].invalid) \o (IF fits THEN <<>> ELSE <<new>>)]
  /\ asks' = [asks EXCEPT ![c] = [step |-> "done"]]
  /\ UNCHANGED <<doc, plan, phase, tasks, gap, rewrites, product, verdict, held, accepted>>

Occurrence(d, draft) ==
  IF d.span = "section" THEN {i \in DOMAIN draft : draft[i].section = d.section}
  ELSE {i \in DOMAIN draft : draft[i].text = d.original}

\* A section's text occurs when none of its units has been changed.
Occurs(d, draft) ==
  /\ d.original # NoText
  /\ IF d.span = "section"
       THEN Select(draft, LAMBDA u : u.section = d.section) = Select(doc, LAMBDA u : u.section = d.section)
       ELSE Occurrence(d, draft) # {}

\* One accepted diff on a draft; one that does not occur changes nothing.
_apply_diffs(draft, d) ==
  LET at == Min(Occurrence(d, draft))
      last == Max(Occurrence(d, draft))
      line == [kind |-> "text", section |-> d.section, text |-> d.proposed]
  IN  CASE d.type = "add" /\ d.proposed # NoText -> Append(draft, line)
        [] d.type = "modify" /\ d.proposed # NoText /\ Occurs(d, draft) /\ d.span = "line" ->
             [draft EXCEPT ![at].text = d.proposed]
        [] d.type = "modify" /\ d.proposed # NoText /\ Occurs(d, draft) /\ d.span = "section" ->
             SubSeq(draft, 1, at - 1) \o <<line>> \o SubSeq(draft, last + 1, Len(draft))
        [] d.type = "remove" /\ Occurs(d, draft) -> RemoveAt(draft, at)
        [] OTHER -> draft

\* The indices are taken in the registry's diffs, in the row's once it has forgotten them.
accept_workbench_diffs ==
  /\ phase = "saved"
  /\ \E diffs \in {IF held # Gone THEN held ELSE advice.diffs} : \E chosen \in SUBSET DOMAIN diffs :
       LET drafted[n \in 0 .. Len(diffs)] ==
             IF n = 0 THEN doc
             ELSE IF n \in chosen THEN _apply_diffs(drafted[n - 1], diffs[n]) ELSE drafted[n - 1]
       IN  accepted' = [draft |-> drafted[Len(diffs)], used |-> {diffs[k] : k \in chosen}]
  /\ UNCHANGED <<doc, plan, phase, tasks, calls, gap, rewrites, product, verdict, advice, held, asks>>

EditorNext ==
  \/ Diagnose \/ Profile \/ AnalyzeGaps \/ StartEditor \/ tailor_resume \/ Reduce \/ Derive \/ Evaluate
  \/ persist_alignment \/ ResultExpires \/ accept_workbench_diffs
  \/ \E s \in {"diagnose", "profile"} : PoolTask(s)
  \/ \E i \in DOMAIN doc : _try_rewrite_bullet(i)
  \/ \E c \in Rewriters : AskRewrite(c) \/ AnswerRewrite(c)

EditorSpec == EditorInit /\ [][EditorNext]_edVars

(***************************************************************************)
(* Properties.                                                             *)
(***************************************************************************)
\* The phase is one of the run's, what is saved counts what was kept, and rewrites are of
\* bullets.
EditorTypeOK ==
  /\ phase \in {"diagnose", "both", "bothFailing", "profile", "gap", "edit", "whole", "map", "derive",
                "evaluate", "persist", "saved", "failed"}
  /\ DOMAIN rewrites \subseteq Bullets
  /\ advice.status \in {"running", "succeeded", "failed"}
  /\ advice.usable \in 0 .. Len(product.diffs)

Listed(s) == {s[k] : k \in DOMAIN s}

\* Whatever is offered as usable line by line, in the row or in the registry, says only what
\* the resume, the gap report's located directions or the diff's own original say, through
\* gates, evaluation and concurrent rewrites; and a draft made by accepting changes and
\* removals says only what the resume or those directions say.
AdviceIsGrounded ==
  /\ \A d \in Listed(advice.diffs) \union (IF held = Gone THEN {} ELSE Listed(held)) :
       d.span = "line" => d.proposed.says \subseteq DocSays \union _gap_support_text \union d.original.says
  /\ (\A d \in accepted.used : d.span = "line" /\ d.type # "add") =>
       \A i \in DOMAIN accepted.draft : accepted.draft[i].text.says \subseteq DocSays \union _gap_support_text

\* Every provider call is metered under the run's tenant, also those of pool threads.
CallsAreMetered == \A c \in calls : c.tenant = RunTenant

\* The bullet editor's sections keep the words of every bullet whose rewrite was refused,
\* as long as no two bullets of the resume have the same text.
RefusedKeepsItsWords ==
  (product.by = "bullets" /\ \A i, k \in Bullets : doc[i].text = doc[k].text => i = k) =>
    \A d \in Listed(product.invalid) : product.sections[d.id].text = doc[d.id].text

\* Violated.  _unsupported_content: "Both must appear in the resume (or the JD allowlist
\* corpus) to count as supported" (tailor.py:283-285).  The original a model gives counts
\* too, also when it is nowhere in the resume, and a derived section is not checked at all.
UsableIsSupported ==
  \A d \in Listed(advice.diffs) :
    d.span = "line" => d.proposed.says \subseteq DocSays \union _gap_support_text
===============================================================================
