---------------------------- MODULE ResumeOptimize ----------------------------
(***************************************************************************)
(* The optimization of a master resume (resume_optimize.py,                *)
(* api/services/resume_optimize.py): the entries of its experience         *)
(* sections are polished one by one in a run, and accepted entries are     *)
(* written back into the resume as it is by then.                          *)
(*                                                                         *)
(* A resume is a sequence of lines, of which the kind matters.             *)
(***************************************************************************)
EXTENDS Naturals, Sequences, FiniteSets, Functions, Selection

CONSTANTS
  Resumes,   \* bound: the contents a user may give the resume
  KindOf,    \* line -> exp (experience heading), bound (other heading), title, date, bullet, blank
  Polishes,  \* bound: what the model may make of an entry
  Accepts,   \* bound: requests to apply
  MaxTasks   \* bound: runs

ASSUME OptimizeAssumption ==
  /\ MaxTasks \in Nat
  /\ Resumes \subseteq Seq(DOMAIN KindOf) \ {<<>>} /\ Polishes \subseteq Seq(DOMAIN KindOf) \ {<<>>}

VARIABLES
  content,  \* the current version of the resume
  task,     \* the run: its text, its entries, what was done with them
  accepts,  \* request to apply -> its place, what it read and what it will write
  written   \* the entries of the last request applied: the text they were made from and the one they replaced

optVars == <<content, task, accepts, written>>

Quiet == [at |-> "idle", base |-> <<>>, new |-> <<>>, swaps |-> {}]

OptInit ==
  /\ content \in Resumes
  /\ task = [at |-> "none", runs |-> 0, modules |-> <<>>, items |-> <<>>]
  /\ accepts = [c \in Accepts |-> Quiet] /\ written = {}

(***************************************************************************)
(* extract_project_modules.                                                *)
(***************************************************************************)
Heading(line) == KindOf[line] \in {"exp", "bound"}

\* Line i is of the body of the section under heading h, which leaves out the line before the
\* next heading, blank or not.
InBody(text, h, i) ==
  /\ KindOf[text[h]] = "exp" /\ h < i
  /\ \A j \in h + 1..i + 1 : j \in DOMAIN text => ~ Heading(text[j])

\* The first line of a body, one after a blank line and a title line begin an entry. A date begins
\* one too, but not right under the title or the date that begins one.
Begins(text, h, i) ==
  LET begins[k \in 0..Len(text) - h] ==
        /\ k # 0 /\ KindOf[text[h + k]] # "blank"
        /\ \/ k = 1 \/ KindOf[text[h + k - 1]] = "blank" \/ KindOf[text[h + k]] = "title"
           \/ KindOf[text[h + k]] = "date" /\ ~ (KindOf[text[h + k - 1]] \in {"title", "date"} /\ begins[k - 1])
  IN  begins[i - h]

\* Every other line of the body but a blank one goes on with the entry.
Continues(text, h, i) ==
  i \in DOMAIN text /\ InBody(text, h, i) /\ KindOf[text[i]] # "blank" /\ ~ Begins(text, h, i)

Entry(text, h, i) ==
  SubSeq(text, i, CHOOSE e \in i..Len(text) : ~ Continues(text, h, e + 1) /\ \A j \in i + 1..e : Continues(text, h, j))

Starts(text) == {i \in DOMAIN text : \E h \in 1..i - 1 : InBody(text, h, i) /\ Begins(text, h, i)}

ModuleAt(text, i) ==
  LET h == CHOOSE h \in 1..i - 1 : InBody(text, h, i)
  IN  [module |-> text[h], index |-> Cardinality({j \in h + 1..i - 1 : Begins(text, h, j)}), original |-> Entry(text, h, i)]

Modules(text) ==
  LET order == InOrder(Starts(text))
  IN  [n \in DOMAIN order |-> ModuleAt(text, order[n])]

(***************************************************************************)
(* run_resume_optimize.                                                    *)
(***************************************************************************)
QueueOptimize ==
  /\ task.at \in {"none", "done"} /\ task.runs < MaxTasks
  /\ task' = [at |-> "client", runs |-> task.runs + 1, modules |-> Modules(content), items |-> <<>>]
  /\ UNCHANGED <<content, accepts, written>>

\* A failed entry is numbered through all sections.
Failed(i, m) == [ok |-> FALSE, module |-> m.module, index |-> i - 1, original |-> m.original, optimized |-> <<>>]
Polished(m, text) == [ok |-> TRUE, module |-> m.module, index |-> m.index, original |-> m.original, optimized |-> text]

BuildClient ==
  /\ task.at = "client"
  /\ \/ task' = [task EXCEPT !.at = "polish"]
     \/ task' = [task EXCEPT !.at = "done", !.items = [i \in DOMAIN task.modules |-> Failed(i, task.modules[i])]]
  /\ UNCHANGED <<content, accepts, written>>

\* An entry that fails does not stop the others.
PolishNext ==
  /\ task.at = "polish"
  /\ LET i == Len(task.items) + 1 IN
     IF i > Len(task.modules) THEN task' = [task EXCEPT !.at = "done"]
     ELSE \E item \in {Polished(task.modules[i], text) : text \in Polishes} \union {Failed(i, task.modules[i])} :
            task' = [task EXCEPT !.items = Append(@, item)]
  /\ UNCHANGED <<content, accepts, written>>

(***************************************************************************)
(* apply_resume_optimize_items.                                            *)
(***************************************************************************)
Found(text, part) == {i \in 1..Len(text) - Len(part) + 1 : SubSeq(text, i, i + Len(part) - 1) = part}
Replaced(text, i, part, by) == SubSeq(text, 1, i - 1) \o by \o SubSeq(text, i + Len(part), Len(text))

First(S) == CHOOSE i \in S : \A j \in S : i <= j

\* _find_module: by heading and number, in the resume as it is now; the first of them.
FindModule(text, item) ==
  LET all  == Modules(text)
      same == {n \in DOMAIN all : all[n].module = item.module /\ all[n].index = item.index}
  IN  IF same = {} THEN [found |-> FALSE, original |-> <<>>] ELSE [found |-> TRUE, original |-> all[First(same)].original]

\* Mutant: the first occurrence is replaced, however many there are.
Anywhere(text, original) == Found(text, original) # {}

\* str.count is 1: there is an occurrence, and none after it that does not overlap with it.
Once(text, original) ==
  /\ Found(text, original) # {}
  /\ \A i, j \in Found(text, original) : j < i + Len(original)

Key(item) == [module |-> item.module, index |-> item.index]

\* The items in their order; the first one that cannot be applied refuses all.
Applied(base, items) ==
  LET done[k \in 0..Len(items)] ==
        IF k = 0
          THEN [ok |-> \A i, j \in DOMAIN items : i # j => Key(items[i]) # Key(items[j]), text |-> base, swaps |-> {}]
          ELSE LET acc == done[k - 1]
                   m   == FindModule(base, items[k])
               IN  IF acc.ok /\ m.found /\ Once(acc.text, m.original)
                     THEN [ok |-> TRUE,
                           text |-> Replaced(acc.text, First(Found(acc.text, m.original)), m.original, items[k].optimized),
                           swaps |-> acc.swaps \union {[from |-> items[k].original, over |-> m.original]}]
                     ELSE [acc EXCEPT !.ok = FALSE]
  IN  done[Len(items)]

ReadForApply(c) ==
  /\ accepts[c].at = "idle" /\ task.at = "done"
  /\ \E chosen \in SUBSET {i \in DOMAIN task.items : task.items[i].ok} \ {{}} :
       LET order == InOrder(chosen)
           done  == Applied(content, [n \in DOMAIN order |-> task.items[order[n]]])
       IN  /\ done.ok
           /\ accepts' = [accepts EXCEPT ![c] = [at |-> "write", base |-> content,
                                                 new |-> done.text, swaps |-> done.swaps]]
  /\ UNCHANGED <<content, task, written>>

\* update_master_resume.
WriteApplied(c) ==
  /\ accepts[c].at = "write"
  /\ content' = accepts[c].new /\ written' = accepts[c].swaps
  /\ accepts' = [accepts EXCEPT ![c] = Quiet]
  /\ UNCHANGED task

\* The user saves the resume, or rolls it back.
EditResume ==
  /\ content' \in Resumes
  /\ UNCHANGED <<task, accepts, written>>

OptNext ==
  \/ QueueOptimize \/ BuildClient \/ PolishNext \/ EditResume
  \/ \E c \in Accepts : ReadForApply(c) \/ WriteApplied(c)

OptSpec == OptInit /\ [][OptNext]_optVars

\* Types.
OptTypeOK ==
  /\ content # <<>>
  /\ task.at \in {"none", "client", "polish", "done"} /\ Len(task.items) <= Len(task.modules)
  /\ \A c \in Accepts : accepts[c].at \in {"idle", "write"} /\ (accepts[c].at = "idle" <=> accepts[c].base = <<>>)

\* An entry that begins with one date, twice, may be found one line above its own.
DatedTwice(entry) == Len(entry) > 1 /\ entry[1] = entry[2] /\ KindOf[entry[1]] = "date"

\* Every entry of the base that the request does not replace is in the new text, word for word.
EntriesKept(accept) ==
  \A m \in Range(Modules(accept.base)) :
    (\A s \in accept.swaps : s.over # m.original) => Found(accept.new, m.original) # {}

\* "Exact one-occurrence substring replacement keeps unrelated text untouched": a request keeps
\* the other entries, unless an entry it replaces is dated twice.
OtherEntriesStay ==
  \A c \in Accepts : accepts[c].at = "write" /\ (\A s \in accepts[c].swaps : ~ DatedTwice(s.over)) =>
    EntriesKept(accepts[c])

\* The same without the exception.
UnrelatedTextStays == \A c \in Accepts : accepts[c].at = "write" => EntriesKept(accepts[c])

\* "Edits made after the optimize job ran are never silently overwritten": what an accepted item
\* replaced is what it was made from.
EditsAreNotOverwritten == \A s \in written : s.over = s.from
====
