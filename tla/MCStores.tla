----------------------------- MODULE MCStores -------------------------------
(***************************************************************************)
(* One instance for five components that keep their state in stores of     *)
(* their own: workbench sessions, import and preanalysis batches, the      *)
(* delivery of applications, master resumes and settings.  They share no   *)
(* variable.  A behaviour exercises one of them, chosen in the initial     *)
(* state; the others stay in a state in which nobody asks anything of them.*)
(***************************************************************************)
EXTENDS WorkbenchSessions, Preanalysis, Delivery, MasterResumes, Settings, TLC

VARIABLE part

-----------------------------------------------------------------------------
(* Which requests meet each other *)

\* Workbench sessions.
CONSTANTS init1, init2, open1, open2, analysis1, pre1, stream1, poll1
MCSessionMixes ==
  {{}, {init1, init2}, {init1, analysis1}, {init1, stream1}, {open1, open2},
   {open1, analysis1, stream1}, {open1, pre1, stream1}, {open1, analysis1, pre1},
   {open1, analysis1, poll1}}

\* Batches: four rows, three of them one posting, two with its URL.
CONSTANTS import1, import2, sweep1, sweep2
MCPosting == <<"a", "a", "a", "none">>
MCKey     == <<"url", "text", "url", "none">>
MCFeed    == (import1 :> {1, 4}) @@ (import2 :> {2, 3})
MCBatchMixes == {{}, {import1, import2}, {import1, sweep1}, {import2, sweep1, sweep2}}

\* Delivery.
CONSTANTS j1, j2, d1, d2, key1
FinalSave(n, j, d)          == [kind |-> "save", id |-> n, job |-> j, draft |-> d]
RollBackTo(n, j, v)       == [kind |-> "rollback", id |-> n, job |-> j, version |-> v]
Patching(n, j, s, rev, g)  == [kind |-> "patch", id |-> n, job |-> j, status |-> s, revive |-> rev, given |-> g]
Applies(n, j)             == [kind |-> "apply", id |-> n, job |-> j]
Answered(n, j, s)       == [kind |-> "outcome", id |-> n, job |-> j, status |-> s]
BulkMove(n, s, e)           == [kind |-> "bulk", id |-> n, jobs |-> Postings, status |-> s, expected |-> e, key |-> key1]
DropJob(n, j)              == [kind |-> "delete", id |-> n, job |-> j]
MCDeliveryMixes ==
  {{},
   {Patching(1, j1, "offer", FALSE, <<>>), Patching(2, j1, "applied", TRUE, <<>>),
    Patching(3, j1, "interview", FALSE, <<>>)},
   {FinalSave(1, j1, d1), FinalSave(2, j1, d2), RollBackTo(1, j1, 1), Patching(1, j1, "applied", FALSE, <<>>), Applies(1, j1)},
   {FinalSave(1, j1, d1), FinalSave(2, j1, d2), RollBackTo(1, j1, 1), DropJob(1, j1), Applies(1, j1)},
   {FinalSave(1, j1, d1), BulkMove(1, "applied", "any"), BulkMove(2, "offer", "draft"), BulkMove(3, "offer", "any"), DropJob(1, j2)},
   {FinalSave(1, j1, d1), Patching(1, j1, "offer", FALSE, <<>>), Patching(2, j1, "applied", TRUE, <<>>),
    Patching(3, j1, "withdrawn", FALSE, "rejected_at" :> FALSE), Applies(1, j1),
    Answered(1, j1, "rejected"), Answered(2, j1, "interview")}}

\* Master resumes: aPadded is a with spaces around it.
CONSTANTS a, b, aPadded, dm1, dm2
MCTrim(c)       == IF c = aPadded THEN a ELSE c
Ask(n, k)       == [id |-> n, kind |-> k]
NewText(n, c)      == [id |-> n, kind |-> "edit", content |-> c]
BackTo(n, v)    == [id |-> n, kind |-> "rollback", version |-> v]
MCResumeMixes ==
  {{},
   {NewText(1, b), NewText(2, aPadded), BackTo(1, 1), Ask(1, "handEdit"), Ask(1, "extract"), Ask(1, "drop")},
   {NewText(1, b), BackTo(1, 1), Ask(1, "diagnose"), Ask(1, "tailor")},
   {Ask(1, "diagnose"), Ask(2, "diagnose"), Ask(1, "show"), Ask(1, "drop")},
   {NewText(1, b), Ask(1, "diagnose"), Ask(1, "tailor"), Ask(1, "switch")}}

\* Settings.
CONSTANTS p1, p2, sm1
PutLLM(n, f)    == [id |-> n, kind |-> "put", llm |-> f]
PutTable(n, f)  == [id |-> n, kind |-> "put", table |-> f]
PutCap(n, c)    == [id |-> n, kind |-> "put", cap |-> c]
PutNames(n)     == [id |-> n, kind |-> "put", vocabulary |-> "custom"]
SwitchOn        == PutTable(1, [auto |-> TRUE, path |-> "csv"])
NamesAndPage    == {PutNames(2), Ask(1, "page")}
MCSettingsMixes ==
  {{}, NamesAndPage,
   {PutLLM(1, [provider |-> p2, key |-> p2]), PutLLM(2, [provider |-> Unset]), Ask(1, "config")},
   {PutLLM(1, [provider |-> p2, key |-> p2]), PutLLM(2, [provider |-> Unset]), PutLLM(3, [model |-> sm1])},
   {SwitchOn, PutTable(2, [path |-> Unset, auto |-> FALSE])},
   {SwitchOn, Ask(1, "sync")},
   {Ask(1, "reset"), Ask(1, "renew"), PutCap(1, 5)},
   {PutLLM(1, [provider |-> p2, key |-> p2]), Ask(1, "config")}}

-----------------------------------------------------------------------------
(* One part at a time *)

Parts == {"sessions", "batches", "delivery", "resumes", "settings"}

StoresInit ==
  /\ part \in Parts
  /\ SessionsInit /\ (part # "sessions" => ~jobRow.stored /\ \A t \in Threads : local[t] = NoMore)
  /\ PreInit      /\ (part # "batches"  => \A x \in Batches : batch[x].pc = "off")
  /\ DeliveryInit /\ (part # "delivery" => Requests = {})
  /\ ResumesInit  /\ (part # "resumes"  => DOMAIN at = {})
  /\ SettingsInit /\ (part # "settings" => Clients = {} /\ settings = default_settings)
                  /\ (settings.auto => settings.vocabulary = "corrupt" /\ Clients = {})

SessionsPart ==
  /\ part = "sessions" /\ SessionsNext
  /\ UNCHANGED <<part, preVars, deliveryVars, resumeVars, settingsVars>>

BatchesPart ==
  /\ part = "batches" /\ PreNext
  /\ UNCHANGED <<part, sessionVars, deliveryVars, resumeVars, settingsVars>>

DeliveryPart ==
  /\ part = "delivery" /\ DeliveryNext
  /\ UNCHANGED <<part, sessionVars, preVars, resumeVars, settingsVars>>

ResumesPart ==
  /\ part = "resumes" /\ ResumesNext
  /\ UNCHANGED <<part, sessionVars, preVars, deliveryVars, settingsVars>>

SettingsPart ==
  /\ part = "settings" /\ SettingsNext
  /\ UNCHANGED <<part, sessionVars, preVars, deliveryVars, resumeVars>>

StoresNext == SessionsPart \/ BatchesPart \/ DeliveryPart \/ ResumesPart \/ SettingsPart

storesVars == <<part, sessionVars, preVars, deliveryVars, resumeVars, settingsVars>>

\* No step of a part that is not exercised is enabled, so its fairness asks for nothing.
StoresSpec ==
  /\ StoresInit /\ [][StoresNext]_storesVars
  /\ SessionsFairness /\ PreFairness /\ SettingsFairness

\* The type invariants of the five parts.
StoresTypeOK == SessionsTypeOK /\ PreTypeOK /\ DeliveryTypeOK /\ ResumesTypeOK /\ SettingsTypeOK
=============================================================================
