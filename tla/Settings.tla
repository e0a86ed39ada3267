------------------------------ MODULE Settings ------------------------------
(***************************************************************************)
(* The settings row of the local tenant (settings_store.py), the routes    *)
(* that change it (routers/settings.py), the configuration resolved from   *)
(* it (config.py) and the job-table sync that reads it and records its     *)
(* outcome in it (services/job_table.py).  Every store call is one         *)
(* transaction; a read-modify-write is two.                                *)
(***************************************************************************)
EXTENDS Naturals, FiniteSets, Functions

CONSTANTS
  Providers,       \* LLM providers; a key is named by the provider that issued it
  Models,
  EnvProvider,     \* the provider of the environment, with its own key and model
  EnvModel,
  PlatformMax,     \* RESUALIGN_MAX_DAILY_LLM_CAP
  TableRows,       \* rows of the job table, none of them like another
  MaxImportRows,   \* _MAX_IMPORT_ROWS
  MaxFaults,       \* bound: rows whose import fails
  SettingsMixes,   \* bound: the sets of requests one behaviour has
  AutoSync,        \* the thread of the sync loop
  Unset            \* None

\* A request is a record: its kind and, for a PUT, the fields it carries: `llm` and `table`
\* map the set fields of these sections, `cap` and `vocabulary` are values.
Kinds == {"put", "reset", "page", "renew", "sync", "config"}

\* What the request schema lets through.
IsSettingsRequest(r) ==
  /\ r.kind \in Kinds
  /\ "vocabulary" \in DOMAIN r => r.vocabulary \in {"builtin", "custom", "corrupt"}
  /\ "cap" \in DOMAIN r => r.cap \in Nat
  /\ "llm" \in DOMAIN r => \A f \in DOMAIN r.llm :
       \/ f \in {"provider", "key"} /\ r.llm[f] \in Providers \cup {Unset}
       \/ f = "model" /\ r.llm[f] \in Models \cup {Unset}
  /\ "table" \in DOMAIN r => \A f \in DOMAIN r.table :
       \/ f = "auto" /\ r.table[f] \in BOOLEAN
       \/ f = "path" /\ r.table[f] \in {"csv", Unset}

ASSUME SettingsAssumption ==
  /\ EnvProvider \in Providers /\ EnvModel \in Models
  /\ PlatformMax \in Nat /\ MaxFaults \in Nat /\ MaxImportRows \in Nat
  /\ \A mix \in SettingsMixes : IsFiniteSet(mix) /\ \A r \in mix : IsSettingsRequest(r)

VARIABLES
  settings,  \* the row of user_settings
  runtime,   \* RUNTIME_LLM_OVERRIDE
  table,     \* the CSV: row -> absent, bare (without its JD text yet) or ready
  readable,  \* the CSV can be read
  imports,   \* rows that an import thread still has to create
  library,   \* rows that are library jobs
  faults,    \* imports that failed
  turn,      \* thread -> the step it is at, and the step after its get_settings
  mine,      \* thread -> what it read
  resolved   \* config request -> the configuration it got

settingsVars == <<settings, runtime, table, readable, imports, library, faults, turn, mine, resolved>>

Clients == DOMAIN turn \ {AutoSync}

default_settings ==
  [provider |-> Unset, model |-> Unset, key |-> Unset, cap |-> Unset, vocabulary |-> "builtin",
   auto |-> FALSE, path |-> Unset, last |-> "never", token |-> 0]

At(do, then) == [do |-> do, then |-> then]
Ended == At("done", "done")

\* The row may be an old one, with a vocabulary that get_settings repairs.
SettingsInit ==
  /\ \E v \in {"builtin", "corrupt"}, p \in {"csv", Unset} :
       settings = [default_settings EXCEPT !.vocabulary = v, !.path = p, !.auto = p # Unset]
  /\ runtime = [provider |-> Unset, model |-> Unset]
  /\ table = [r \in TableRows |-> "absent"] /\ readable = TRUE
  /\ imports = {} /\ library = {} /\ faults = 0
  /\ \E mix \in SettingsMixes :
       /\ turn = [t \in mix \cup {AutoSync} |->
            CASE t = AutoSync -> At("list", "list")
              [] t # AutoSync /\ t.kind = "renew" -> At("token", "done")
              [] t # AutoSync /\ t.kind = "config" -> At("stored", "done")
              [] t # AutoSync /\ t.kind = "page" -> At("get", "token")
              [] t # AutoSync /\ t.kind = "sync" -> At("get", "read")
              [] t # AutoSync /\ t.kind \in {"put", "reset"} -> At("get", "save")]
       /\ mine = [t \in mix \cup {AutoSync} |-> default_settings]
       /\ resolved = [t \in {r \in mix : r.kind = "config"} |-> [provider |-> Unset, key |-> Unset]]

GoTo(t, step) == turn' = [turn EXCEPT ![t] = step]
Forget(t) == mine' = [mine EXCEPT ![t] = default_settings]

syncVars == <<table, readable, imports, library, faults>>

(***************************************************************************)
(* The row.                                                                *)
(***************************************************************************)
_repair_classification_vocabulary(v) == IF v = "corrupt" THEN "builtin" ELSE v

\* get_settings, and the second transaction in which it repairs the vocabulary.
GetSettings(t) ==
  /\ turn[t].do = "get"
  /\ mine' = [mine EXCEPT ![t] = [settings EXCEPT !.vocabulary = _repair_classification_vocabulary(@)]]
  /\ GoTo(t, IF settings.vocabulary = "corrupt" THEN [turn[t] EXCEPT !.do = "heal"]
             ELSE At(turn[t].then, "done"))
  /\ UNCHANGED <<settings, runtime, syncVars, resolved>>

Heal(t) ==
  /\ turn[t].do = "heal"
  /\ settings' = [settings EXCEPT !.vocabulary = mine[t].vocabulary]
  /\ GoTo(t, At(turn[t].then, "done"))
  /\ UNCHANGED <<runtime, syncVars, mine, resolved>>

\* What the PUT route hands on: a set field, and null for the fields it passes even when
\* the request leaves them out.
Updates(r) ==
  LET names == IF "vocabulary" \in DOMAIN r THEN [vocabulary |-> r.vocabulary] ELSE <<>>
      cap   == [cap |-> IF "cap" \in DOMAIN r THEN r.cap ELSE Unset]
      llm   == IF "llm" \in DOMAIN r THEN r.llm ELSE [provider |-> Unset, model |-> Unset]
      sync  == IF "table" \in DOMAIN r THEN r.table ELSE <<>>
      Over(f, g) == [x \in DOMAIN f \cup DOMAIN g |-> IF x \in DOMAIN f THEN f[x] ELSE g[x]]
  IN CASE r.kind = "put" -> Over(names, Over(cap, Over(llm, sync)))
       [] r.kind = "reset" -> Restrict(default_settings, DOMAIN default_settings \ {"token"})

_merge_defaults(row, updates) ==
  [f \in DOMAIN row |-> IF f \in DOMAIN updates THEN updates[f] ELSE row[f]]

_validate_settings(row) ==
  /\ row.model # Unset => row.provider # Unset
  /\ row.auto => row.path # Unset
  /\ row.cap # Unset => row.cap <= PlatformMax
  /\ row.vocabulary \in {"builtin", "custom"}

\* Mutant: only the fields of the request are written, over the row as it is by then.
WrittenInPlace(row, read, updates) == _merge_defaults(row, updates)

\* The whole row is written, as it was read.
Written(row, read, updates) == _merge_defaults(read, updates)

\* update_settings: the caller goes on with a fresh get_settings.
SaveSettings(t) ==
  /\ turn[t].do = "save"
  /\ IF _validate_settings(_merge_defaults(mine[t], Updates(t)))
       THEN /\ settings' = Written(settings, mine[t], Updates(t))
            /\ GoTo(t, At("get", IF t.kind = "put" THEN "switch" ELSE "token"))
       ELSE GoTo(t, Ended) /\ UNCHANGED settings
  /\ Forget(t)
  /\ UNCHANGED <<runtime, syncVars, resolved>>

\* get_or_create_local_ingest_token and reset_local_ingest_token; tokens are numbered.
Token(t) ==
  /\ turn[t].do = "token"
  /\ settings' = IF t.kind = "renew" \/ settings.token = 0
                 THEN [settings EXCEPT !.token = 1 + Cardinality({r \in Clients : turn[r].do = "done"})]
                 ELSE settings
  /\ GoTo(t, IF t.kind = "reset" THEN At("switch", "done") ELSE Ended)
  /\ Forget(t)
  /\ UNCHANGED <<runtime, syncVars, resolved>>

\* set_runtime_llm after a PUT, clear_runtime_llm after a reset.
Switch(t) ==
  /\ turn[t].do = "switch"
  /\ runtime' = IF t.kind = "put" THEN [provider |-> mine[t].provider, model |-> mine[t].model]
                ELSE [provider |-> Unset, model |-> Unset]
  /\ GoTo(t, Ended)
  /\ Forget(t)
  /\ UNCHANGED <<settings, syncVars, resolved>>

(***************************************************************************)
(* build_config asks the store first, the runtime override after it.  The  *)
(* tenant has no node (with one, RoleRouter picks the configuration).      *)
(***************************************************************************)
FirstSet(a, b, c) == CASE a # Unset -> a [] a = Unset /\ b # Unset -> b [] OTHER -> c

PersistedApplies(stored, provider) == stored.provider \in {Unset, provider}

Stored(t) ==
  /\ turn[t].do = "stored"
  /\ mine' = [mine EXCEPT ![t] = settings]
  /\ GoTo(t, At("resolve", "done"))
  /\ UNCHANGED <<settings, runtime, syncVars, resolved>>

Resolve(t) ==
  /\ turn[t].do = "resolve"
  /\ LET provider == FirstSet(runtime.provider, mine[t].provider, EnvProvider)
         ofEnv == IF provider = EnvProvider THEN EnvProvider ELSE Unset
         key == IF PersistedApplies(mine[t], provider)
                THEN FirstSet(mine[t].key, ofEnv, Unset) ELSE ofEnv
     IN resolved' = [resolved EXCEPT ![t] = [provider |-> provider, key |-> key]]
  /\ GoTo(t, Ended)
  /\ Forget(t)
  /\ UNCHANGED <<settings, runtime, syncVars>>

(***************************************************************************)
(* The job-table sync, on request and from the loop.                       *)
(***************************************************************************)
\* Mutant: the comparison with the interval is the wrong way round.
_sync_due_reversed(row) == row.last # "old"

\* _sync_due: the interval since the last sync is over.
_sync_due(row) == row.last # "recent"

List ==
  /\ turn[AutoSync].do = "list"
  /\ settings.auto /\ _sync_due(settings)
  /\ GoTo(AutoSync, At("get", "read"))
  /\ UNCHANGED <<settings, runtime, syncVars, mine, resolved>>

\* read_job_table, _drop_known_rows and queue_job_rows.  The rows are left to an import
\* thread; every outcome, also an error, is recorded.
ReadTable(t) ==
  LET ready == {r \in TableRows : table[r] = "ready"}
      fresh == ready \ library
  IN /\ turn[t].do = "read"
     /\ imports' = IF mine[t].path # Unset /\ readable /\ Cardinality(fresh) <= MaxImportRows
                   THEN imports \cup fresh ELSE imports
     /\ GoTo(t, At("get", "record"))
     /\ Forget(t)
     /\ UNCHANGED <<settings, runtime, table, readable, library, faults, resolved>>

\* _record_sync_result goes through update_settings, and swallows what it raises.
RecordSync(t) ==
  /\ turn[t].do = "record"
  /\ settings' = IF _validate_settings([mine[t] EXCEPT !.last = "recent"])
                 THEN Written(settings, mine[t], [last |-> "recent"]) ELSE settings
  /\ GoTo(t, IF t = AutoSync THEN At("list", "list") ELSE Ended)
  /\ Forget(t)
  /\ UNCHANGED <<runtime, syncVars, resolved>>

\* A row of an import thread (Preanalysis has the thread): created, known by now, or refused.
Import(r) ==
  /\ r \in imports
  /\ imports' = imports \ {r}
  /\ \/ library' = library \cup {r} /\ UNCHANGED faults
     \/ faults < MaxFaults /\ faults' = faults + 1 /\ UNCHANGED library
  /\ UNCHANGED <<settings, runtime, table, readable, turn, mine, resolved>>

\* WorkBuddy adds rows, and their JD text later; the file may be locked for a while.
EditTable ==
  /\ \/ \E r \in TableRows : \E next \in {"bare", "ready"} :
          /\ <<table[r], next>> \in {<<"absent", "bare">>, <<"bare", "ready">>}
          /\ table' = [table EXCEPT ![r] = next]
          /\ UNCHANGED readable
     \/ readable' = ~readable /\ UNCHANGED table
  /\ UNCHANGED <<settings, runtime, imports, library, faults, turn, mine, resolved>>

\* The interval passes.
Elapse ==
  /\ settings.last = "recent"
  /\ settings' = [settings EXCEPT !.last = "old"]
  /\ UNCHANGED <<runtime, syncVars, turn, mine, resolved>>

SyncSteps == List \/ GetSettings(AutoSync) \/ Heal(AutoSync) \/ ReadTable(AutoSync) \/ RecordSync(AutoSync)

SettingsNext ==
  \/ \E t \in Clients : \/ GetSettings(t) \/ Heal(t) \/ SaveSettings(t) \/ Token(t) \/ Switch(t)
                        \/ Stored(t) \/ Resolve(t) \/ ReadTable(t) \/ RecordSync(t)
  \/ SyncSteps
  \/ \E r \in TableRows : Import(r)
  \/ EditTable \/ Elapse

\* The loop and the import threads go on, and time does; nobody owes a request or an edit.
SettingsFairness ==
  /\ WF_settingsVars(SyncSteps)
  /\ \A r \in TableRows : WF_settingsVars(Import(r))
  /\ WF_settingsVars(Elapse)

SettingsSpec == SettingsInit /\ [][SettingsNext]_settingsVars /\ SettingsFairness

(***************************************************************************)
(* Properties.                                                             *)
(***************************************************************************)
StoredRows == [provider : Providers \cup {Unset}, model : Models \cup {Unset}, key : Providers \cup {Unset},
         cap : Nat \cup {Unset}, vocabulary : {"builtin", "custom", "corrupt"}, auto : BOOLEAN,
         path : {"csv", Unset}, last : {"never", "recent", "old"}, token : Nat]

SettingsTypeOK ==
  /\ settings \in StoredRows /\ mine \in [DOMAIN turn -> StoredRows]
  /\ runtime \in [provider : Providers \cup {Unset}, model : Models \cup {Unset}]
  /\ imports \subseteq TableRows /\ library \subseteq TableRows /\ faults <= MaxFaults

\* Two updates that are each valid for the row they read leave a row that is valid: a model
\* has its provider, an automatic sync its path, and the cap stays below the platform's, also
\* when a sync records its outcome or a repair writes in between.
StoredSettingsAreValid == settings.vocabulary # "corrupt" => _validate_settings(settings)

\* While the automatic sync stays on and the table stays readable, a row whose JD text is
\* there becomes a library job, though imports fail on the way and the rows of the row's
\* settings are overwritten by other saves.
RowsArrive ==
  \A r \in TableRows :
    <>[](settings.auto /\ readable /\ table[r] = "ready") => <>(r \in library)

\* Violated by the code.  config.py states that a saved key is never sent to a different
\* provider: whatever configuration is resolved, its key is one of its provider.
SavedKeyFitsProvider ==
  \A t \in DOMAIN resolved : resolved[t].key \in {Unset, resolved[t].provider}
=============================================================================
