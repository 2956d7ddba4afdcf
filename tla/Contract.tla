------------------------------ MODULE Contract ------------------------------
(***************************************************************************)
(* What the two halves of the system agree on: a worker loads its TOML     *)
(* file and looks into its dictionary directories, publishes what it can   *)
(* do, is given jobs that the administrator's form accepted and the claim  *)
(* matched, and has to make a translation job of each.                     *)
(*                                                                         *)
(* A string is reduced to the rules it breaks (its flaws), and a file name *)
(* dictionary_<tag>.json to the tag and to whether it is in lower case, as *)
(* load_dictionary, on a file system that tells the cases apart, needs it. *)
(* Leases are LeaseStore's, what a run does Pipeline's.                    *)
(***************************************************************************)
EXTENDS Naturals

CONSTANTS
  Workers,      \* worker processes
  Names,        \* of workers, dictionary sets, roots and providers
  SafeNames,    \* those that match _SAFE_NAME_RE and safeNameSchema
  Tags,         \* language tags as _canonical_language returns them
  WireTags,     \* those that languageTagSchema accepts
  Settings,     \* TOML files and environments considered
  Disks,        \* contents of the dictionary directories considered
  Submissions,  \* what may be sent to POST /api/admin/jobs
  MaxEdits,     \* bound on how often files are edited
  None

ASSUME MaxEditsAssumption == MaxEdits \in Nat

\* The providers that create_provider knows, and one that it does not.
Kinds == {"ollama", "openai", "gemini", "other"}
Keys == {"openai", "gemini", "token"}   \* environment variables
Provider == [name : Names, kind : Kinds, roles : SUBSET {"translate", "review"},
             localPath : BOOLEAN]   \* the model is a path
File == [set : Names, tag : Tags, lower : BOOLEAN, good : BOOLEAN]

\* The rules that the two sides check, by the function that checks them.
UrlFlaws == {"credentials", "query", "not_owner_and_repo", "dot_segment", "separator"}
BranchFlaws == {"edge_slash", "dot_dot", "empty_segment", "at_brace",
                "control", "dot_end", "lock_end"}
SchemaFlaws == {"not_https", "edge_slash", "dot_dot", "empty_segment", "at_brace",
                "absolute_path", "parent_path", "unconfirmed_push"}
ModelFlaws == {"limits", "blank_branch", "blank_path"}
Flaws == UrlFlaws \cup BranchFlaws \cup SchemaFlaws \cup ModelFlaws

Setting == [name : Names, sets : SUBSET Names, roots : SUBSET Names,
            providers : SUBSET Provider, keys : SUBSET Keys]
Config == [name : Names, sets : SUBSET Names, roots : SUBSET Names,
           providers : SUBSET Provider, keys : SUBSET Keys,
           published : SUBSET (Names \X Tags)]
Capability == [sets : SUBSET Names, roots : SUBSET Names,
               published : SUBSET (Names \X Tags), providers : SUBSET Provider]
Job == [set : Names, languages : SUBSET Tags, root : Names, translate : Names,
        review : Names \cup {None}, flaws : SUBSET Flaws]

ASSUME NamesAssumption == SafeNames \subseteq Names /\ None \notin Names
ASSUME TagsAssumption == WireTags \subseteq Tags
ASSUME InputsAssumption ==
  /\ Settings \subseteq Setting
  /\ Disks \subseteq SUBSET File
  /\ Submissions \subseteq Job
ASSUME RowAssumption == None \notin [by : Workers, capabilities : Capability]
ASSUME NoneAssumption == None \notin Config /\ None \notin Job

VARIABLES
  settings, disk,  \* per process: its TOML file and environment, its files
  stale,           \* whether its files were edited since it was started
  edits,
  phase,
  config,          \* WorkerConfig, or None
  registry,        \* per name: who wrote the row, and the capabilities
  queue,           \* configurations of jobs that may be claimed
  held,            \* the claimed configuration, or None
  failed,          \* languages whose dictionary failed in the last run
  refused          \* claimed configurations that a process ended over

contractVars ==
  <<settings, disk, stale, edits, phase, config, registry, queue, held, failed, refused>>

\* What is sent to the control plane.
Capabilities(c) ==
  [sets |-> c.sets, roots |-> c.roots, published |-> c.published, providers |-> c.providers]

ContractInit ==
  /\ settings \in [Workers -> Settings]
  /\ disk \in [Workers -> Disks]
  /\ stale = [p \in Workers |-> FALSE]
  /\ edits = 0
  /\ phase = [p \in Workers |-> "down"]
  /\ config = [p \in Workers |-> None]
  /\ registry = [n \in Names |-> None]
  /\ queue = {}
  /\ held = [p \in Workers |-> None]
  /\ failed = [p \in Workers |-> {}]
  /\ refused = {}

-----------------------------------------------------------------------------
(* The operator edits files, and starts and stops processes.               *)

EditSettings(p) ==
  /\ edits < MaxEdits
  /\ edits' = edits + 1
  /\ \E s \in Settings : settings' = [settings EXCEPT ![p] = s]
  /\ UNCHANGED <<disk, stale, phase, config, registry, queue, held, failed, refused>>

EditDisk(p) ==
  /\ edits < MaxEdits
  /\ edits' = edits + 1
  /\ \E d \in Disks : disk' = [disk EXCEPT ![p] = d]
  /\ stale' = [stale EXCEPT ![p] = TRUE]
  /\ UNCHANGED <<settings, phase, config, registry, queue, held, failed, refused>>

\* parse_worker_config, WorkerConfig and the check of the environment.
Loadable(s) ==
  /\ "token" \in s.keys
  /\ s.sets \cup s.roots \cup {v.name : v \in s.providers} \subseteq SafeNames
  /\ \A v, w \in s.providers : v.name = w.name => v = w
  /\ \A v \in s.providers : v.roles # {}
  /\ \E v \in s.providers : "translate" \in v.roles
  /\ \A v \in s.providers : v.kind \in {"openai", "gemini"} => v.kind \in s.keys

\* The languages of a set are those of the files in its directory.
Loaded(s, files) ==
  [name |-> s.name, sets |-> s.sets, roots |-> s.roots,
   providers |-> s.providers, keys |-> s.keys,
   published |-> {<<f.set, f.tag>> : f \in {g \in files : g.set \in s.sets}}]

\* run_worker; what it cannot load ends it before anything else happens.
Start(p) ==
  /\ phase[p] = "down"
  /\ Loadable(settings[p])
  /\ config' = [config EXCEPT ![p] = Loaded(settings[p], disk[p])]
  /\ stale' = [stale EXCEPT ![p] = FALSE]
  /\ failed' = [failed EXCEPT ![p] = {}]
  /\ phase' = [phase EXCEPT ![p] = "started"]
  /\ UNCHANGED <<settings, disk, edits, registry, queue, held, refused>>

\* Stopped, crashed, or ended by an exception that run_worker lets through.
EndOf(p) ==
  /\ phase' = [phase EXCEPT ![p] = "down"]
  /\ config' = [config EXCEPT ![p] = None]
  /\ held' = [held EXCEPT ![p] = None]
  /\ failed' = [failed EXCEPT ![p] = {}]

Stop(p) ==
  /\ phase[p] # "down"
  /\ EndOf(p)
  /\ UNCHANGED <<settings, disk, stale, edits, registry, queue, refused>>

-----------------------------------------------------------------------------
(* Registration.                                                           *)

\* workerCapabilitiesV1Schema: names are safe, as Loadable saw to.
Accepted(c) ==
  /\ \A x \in c.published : x[2] \in WireTags
  /\ \A v \in c.providers : v.roles # {} /\ ~v.localPath

\* A mistake: a row that exists keeps its capabilities.
InsertOnly(p) ==
  IF registry[config[p].name] = None
  THEN registry' = [registry EXCEPT ![config[p].name] =
                      [by |-> p, capabilities |-> Capabilities(config[p])]]
  ELSE registry' = [registry EXCEPT ![config[p].name].by = p]

\* One row per name, whoever writes it.
Upsert(p) ==
  registry' = [registry EXCEPT ![config[p].name] =
                 [by |-> p, capabilities |-> Capabilities(config[p])]]

\* A worker whose capabilities are refused gets a 400 and ends.
Register(p) ==
  /\ phase[p] = "started"
  /\ Accepted(config[p])
  /\ Upsert(p)
  /\ phase' = [phase EXCEPT ![p] = "idle"]
  /\ UNCHANGED <<settings, disk, stale, edits, config, queue, held, failed, refused>>

RegisterRefused(p) ==
  /\ phase[p] = "started"
  /\ ~Accepted(config[p])
  /\ EndOf(p)
  /\ UNCHANGED <<settings, disk, stale, edits, registry, queue, refused>>

Heartbeat(p) ==
  /\ phase[p] = "idle"
  /\ Upsert(p)
  /\ UNCHANGED <<settings, disk, stale, edits, phase, config, queue, held, failed, refused>>

-----------------------------------------------------------------------------
(* A job is submitted or retried, claimed, and turned into a run.          *)

\* jobV1Schema.
Valid(j) ==
  /\ {j.set, j.root, j.translate} \cup ({j.review} \ {None}) \subseteq SafeNames
  /\ j.languages # {} /\ j.languages \subseteq WireTags
  /\ j.flaws \cap SchemaFlaws = {}

Submit(j) ==
  /\ Valid(j)
  /\ queue' = queue \cup {j}
  /\ UNCHANGED <<settings, disk, stale, edits, phase, config, registry, held, failed, refused>>

\* A mistake: any provider of the name will do.
WhateverRole(j, c) ==
  /\ j.set \in c.sets
  /\ j.root \in c.roots
  /\ j.translate \in {v.name : v \in c.providers}
  /\ j.review = None \/ j.review \in {v.name : v \in c.providers}
  /\ {l \in j.languages : <<j.set, l>> \notin c.published} = {}

\* A mistake: the output root is not looked at.
WhateverRoot(j, c) ==
  /\ j.set \in c.sets
  /\ j.translate \in {v.name : v \in {w \in c.providers : "translate" \in w.roles}}
  /\ \/ j.review = None
     \/ j.review \in {v.name : v \in {w \in c.providers : "review" \in w.roles}}
  /\ {l \in j.languages : <<j.set, l>> \notin c.published} = {}

\* A mistake: one of the languages is enough.
SomeLanguage(j, c) ==
  /\ j.set \in c.sets
  /\ j.root \in c.roots
  /\ j.translate \in {v.name : v \in {w \in c.providers : "translate" \in w.roles}}
  /\ \/ j.review = None
     \/ j.review \in {v.name : v \in {w \in c.providers : "review" \in w.roles}}
  /\ {l \in j.languages : <<j.set, l>> \in c.published} # {}

\* The WHERE clause of the claim.
Claimable(j, c) ==
  /\ j.set \in c.sets
  /\ j.root \in c.roots
  /\ j.translate \in {v.name : v \in {w \in c.providers : "translate" \in w.roles}}
  /\ \/ j.review = None
     \/ j.review \in {v.name : v \in {w \in c.providers : "review" \in w.roles}}
  /\ {l \in j.languages : <<j.set, l>> \notin c.published} = {}

HasProviderRole(c, name, role) ==
  \E v \in c.providers : v.name = name /\ role \in v.roles

\* isWorkerCompatible, of a worker that is online.
Compatible(j, c) ==
  /\ j.set \in c.sets
  /\ \A l \in j.languages : <<j.set, l>> \in c.published
  /\ j.root \in c.roots
  /\ HasProviderRole(c, j.translate, "translate")
  /\ j.review # None => HasProviderRole(c, j.review, "review")

Claim(p, j) ==
  /\ phase[p] = "idle"
  /\ Claimable(j, Capabilities(config[p]))
  /\ queue' = queue \ {j}
  /\ held' = [held EXCEPT ![p] = j]
  /\ phase' = [phase EXCEPT ![p] = "claimed"]
  /\ UNCHANGED <<settings, disk, stale, edits, config, registry, failed, refused>>

\* ClaimResponse, _to_translation_job and TranslationJob.
Usable(j, c) ==
  /\ j.flaws \cap (ModelFlaws \cup UrlFlaws \cup BranchFlaws) = {}
  /\ j.set \in c.sets
  /\ j.root \in c.roots
  /\ {j.translate, j.review} \ {None} \subseteq {v.name : v \in c.providers}

Convert(p) ==
  /\ phase[p] = "claimed"
  /\ Usable(held[p], config[p])
  /\ phase' = [phase EXCEPT ![p] = "running"]
  /\ UNCHANGED <<settings, disk, stale, edits, config, registry, queue, held, failed, refused>>

\* The exception is nobody's: the process ends, and the job stays leased.
Refuse(p) ==
  /\ phase[p] = "claimed"
  /\ ~Usable(held[p], config[p])
  /\ refused' = refused \cup {held[p]}
  /\ EndOf(p)
  /\ UNCHANGED <<settings, disk, stale, edits, registry, queue>>

\* load_dictionary opens the name in lower case, and reads strict JSON.
Loads(files, s, l) ==
  \E f \in files : f.set = s /\ f.tag = l /\ f.lower /\ f.good

LoadDictionaries(p) ==
  /\ phase[p] = "running"
  /\ failed' = [failed EXCEPT ![p] =
                  {l \in held[p].languages : ~Loads(disk[p], held[p].set, l)}]
  /\ phase' = [phase EXCEPT ![p] = "loaded"]
  /\ UNCHANGED <<settings, disk, stale, edits, config, registry, queue, held, refused>>

\* create_provider and the rest of the run.
EndRun(p) ==
  /\ phase[p] = "loaded"
  /\ phase' = [phase EXCEPT ![p] = "idle"]
  /\ held' = [held EXCEPT ![p] = None]
  /\ failed' = [failed EXCEPT ![p] = {}]
  /\ UNCHANGED <<settings, disk, stale, edits, config, registry, queue, refused>>

ContractNext ==
  \/ \E j \in Submissions : Submit(j)
  \/ \E p \in Workers :
       \/ EditSettings(p) \/ EditDisk(p) \/ Start(p) \/ Stop(p)
       \/ Register(p) \/ RegisterRefused(p) \/ Heartbeat(p)
       \/ \E j \in queue : Claim(p, j)
       \/ Convert(p) \/ Refuse(p) \/ LoadDictionaries(p) \/ EndRun(p)

ContractSpec == ContractInit /\ [][ContractNext]_contractVars

-----------------------------------------------------------------------------
(* Properties.                                                             *)

Up(p) == phase[p] # "down"

\* The SQL that claims a job and the function that stands in for it in the
\* in-memory store of the end-to-end tests match the same jobs.
MatchersAgree ==
  \A p \in Workers, j \in queue :
    phase[p] = "idle" =>
      (Claimable(j, Capabilities(config[p])) <=> Compatible(j, Capabilities(config[p])))

\* Matching is enough: no process ends over a job because it lacks the
\* dictionary set, the root or a provider, whatever was edited meanwhile,
\* but only over a rule that jobV1Schema does not have.
RefusedOverRulesOnly ==
  \A j \in refused :
    j.flaws \cap ((ModelFlaws \cup UrlFlaws \cup BranchFlaws) \ SchemaFlaws) # {}

\* A run uses providers in roles they were declared for, and the keys they
\* need were there when the process started.
ProvidersAreReady ==
  \A p \in Workers : phase[p] \in {"running", "loaded"} =>
    \A role \in {"translate", "review"} :
      held[p][role] # None =>
        \E v \in config[p].providers :
          /\ v.name = held[p][role] /\ role \in v.roles
          /\ v.kind \in {"openai", "gemini"} => v.kind \in config[p].keys

\* A language without a dictionary was found when the process started:
\* its file went since, or it is there in another case or is no dictionary.
FailedLanguagesWereFound ==
  \A p \in Workers : \A l \in failed[p] :
    /\ <<held[p].set, l>> \in config[p].published
    /\ ~stale[p] =>
         /\ \E f \in disk[p] : f.set = held[p].set /\ f.tag = l
         /\ \A f \in disk[p] : f.set = held[p].set /\ f.tag = l => ~(f.lower /\ f.good)

\* The administrator sees what the process that wrote a row last can do
\* now, as long as it runs, though processes of one name share the row.
RegistryIsCurrent ==
  \A p \in Workers :
    phase[p] \notin {"down", "started"} =>
      /\ registry[config[p].name] # None
      /\ registry[config[p].name].by = p =>
           registry[config[p].name].capabilities = Capabilities(config[p])

-----------------------------------------------------------------------------
(* The inductive invariant.                                                *)

ContractTypeOK ==
  /\ settings \in [Workers -> Settings]
  /\ disk \in [Workers -> Disks]
  /\ stale \in [Workers -> BOOLEAN]
  /\ phase \in [Workers -> {"down", "started", "idle", "claimed", "running", "loaded"}]
  /\ config \in [Workers -> Config \cup {None}]
  /\ registry \in [Names -> {None} \cup
       [by : Workers, capabilities : Capability]]
  /\ queue \subseteq {j \in Submissions : Valid(j)}
  /\ held \in [Workers -> Submissions \cup {None}]
  /\ failed \in [Workers -> SUBSET Tags]
  /\ refused \subseteq Submissions

\* What is known of a process while it runs.
ProcessOK(p) ==
  /\ phase[p] = "down" <=> config[p] = None
  /\ Up(p) =>
       /\ \A v \in config[p].providers :
            v.kind \in {"openai", "gemini"} => v.kind \in config[p].keys
       /\ ~stale[p] => \A x \in config[p].published :
            \E f \in disk[p] : f.set = x[1] /\ f.tag = x[2]
  /\ phase[p] \notin {"down", "started"} => Accepted(config[p])
  /\ phase[p] \in {"claimed", "running", "loaded"} =>
       /\ held[p] \in Submissions /\ Valid(held[p])
       /\ Claimable(held[p], config[p])
  /\ phase[p] # "loaded" => failed[p] = {}
  /\ failed[p] \subseteq {l \in Tags : held[p] # None /\ l \in held[p].languages}
  /\ ~stale[p] => \A l \in failed[p] : ~Loads(disk[p], held[p].set, l)

ContractInv ==
  /\ ContractTypeOK
  /\ \A p \in Workers : ProcessOK(p)
  /\ RefusedOverRulesOnly
  /\ RegistryIsCurrent
=============================================================================
