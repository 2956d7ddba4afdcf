--------------------------- MODULE ContractProofs ---------------------------
(***************************************************************************)
(* Proofs about Contract, for any number of processes, any files and any   *)
(* jobs: the published capabilities and the claim's match are enough for   *)
(* the worker to make a translation job of whatever it is given.           *)
(***************************************************************************)
EXTENDS Contract, TLAPS

\* The two matchers are one predicate, whatever is matched.
LEMMA SameMatch ==
  ASSUME NEW j, NEW c
  PROVE  Claimable(j, c) <=> Compatible(j, c)
BY DEF Claimable, Compatible, HasProviderRole

\* Capabilities leave nothing out that a match looks at.
LEMMA Published ==
  ASSUME NEW j, NEW c
  PROVE  Claimable(j, Capabilities(c)) <=> Claimable(j, c)
BY DEF Claimable, Capabilities

LEMMA CapabilitiesType ==
  ASSUME NEW c \in Config
  PROVE  Capabilities(c) \in Capability
BY DEF Capabilities, Capability, Config

\* A claimed job that the worker cannot use breaks a rule of its own.
LEMMA RefusalHasReason ==
  ASSUME NEW j, NEW c, Valid(j), Claimable(j, c), ~Usable(j, c)
  PROVE  j.flaws \cap ((ModelFlaws \cup UrlFlaws \cup BranchFlaws) \ SchemaFlaws) # {}
<1>1. {j.translate, j.review} \ {None} \subseteq {v.name : v \in c.providers}
  BY DEF Claimable
<1>2. j.flaws \cap (ModelFlaws \cup UrlFlaws \cup BranchFlaws) # {}
  BY <1>1 DEF Usable, Claimable
<1>3. QED
  BY <1>2 DEF Valid

\* A process is what its own files and variables say.
LEMMA Untouched ==
  ASSUME NEW q \in Workers, ProcessOK(q),
         phase'[q] = phase[q], config'[q] = config[q], held'[q] = held[q],
         failed'[q] = failed[q], stale'[q] = stale[q], disk'[q] = disk[q]
  PROVE  ProcessOK(q)'
BY DEF ProcessOK, Up

LEMMA Gone ==
  ASSUME ContractInv, NEW p \in Workers, EndOf(p),
         stale' = stale, disk' = disk, settings' = settings, registry' = registry,
         queue' = queue, refused' \subseteq Submissions, RefusedOverRulesOnly'
  PROVE  ContractInv'
<1> USE DEF ContractInv, EndOf
<1>1. ContractTypeOK'
  BY DEF ContractTypeOK
<1>2. ProcessOK(p)'
  BY DEF ContractTypeOK, ProcessOK, Up
<1>3. \A q \in Workers \ {p} : ProcessOK(q)'
  BY Untouched DEF ContractTypeOK
<1>4. RegistryIsCurrent'
  BY DEF ContractTypeOK, RegistryIsCurrent
<1>5. QED
  BY <1>1, <1>2, <1>3, <1>4

\* Rows are written whole, and by one process at a time.
LEMMA Written ==
  ASSUME ContractInv, NEW p \in Workers, Up(p), Upsert(p), config' = config,
         \A q \in Workers \ {p} : phase'[q] = phase[q]
  PROVE  /\ registry' \in [Names -> {None} \cup [by : Workers, capabilities : Capability]]
         /\ RegistryIsCurrent'
<1> USE DEF ContractInv, ContractTypeOK, Upsert
<1>1. config[p] \in Config /\ config[p].name \in Names
  BY DEF ProcessOK, Up, Config
<1>2. Capabilities(config[p]) \in Capability
  BY <1>1, CapabilitiesType
<1> DEFINE row == [by |-> p, capabilities |-> Capabilities(config[p])]
<1>3. row \in [by : Workers, capabilities : Capability]
  BY <1>2
<1>4. row.by = p /\ row.capabilities = Capabilities(config[p])
  OBVIOUS
<1>5. registry' = [registry EXCEPT ![config[p].name] = row]
  OBVIOUS
<1> HIDE DEF row
<1>6. registry' \in [Names -> {None} \cup [by : Workers, capabilities : Capability]]
  BY <1>3, <1>5
<1>7. \A q \in Workers : Capabilities(config[q])' = Capabilities(config[q])
  OBVIOUS
<1>8. ASSUME NEW q \in Workers, phase'[q] \notin {"down", "started"}
      PROVE  /\ registry'[config[q].name] # None
             /\ registry'[config[q].name].by = q =>
                  registry'[config[q].name].capabilities = Capabilities(config[q])
  <2>1. row # None
    BY <1>4, <1>3, RowAssumption
  <2>2. CASE config[q].name = config[p].name
    BY <1>1, <1>4, <1>5, <2>1, <2>2
  <2>3. CASE config[q].name # config[p].name
    BY <1>1, <1>5, <1>8, <2>3 DEF RegistryIsCurrent
  <2>4. QED
    BY <2>2, <2>3
<1>9. RegistryIsCurrent'
  BY <1>7, <1>8 DEF RegistryIsCurrent
<1>10. QED
  BY <1>6, <1>9

LEMMA SubmitStep ==
  ASSUME ContractInv, NEW j \in Submissions, Submit(j)
  PROVE  ContractInv'
<1> USE DEF ContractInv, Submit
<1>1. ContractTypeOK'
  BY DEF ContractTypeOK, Valid
<1>2. \A q \in Workers : ProcessOK(q)'
  BY Untouched
<1>3. RefusedOverRulesOnly' /\ RegistryIsCurrent'
  BY DEF RefusedOverRulesOnly, RegistryIsCurrent, Capabilities
<1>4. QED
  BY <1>1, <1>2, <1>3

LEMMA EditStep ==
  ASSUME ContractInv, NEW p \in Workers, EditSettings(p) \/ EditDisk(p)
  PROVE  ContractInv'
<1> USE DEF ContractInv
<1>1. ContractTypeOK'
  <2>1. CASE EditSettings(p)
    BY <2>1 DEF ContractTypeOK, Valid, EditSettings
  <2>2. CASE EditDisk(p)
    BY <2>2 DEF ContractTypeOK, Valid, EditDisk
  <2>3. QED
    BY <2>1, <2>2
<1>2. ASSUME NEW q \in Workers PROVE ProcessOK(q)'
  <2>1. CASE q # p \/ EditSettings(p)
    BY <2>1, Untouched DEF EditSettings, EditDisk, ContractTypeOK
  <2>2. CASE q = p /\ EditDisk(p)
    <3>1. stale'[q] /\ phase' = phase /\ config' = config /\ held' = held /\ failed' = failed
      BY <2>2 DEF EditDisk, ContractTypeOK
    <3>2. QED
      BY <3>1 DEF ProcessOK, Up
  <2>3. QED
    BY <2>1, <2>2
<1>3. RefusedOverRulesOnly' /\ RegistryIsCurrent'
  BY DEF RefusedOverRulesOnly, RegistryIsCurrent, Capabilities, EditSettings, EditDisk
<1>4. QED
  BY <1>1, <1>2, <1>3

LEMMA StartStep ==
  ASSUME ContractInv, NEW p \in Workers, Start(p)
  PROVE  ContractInv'
<1> USE DEF ContractInv, Start
<1> DEFINE c == Loaded(settings[p], disk[p])
<1>1. settings[p] \in Setting /\ disk[p] \subseteq File
  BY InputsAssumption DEF ContractTypeOK
<1>2. c.published \subseteq Names \X Tags
  BY <1>1 DEF Loaded, File
<1>3. c \in Config
  BY <1>1, <1>2 DEF Loaded, Setting, Config
<1>4. \A v \in c.providers : v.kind \in {"openai", "gemini"} => v.kind \in c.keys
  BY DEF Loaded, Loadable
<1>5. \A x \in c.published : \E f \in disk[p] : f.set = x[1] /\ f.tag = x[2]
  BY DEF Loaded
<1> HIDE DEF c
<1>6. /\ phase'[p] = "started" /\ config'[p] = c /\ stale'[p] = FALSE /\ failed'[p] = {}
      /\ disk' = disk /\ held' = held /\ registry' = registry /\ refused' = refused
  BY DEF ContractTypeOK, c
<1>7. ContractTypeOK'
  BY <1>3 DEF ContractTypeOK, Valid, c
<1>8. ProcessOK(p)'
  BY <1>3, <1>4, <1>5, <1>6, NoneAssumption DEF ProcessOK, Up
<1>9. \A q \in Workers \ {p} : ProcessOK(q)'
  BY Untouched DEF ContractTypeOK
<1>10. RegistryIsCurrent'
  BY <1>6 DEF ContractTypeOK, RegistryIsCurrent, Capabilities
<1>11. RefusedOverRulesOnly'
  BY DEF RefusedOverRulesOnly
<1>12. QED
  BY <1>7, <1>8, <1>9, <1>10, <1>11

LEMMA EndingStep ==
  ASSUME ContractInv, NEW p \in Workers, Stop(p) \/ RegisterRefused(p) \/ Refuse(p)
  PROVE  ContractInv'
<1>1. CASE Stop(p) \/ RegisterRefused(p)
  BY <1>1, Gone DEF Stop, RegisterRefused, ContractInv, ContractTypeOK, RefusedOverRulesOnly
<1>2. CASE Refuse(p)
  <2>1. /\ refused' = refused \cup {held[p]} /\ phase[p] = "claimed"
        /\ ~Usable(held[p], config[p])
    BY <1>2 DEF Refuse
  <2>2. held[p] \in Submissions /\ Valid(held[p]) /\ Claimable(held[p], config[p])
    BY <2>1 DEF ContractInv, ProcessOK
  <2>3. RefusedOverRulesOnly'
    BY <2>1, <2>2, RefusalHasReason DEF ContractInv, RefusedOverRulesOnly
  <2>4. QED
    BY <1>2, <2>1, <2>2, <2>3, Gone DEF Refuse, ContractInv, ContractTypeOK
<1>3. QED
  BY <1>1, <1>2

LEMMA RegisterStep ==
  ASSUME ContractInv, NEW p \in Workers, Register(p) \/ Heartbeat(p)
  PROVE  ContractInv'
<1> USE DEF ContractInv
<1>1. Up(p) /\ Upsert(p) /\ config' = config /\ \A q \in Workers \ {p} : phase'[q] = phase[q]
  BY DEF Register, Heartbeat, Up, ContractTypeOK
<1>2. /\ registry' \in [Names -> {None} \cup [by : Workers, capabilities : Capability]]
      /\ RegistryIsCurrent'
  BY <1>1, Written
<1>3. ContractTypeOK'
  BY <1>2 DEF ContractTypeOK, Valid, Register, Heartbeat
<1>4. \A q \in Workers \ {p} : ProcessOK(q)'
  BY <1>1, Untouched DEF Register, Heartbeat
<1>5. ProcessOK(p)'
  <2>1. CASE Heartbeat(p)
    BY <2>1, Untouched DEF Heartbeat
  <2>2. CASE Register(p)
    BY <2>2 DEF Register, ProcessOK, Up, ContractTypeOK
  <2>3. QED
    BY <2>1, <2>2
<1>6. RefusedOverRulesOnly'
  BY DEF RefusedOverRulesOnly, Register, Heartbeat
<1>7. QED
  BY <1>2, <1>3, <1>4, <1>5, <1>6

\* The steps from a claim to the end of the run.
LEMMA RunStep ==
  ASSUME ContractInv, NEW p \in Workers,
         \/ \E j \in queue : Claim(p, j)
         \/ Convert(p) \/ LoadDictionaries(p) \/ EndRun(p)
  PROVE  ContractInv'
<1> USE DEF ContractInv
<1>1. /\ config' = config /\ registry' = registry /\ refused' = refused
      /\ disk' = disk /\ stale' = stale /\ settings' = settings
      /\ phase[p] \notin {"down", "started"} /\ phase'[p] \notin {"down", "started"}
      /\ \A q \in Workers \ {p} :
           phase'[q] = phase[q] /\ held'[q] = held[q] /\ failed'[q] = failed[q]
  BY DEF Claim, Convert, LoadDictionaries, EndRun, ContractTypeOK
<1>2. RegistryIsCurrent' /\ RefusedOverRulesOnly'
  BY <1>1 DEF RegistryIsCurrent, RefusedOverRulesOnly, Capabilities
<1>3. \A q \in Workers \ {p} : ProcessOK(q)'
  BY <1>1, Untouched
<1>4. ProcessOK(p)
  OBVIOUS
<1>5. CASE \E j \in queue : Claim(p, j)
  <2>1. PICK j \in queue : Claim(p, j)
    BY <1>5
  <2>2. j \in Submissions /\ Valid(j) /\ Claimable(j, config[p])
    BY <2>1, Published DEF Claim, ContractTypeOK
  <2>3. phase'[p] = "claimed" /\ held'[p] = j /\ failed' = failed /\ failed[p] = {}
    BY <2>1 DEF Claim, ContractTypeOK, ProcessOK
  <2>4. ProcessOK(p)'
    BY <1>1, <1>4, <2>2, <2>3, NoneAssumption DEF ProcessOK, Up, Accepted, Valid, Claimable
  <2>5. ContractTypeOK'
    BY <2>1, <2>2 DEF Claim, ContractTypeOK, Valid
  <2>6. QED
    BY <1>2, <1>3, <2>4, <2>5
<1>6. CASE Convert(p)
  <2>1. phase[p] = "claimed" /\ phase'[p] = "running" /\ held' = held /\ failed' = failed
    BY <1>6 DEF Convert, ContractTypeOK
  <2>2. ProcessOK(p)'
    BY <1>1, <1>4, <2>1 DEF ProcessOK, Up
  <2>3. ContractTypeOK'
    BY <1>6 DEF Convert, ContractTypeOK, Valid
  <2>4. QED
    BY <1>2, <1>3, <2>2, <2>3
<1>7. CASE LoadDictionaries(p)
  <2>1. /\ phase[p] = "running" /\ phase'[p] = "loaded" /\ held' = held
        /\ failed'[p] = {l \in held[p].languages : ~Loads(disk[p], held[p].set, l)}
    BY <1>7 DEF LoadDictionaries, ContractTypeOK
  <2>2. held[p] \in Submissions /\ held[p] \in Job
    BY <1>4, <2>1, InputsAssumption DEF ProcessOK
  <2>3. held[p] # None /\ held[p].languages \subseteq Tags
    BY <2>2, NoneAssumption DEF Job
  <2>4. \A l \in failed'[p] : ~Loads(disk[p], held[p].set, l)'
    BY <1>1, <2>1 DEF Loads
  <2>5. ProcessOK(p)'
    BY <1>1, <1>4, <2>1, <2>3, <2>4 DEF ProcessOK, Up
  <2>6. ContractTypeOK'
    BY <1>7, <2>3 DEF LoadDictionaries, ContractTypeOK, Valid
  <2>7. QED
    BY <1>2, <1>3, <2>5, <2>6
<1>8. CASE EndRun(p)
  <2>1. phase'[p] = "idle" /\ held'[p] = None /\ failed'[p] = {}
    BY <1>8 DEF EndRun, ContractTypeOK
  <2>2. ProcessOK(p)'
    BY <1>1, <1>4, <2>1 DEF ProcessOK, Up
  <2>3. ContractTypeOK'
    BY <1>8 DEF EndRun, ContractTypeOK, Valid
  <2>4. QED
    BY <1>2, <1>3, <2>2, <2>3
<1>9. QED
  BY <1>5, <1>6, <1>7, <1>8

\* ContractInv is an inductive invariant, for all processes, files and jobs.
THEOREM ContractInvariance == ContractSpec => []ContractInv
<1>1. ContractInit => ContractInv
  <2> SUFFICES ASSUME ContractInit PROVE ContractInv
    OBVIOUS
  <2> USE DEF ContractInit
  <2>1. ContractTypeOK
    BY DEF ContractTypeOK
  <2>2. \A p \in Workers : ProcessOK(p)
    BY DEF ProcessOK, Up
  <2>3. RefusedOverRulesOnly /\ RegistryIsCurrent
    BY DEF RefusedOverRulesOnly, RegistryIsCurrent
  <2>4. QED
    BY <2>1, <2>2, <2>3 DEF ContractInv
<1>2. ContractInv /\ [ContractNext]_contractVars => ContractInv'
  <2> SUFFICES ASSUME ContractInv, [ContractNext]_contractVars PROVE ContractInv'
    OBVIOUS
  <2>1. CASE UNCHANGED contractVars
    <3>1. ContractTypeOK'
      BY <2>1 DEF ContractInv, contractVars, ContractTypeOK, Valid
    <3>2. \A q \in Workers : ProcessOK(q)'
      BY <2>1, Untouched DEF ContractInv, contractVars
    <3>3. RefusedOverRulesOnly' /\ RegistryIsCurrent'
      BY <2>1 DEF ContractInv, contractVars, RefusedOverRulesOnly, RegistryIsCurrent, Capabilities
    <3>4. QED
      BY <3>1, <3>2, <3>3 DEF ContractInv
  <2>2. CASE ContractNext
    BY <2>2, SubmitStep, EditStep, StartStep, EndingStep, RegisterStep, RunStep DEF ContractNext
  <2>3. QED
    BY <2>1, <2>2
<1>3. QED
  BY <1>1, <1>2, PTL DEF ContractSpec

\* No process ends over a claimed job for want of a capability: matching is
\* enough, and RefusedOverRulesOnly holds whatever is edited in between.
THEOREM MatchingIsEnough == ContractSpec => []RefusedOverRulesOnly
<1>1. ContractInv => RefusedOverRulesOnly
  BY DEF ContractInv
<1>2. QED
  BY <1>1, ContractInvariance, PTL

\* A running process finds its row as it wrote it, unless a namesake did.
THEOREM RowsAreCurrent == ContractSpec => []RegistryIsCurrent
<1>1. ContractInv => RegistryIsCurrent
  BY DEF ContractInv
<1>2. QED
  BY <1>1, ContractInvariance, PTL

\* The claim's WHERE clause and isWorkerCompatible match the same jobs.
THEOREM OneMatch == ContractSpec => []MatchersAgree
<1>1. ContractInv => MatchersAgree
  BY SameMatch DEF MatchersAgree
<1>2. QED
  BY <1>1, ContractInvariance, PTL

\* The providers of a run have the roles it uses them in, and their keys.
THEOREM RunsHaveProviders == ContractSpec => []ProvidersAreReady
<1>1. ContractInv => ProvidersAreReady
  <2> SUFFICES ASSUME ContractInv, NEW p \in Workers, phase[p] \in {"running", "loaded"},
                      NEW role \in {"translate", "review"}, held[p][role] # None
               PROVE  \E v \in config[p].providers :
                        /\ v.name = held[p][role] /\ role \in v.roles
                        /\ v.kind \in {"openai", "gemini"} => v.kind \in config[p].keys
    BY DEF ProvidersAreReady
  <2>1. Claimable(held[p], config[p])
    BY DEF ContractInv, ProcessOK
  <2>2. \A v \in config[p].providers :
          v.kind \in {"openai", "gemini"} => v.kind \in config[p].keys
    BY DEF ContractInv, ProcessOK, Up
  <2>3. held[p] \in Job
    BY InputsAssumption DEF ContractInv, ProcessOK
  <2>4. held[p]["translate"] = held[p].translate /\ held[p]["review"] = held[p].review
    BY <2>3 DEF Job
  <2>5. CASE role = "translate"
    BY <2>1, <2>2, <2>4, <2>5 DEF Claimable
  <2>6. CASE role = "review"
    BY <2>1, <2>2, <2>4, <2>6 DEF Claimable
  <2>7. QED
    BY <2>5, <2>6
<1>2. QED
  BY <1>1, ContractInvariance, PTL

\* A language whose dictionary fails was found when the process started, and
\* without edits its file is still there, in another case or broken.
THEOREM FailuresWereFound == ContractSpec => []FailedLanguagesWereFound
<1>1. ContractInv => FailedLanguagesWereFound
  <2> SUFFICES ASSUME ContractInv, NEW p \in Workers, NEW l \in failed[p]
               PROVE  /\ <<held[p].set, l>> \in config[p].published
                      /\ ~stale[p] =>
                           /\ \E f \in disk[p] : f.set = held[p].set /\ f.tag = l
                           /\ \A f \in disk[p] :
                                f.set = held[p].set /\ f.tag = l => ~(f.lower /\ f.good)
    BY DEF FailedLanguagesWereFound
  <2>1. ProcessOK(p)
    BY DEF ContractInv
  <2>2. phase[p] = "loaded" /\ l \in held[p].languages
    BY <2>1 DEF ProcessOK
  <2>3. Claimable(held[p], config[p])
    BY <2>1, <2>2 DEF ProcessOK
  <2>4. <<held[p].set, l>> \in config[p].published
    BY <2>2, <2>3 DEF Claimable
  <2>5. ASSUME ~stale[p]
        PROVE  \E f \in disk[p] : f.set = held[p].set /\ f.tag = l
    BY <2>1, <2>2, <2>4, <2>5 DEF ProcessOK, Up
  <2>6. ASSUME ~stale[p]
        PROVE  \A f \in disk[p] : f.set = held[p].set /\ f.tag = l => ~(f.lower /\ f.good)
    BY <2>1, <2>6 DEF ProcessOK, Loads
  <2>7. QED
    BY <2>4, <2>5, <2>6
<1>2. QED
  BY <1>1, ContractInvariance, PTL
=============================================================================
