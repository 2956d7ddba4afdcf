------------------------------ MODULE Pipeline ------------------------------
(***************************************************************************)
(* One run of the translation pipeline: TranslationPipeline.run with the   *)
(* source, the dictionaries and the storage it calls.                      *)
(*                                                                         *)
(* What the outside world will do is chosen in the initial state: which    *)
(* files can be read, which dictionary loads succeed, and at which stage,  *)
(* if at any, the work on a file and language goes wrong.  Whatever the    *)
(* code does then with one failure, it must not change what becomes of     *)
(* another file or language.                                               *)
(*                                                                         *)
(* A language is identified by its place in job.languages, since neither   *)
(* the schemas nor the command line keep a tag from being listed twice.    *)
(* The loops take their items in any order; the code's order is one.       *)
(***************************************************************************)
EXTENDS Naturals, FiniteSets

CONSTANTS
  Files,      \* the paths that match the target patterns
  Entries,    \* places in job.languages
  Tags,       \* language tags
  Mute,       \* file and place: an exception about it would have no text
  Escapes     \* whether what is outside every try may raise

Pairs == Files \X Entries

ASSUME EntriesAssumption == Entries # {}
ASSUME MuteAssumption == Mute \subseteq Pairs
ASSUME EscapesAssumption == Escapes \in BOOLEAN

Loops == {"translate", "verify", "save"}
Ended == {"done", "raised"}
Stages == {"validate", "fetch", "dictionary"} \cup Loops \cup Ended
Statuses == {"succeeded", "partial", "failed", "cancelled"}

VARIABLES
  tag,         \* the language tag at each place
  reachable,   \* the files whose content can be fetched
  readable,    \* the places for which the dictionary loads
  fate,        \* per file and place: the stage that fails, or "ok"
  stage,       \* the stage the run is in, "done", or "raised" by an exception
  unloaded,    \* places the dictionary loop has yet to reach
  loaded,      \* the keys of `dictionaries`
  todo,        \* items the current loop has yet to reach
  passed,      \* what the next loop is over: candidates, then verified
  results,     \* the FileLanguageResults so far
  issues,      \* whether the list of global issues has a member
  saved,       \* the output files this run has written: file and tag
  status       \* the status returned

world == <<tag, reachable, readable, fate>>
pipelineVars == <<world, stage, unloaded, loaded, todo, passed, results, issues, saved, status>>

Results == [pair: Pairs, at: {"dictionary"} \cup Loops, ok: BOOLEAN]
Failure(p, s) == [pair |-> p, at |-> s, ok |-> FALSE]
Success(p) == [pair |-> p, at |-> "save", ok |-> TRUE]
Output(p) == <<p[1], tag[p[2]]>>

Work == reachable \X Entries

PipelineTypeOK ==
  /\ tag \in [Entries -> Tags]
  /\ reachable \subseteq Files
  /\ readable \subseteq Entries
  /\ fate \in [Pairs -> Loops \cup {"ok"}]
  /\ stage \in Stages
  /\ unloaded \subseteq Entries
  /\ loaded \subseteq Tags
  /\ todo \subseteq Work
  /\ passed \subseteq Work
  /\ results \subseteq Results
  /\ issues \in BOOLEAN
  /\ saved \subseteq Files \X Tags
  /\ status \in Statuses \cup {"none"}

PipelineInit ==
  /\ tag \in [Entries -> Tags]
  /\ reachable \in SUBSET Files
  /\ readable \in SUBSET Entries
  /\ fate \in [Pairs -> Loops \cup {"ok"}]
  /\ stage = "validate"
  /\ unloaded = Entries
  /\ loaded = {}
  /\ todo = {}
  /\ passed = {}
  /\ results = {}
  /\ issues = FALSE
  /\ saved = {}
  /\ status = "none"

-----------------------------------------------------------------------------
(* Before the loops.                                                       *)

Validate ==
  /\ stage = "validate"
  /\ stage' = "fetch"
  /\ UNCHANGED <<world, unloaded, loaded, todo, passed, results, issues, saved, status>>

\* A mistake: a file that could not be fetched leaves no issue.
FetchWhatThereIs ==
  /\ stage = "fetch"
  /\ issues' = (reachable = {})
  /\ IF reachable = {}
     THEN stage' = "done" /\ status' = "failed"
     ELSE stage' = "dictionary" /\ UNCHANGED status
  /\ UNCHANGED <<world, unloaded, loaded, todo, passed, results, saved>>

\* A listing that fails and patterns that match nothing leave no file
\* either, and one issue; else there is one for each file not read.
Fetch ==
  /\ stage = "fetch"
  /\ issues' = (reachable # Files \/ reachable = {})
  /\ IF reachable = {}
     THEN stage' = "done" /\ status' = "failed"
     ELSE stage' = "dictionary" /\ UNCHANGED status
  /\ UNCHANGED <<world, unloaded, loaded, todo, passed, results, saved>>

\* A mistake: the failure is a global issue only.
LoadDictionarySilently(e) ==
  /\ stage = "dictionary"
  /\ e \in unloaded
  /\ unloaded' = unloaded \ {e}
  /\ IF e \in readable
     THEN loaded' = loaded \cup {tag[e]} /\ UNCHANGED issues
     ELSE issues' = TRUE /\ UNCHANGED loaded
  /\ UNCHANGED <<world, stage, todo, passed, results, saved, status>>

\* A dictionary that does not load fails its language for every file.
LoadDictionary(e) ==
  /\ stage = "dictionary"
  /\ e \in unloaded
  /\ unloaded' = unloaded \ {e}
  /\ IF e \in readable
     THEN loaded' = loaded \cup {tag[e]} /\ UNCHANGED <<results, issues>>
     ELSE /\ results' = results \cup {Failure(<<f, e>>, "dictionary") : f \in reachable}
          /\ issues' = TRUE
          /\ UNCHANGED loaded
  /\ UNCHANGED <<world, stage, todo, passed, saved, status>>

StartTranslating ==
  /\ stage = "dictionary"
  /\ unloaded = {}
  /\ stage' = "translate"
  /\ todo' = Work
  /\ UNCHANGED <<world, unloaded, loaded, passed, results, issues, saved, status>>

-----------------------------------------------------------------------------
(* The three loops.                                                        *)

\* A TranslationIssue needs a message, so an exception without a text cannot
\* be recorded.  Verification issues have texts of their own.
Unreportable(p) == p \in Mute /\ fate[p] = stage

Take(p, s) ==
  /\ stage = s
  /\ p \in todo
  /\ todo' = todo \ {p}
  /\ UNCHANGED <<world, stage, unloaded, loaded, issues, status>>

\* The item fails here, or goes on to the next loop.
Judge(p, s) ==
  IF fate[p] = s
  THEN results' = results \cup {Failure(p, s)} /\ UNCHANGED passed
  ELSE passed' = passed \cup {p} /\ UNCHANGED results

\* A mistake: break for continue, so a failed language takes the file's
\* remaining languages with it.
TranslateUntilFailure(p) ==
  /\ stage = "translate"
  /\ p \in todo
  /\ todo' = IF fate[p] = "translate" THEN {q \in todo : q[1] # p[1]} ELSE todo \ {p}
  /\ IF tag[p[2]] \in loaded THEN Judge(p, "translate") ELSE UNCHANGED <<passed, results>>
  /\ UNCHANGED <<world, stage, unloaded, loaded, issues, saved, status>>

\* Without a dictionary the item has its result already.
Translate(p) ==
  /\ Take(p, "translate")
  /\ IF tag[p[2]] \in loaded
     THEN ~Unreportable(p) /\ Judge(p, "translate")
     ELSE UNCHANGED <<passed, results>>
  /\ UNCHANGED saved

\* A mistake: verification issues are noted and the candidate kept.
VerifyLeniently(p) ==
  /\ Take(p, "verify")
  /\ results' = IF fate[p] = "verify" THEN results \cup {Failure(p, "verify")} ELSE results
  /\ passed' = passed \cup {p}
  /\ UNCHANGED saved

Verify(p) ==
  /\ Take(p, "verify")
  /\ Judge(p, "verify")
  /\ UNCHANGED saved

\* A mistake: a save that fails is tried again.
SaveUntilItWorks(p) ==
  /\ stage = "save"
  /\ p \in todo
  /\ IF fate[p] = "save"
     THEN results' = results \cup {Failure(p, "save")} /\ UNCHANGED <<saved, todo>>
     ELSE /\ results' = results \cup {Success(p)}
          /\ saved' = saved \cup {Output(p)}
          /\ todo' = todo \ {p}
  /\ UNCHANGED <<world, stage, unloaded, loaded, passed, issues, status>>

\* atomic_write_text leaves the whole file or none.
Save(p) ==
  /\ Take(p, "save")
  /\ ~Unreportable(p)
  /\ IF fate[p] = "save"
     THEN results' = results \cup {Failure(p, "save")} /\ UNCHANGED saved
     ELSE results' = results \cup {Success(p)} /\ saved' = saved \cup {Output(p)}
  /\ UNCHANGED passed

\* The end of a loop: the next is over what has passed.
StartNext(s, t) ==
  /\ stage = s
  /\ todo = {}
  /\ stage' = t
  /\ todo' = passed
  /\ passed' = {}
  /\ UNCHANGED <<world, unloaded, loaded, results, issues, saved, status>>

-----------------------------------------------------------------------------
(* The ends.                                                               *)

Successes == {r \in results : r.ok}
Failures == {r \in results : ~r.ok}

\* _aggregate_status.
Aggregate ==
  IF Successes = {} THEN "failed"
  ELSE IF Failures # {} \/ issues THEN "partial" ELSE "succeeded"

Complete ==
  /\ stage = "save"
  /\ todo = {}
  /\ stage' = "done"
  /\ status' = Aggregate
  /\ UNCHANGED <<world, unloaded, loaded, todo, passed, results, issues, saved>>

\* should_cancel is asked after the first two stages and before every item.
Stop ==
  /\ \/ stage = "validate"
     \/ stage = "dictionary" /\ unloaded # {}
     \/ stage \in Loops /\ todo # {}
  /\ stage' = "done"
  /\ status' = "cancelled"
  /\ UNCHANGED <<world, unloaded, loaded, todo, passed, results, issues, saved>>

\* Recording such an exception raises another, which ends the run.
FailMutely(p) ==
  /\ stage \in {"translate", "save"}
  /\ p \in todo
  /\ tag[p[2]] \in loaded
  /\ Unreportable(p)
  /\ stage' = "raised"
  /\ UNCHANGED <<world, unloaded, loaded, todo, passed, results, issues, saved, status>>

\* What is outside every try: the callbacks, the provider's construction,
\* the verifier, the output path.  The results are gone, the files are not.
Escape ==
  /\ Escapes
  /\ stage \notin Ended
  /\ stage' = "raised"
  /\ UNCHANGED <<world, unloaded, loaded, todo, passed, results, issues, saved, status>>

Advance ==
  \/ Validate
  \/ Fetch
  \/ \E e \in Entries : LoadDictionary(e)
  \/ StartTranslating
  \/ \E p \in Work : Translate(p) \/ Verify(p) \/ Save(p) \/ FailMutely(p)
  \/ StartNext("translate", "verify")
  \/ StartNext("verify", "save")
  \/ Complete

PipelineNext == Advance \/ Stop \/ Escape

PipelineSpec == PipelineInit /\ [][PipelineNext]_pipelineVars

\* Every call the pipeline makes returns or raises.
FairPipelineSpec == PipelineSpec /\ WF_pipelineVars(Advance)

-----------------------------------------------------------------------------
(* Properties.                                                             *)

Distinct == \A d, e \in Entries : tag[d] = tag[e] => d = e
Finished == stage = "done" /\ status # "cancelled"

\* A run that comes to its own end has a result for every file it fetched in
\* every language it was asked for, and not two, unless a tag is listed twice.
AccountedFor ==
  Finished =>
    \A p \in Work :
      /\ \E r \in results : r.pair = p
      /\ Distinct => \A q, r \in results : q.pair = p /\ r.pair = p => q = r

\* What becomes of a file in a language depends on the file, the language and
\* that translation alone, whatever failed before it: at the end its output
\* is there if nothing went wrong with it and, unless the tag is listed
\* twice, only then.  Nothing that failed verification is ever written.
FailuresAreIsolated ==
  /\ Finished => \A p \in Work : p[2] \in readable /\ fate[p] = "ok" => Output(p) \in saved
  /\ \A o \in saved : \E p \in Work : Output(p) = o /\ fate[p] = "ok"
  /\ Distinct => \A p \in Pairs :
       Output(p) \in saved => p \in Work /\ p[2] \in readable /\ fate[p] = "ok"

\* The status tells the truth: "succeeded" exactly if nothing at all went
\* wrong, and then every output is on the disk; "failed" exactly if none is.
StatusIsHonest ==
  Finished =>
    /\ status = "succeeded" <=>
         /\ reachable = Files /\ Files # {}
         /\ readable = Entries
         /\ \A p \in Pairs : fate[p] = "ok"
    /\ status = "succeeded" => saved = {Output(p) : p \in Pairs}
    /\ status = "failed" <=> saved = {}

\* The design document: "Errors are isolated by file and language.  A failure
\* does not stop unrelated translations."  So a run nobody cancels has a
\* result for everything it fetched.
FailureStopsNothing ==
  stage \in Ended /\ status # "cancelled" =>
    \A p \in Work : \E r \in results : r.pair = p

\* Every run ends: its loops are over what was there when they began.
PipelineEnds == <>(stage \in Ended)

-----------------------------------------------------------------------------
(* The inductive invariant: what has been recorded is what the world       *)
(* demands for the items the loops have been through, no more and no less. *)

\* The items that get as far as loop s, and those that are through with it.
Reach == [s \in Loops |->
  {p \in Work : /\ \E e \in readable : tag[e] = tag[p[2]]
                /\ s \in {"verify", "save"} => fate[p] # "translate"
                /\ s = "save" => fate[p] # "verify"}]

After == [s \in Loops |->
  {"done"} \cup (IF s = "save" THEN {} ELSE {"save"})
           \cup (IF s = "translate" THEN {"verify"} ELSE {})]

Through(s) ==
  IF stage = s THEN Reach[s] \ todo
  ELSE IF stage \in After[s] THEN Reach[s] ELSE {}

Running == stage # "raised" /\ status # "cancelled"

DictionariesSoFar ==
  /\ loaded = {tag[e] : e \in readable \ unloaded}
  /\ stage \in {"validate", "fetch"} => unloaded = Entries
  /\ stage \in Loops => unloaded = {}
  /\ stage = "done" => unloaded = {} \/ Work = {}

IssuesSoFar ==
  stage \notin {"validate", "fetch"} =>
    (issues <=> reachable # Files \/ reachable = {} \/ \E e \in Entries \ unloaded : e \notin readable)

\* A result is due when its item has reached the end it reports.
Due(r) ==
  \/ /\ r.at = "dictionary" /\ ~r.ok
     /\ r.pair \in Work
     /\ r.pair[2] \notin unloaded \cup readable
  \/ /\ r.at \in Loops /\ ~r.ok
     /\ r.pair \in Through(r.at)
     /\ fate[r.pair] = r.at
  \/ /\ r.at = "save" /\ r.ok
     /\ r.pair \in Through("save")
     /\ fate[r.pair] = "ok"

ResultsSoFar == \A r \in Results : r \in results <=> Due(r)

LoopsSoFar ==
  /\ stage \in {"verify", "save"} => todo \subseteq Reach[stage]
  /\ stage \in {"translate", "verify"} => passed = {p \in Through(stage) : fate[p] # stage}
  /\ stage \notin {"translate", "verify"} => passed = {}
  /\ stage \notin Loops => todo = {}

PInv ==
  /\ PipelineTypeOK
  /\ saved = {Output(r.pair) : r \in Successes}
  /\ \A r \in Successes : r.pair \in Reach["save"] /\ fate[r.pair] = "ok"
  /\ stage \notin Ended => status = "none"
  /\ Running =>
       /\ DictionariesSoFar
       /\ IssuesSoFar
       /\ ResultsSoFar
       /\ LoopsSoFar
       /\ stage = "done" => status = Aggregate
=============================================================================
