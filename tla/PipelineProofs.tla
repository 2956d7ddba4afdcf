--------------------------- MODULE PipelineProofs ---------------------------
(***************************************************************************)
(* Proofs about Pipeline, for any files, any languages and any failures.   *)
(* The results are determined at every moment by the world and by which    *)
(* items the loops are through with (ResultsSoFar), so at the end by the   *)
(* world alone.                                                            *)
(***************************************************************************)
EXTENDS Pipeline, TLAPS

\* The initial state.
LEMMA PipelineInitially == PipelineInit => PInv
<1> SUFFICES ASSUME PipelineInit PROVE PInv
  OBVIOUS
<1> USE DEF PipelineInit
<1>1. PipelineTypeOK
  BY DEF PipelineTypeOK, Stages, Loops, Statuses
<1>2. Successes = {}
  BY DEF Successes
<1>3. \A s \in Loops : Through(s) = {}
  BY DEF Through, After, Loops
<1>4. DictionariesSoFar
  BY DEF DictionariesSoFar, Loops
<1>5. IssuesSoFar
  BY DEF IssuesSoFar
<1>6. ResultsSoFar
  BY <1>3 DEF ResultsSoFar, Due, Loops, Results, Pairs, Work
<1>7. LoopsSoFar
  BY DEF LoopsSoFar, Loops
<1>8. QED
  BY <1>1, <1>2, <1>4, <1>5, <1>6, <1>7 DEF PInv, Running, Ended

-----------------------------------------------------------------------------
(* The steps.                                                              *)

\* A result is made of its fields.
LEMMA ResultFields ==
  /\ \A p \in Pairs, s \in {"dictionary"} \cup Loops : Failure(p, s) \in Results
  /\ \A p \in Pairs : Success(p) \in Results
  /\ \A r \in Results : ~r.ok => r = Failure(r.pair, r.at)
  /\ \A r \in Results : r.ok /\ r.at = "save" => r = Success(r.pair)
BY DEF Failure, Success, Results, Loops

\* A step with no save.
LEMMA NoSaveStep ==
  ASSUME PInv, UNCHANGED <<world, saved>>, Successes' = Successes
  PROVE  /\ saved' = {Output(r.pair)' : r \in Successes'}
         /\ \A r \in Successes' : r.pair \in Reach["save"]' /\ fate[r.pair]' = "ok"
<1>1. Reach' = Reach
  BY DEF Reach, Work, world
<1>2. \A p : Output(p)' = Output(p)
  BY DEF Output, world
<1>3. QED
  BY <1>1, <1>2 DEF PInv, world

\* A step that takes nothing from a loop and makes no result.
LEMMA NoResultStep ==
  ASSUME PInv, Running, UNCHANGED <<world, results, saved, unloaded>>,
         \A s \in Loops : Through(s)' = Through(s)
  PROVE  /\ ResultsSoFar'
         /\ saved' = {Output(r.pair)' : r \in Successes'}
         /\ \A r \in Successes' : r.pair \in Reach["save"]' /\ fate[r.pair]' = "ok"
<1>1. Results' = Results /\ Work' = Work /\ Successes' = Successes
  BY DEF Results, Work, Pairs, Successes, world, Loops
<1>2. ASSUME NEW r \in Results PROVE Due(r)' <=> Due(r)
  BY <1>1 DEF Due, world, Loops
<1>3. QED
  BY <1>1, <1>2, NoSaveStep DEF PInv, ResultsSoFar

\* Validate and Fetch: no loop has begun.
LEMMA BeforeTheLoops ==
  ASSUME PInv, Validate \/ Fetch
  PROVE  PInv'
<1>1. Running /\ stage \in {"validate", "fetch"} /\ status = "none"
  BY DEF PInv, Running, Validate, Fetch, Ended
<1>2. UNCHANGED <<world, unloaded, loaded, todo, passed, results, saved>>
  BY DEF Validate, Fetch
<1>3. stage' \in {"fetch", "dictionary", "done"}
  BY DEF Validate, Fetch
<1>4. stage' = "done" => Work = {}
  BY DEF Validate, Fetch, Work
<1>5. PipelineTypeOK'
  BY <1>2, <1>3 DEF PInv, PipelineTypeOK, Validate, Fetch, world, Work, Pairs, Results,
     Stages, Statuses, Loops, Ended
<1>6. \A s \in Loops : Through(s) = {} /\ Through(s)' = {}
  <2>1. Work = {} => Reach' = [s \in Loops |-> {}]
    BY <1>2 DEF Reach, Work, world
  <2>2. QED
    BY <1>1, <1>2, <1>3, <1>4, <2>1 DEF Through, After, Loops
<1>7. /\ ResultsSoFar'
      /\ saved' = {Output(r.pair)' : r \in Successes'}
      /\ \A r \in Successes' : r.pair \in Reach["save"]' /\ fate[r.pair]' = "ok"
  BY <1>1, <1>2, <1>6, NoResultStep
<1>8. DictionariesSoFar'
  BY <1>1, <1>2, <1>3, <1>4 DEF PInv, DictionariesSoFar, world, Work, Loops
<1>9. IssuesSoFar'
  BY <1>1, <1>2, <1>3 DEF PInv, DictionariesSoFar, IssuesSoFar, Validate, Fetch, world
<1>10. LoopsSoFar'
  BY <1>1, <1>2, <1>3 DEF PInv, LoopsSoFar, Loops
<1>11. stage' = "done" => status' = Aggregate'
  <2>1. ASSUME stage' = "done" PROVE Successes' = {}
    <3>1. \A r \in results : ~r.ok
      BY <1>1, <1>6 DEF PInv, PipelineTypeOK, ResultsSoFar, Due, Loops
    <3>2. QED
      BY <1>2, <3>1 DEF Successes
  <2>2. QED
    BY <1>1, <2>1 DEF Aggregate, Fetch, Validate
<1>12. stage' \notin Ended => status' = "none"
  BY <1>1 DEF Validate, Fetch, Ended
<1>13. QED
  BY <1>5, <1>7, <1>8, <1>9, <1>10, <1>11, <1>12 DEF PInv

\* The dictionary loop: a place that fails makes its results, one per file.
LEMMA TheDictionaryLoop ==
  ASSUME PInv, NEW e \in Entries, LoadDictionary(e)
  PROVE  PInv'
<1> USE DEF LoadDictionary
<1>1. Running /\ stage = "dictionary" /\ stage' = "dictionary" /\ status' = "none"
  BY DEF PInv, Running, Ended
<1>2. UNCHANGED <<world, todo, passed, saved>> /\ unloaded' = unloaded \ {e} /\ e \in unloaded
  OBVIOUS
<1>3. \A s \in Loops : Through(s) = {} /\ Through(s)' = {}
  BY <1>1 DEF Through, After, Loops
<1>4. /\ results' = results \cup {r \in Results : /\ r.at = "dictionary" /\ ~r.ok
                                                   /\ r.pair \in Work
                                                   /\ r.pair[2] \in {e} \ readable}
      /\ results \subseteq Results
  <2>1. Work \subseteq Pairs /\ results \subseteq Results
    BY DEF PInv, PipelineTypeOK, Work, Pairs
  <2>2. \A r : r \in {Failure(<<f, e>>, "dictionary") : f \in reachable}
           <=> r \in Results /\ r.at = "dictionary" /\ ~r.ok /\ r.pair \in Work /\ r.pair[2] = e
    BY <2>1, ResultFields DEF Failure, Work
  <2>3. CASE e \in readable
    BY <2>1, <2>3
  <2>4. CASE e \notin readable
    BY <2>1, <2>2, <2>4
  <2>5. QED
    BY <2>3, <2>4
<1>5. PipelineTypeOK'
  <2>1. loaded' \subseteq Tags /\ issues' \in BOOLEAN
    <3>1. tag[e] \in Tags /\ loaded \subseteq Tags /\ issues \in BOOLEAN
      BY DEF PInv, PipelineTypeOK
    <3>2. CASE e \in readable
      BY <3>1, <3>2
    <3>3. CASE e \notin readable
      BY <3>1, <3>3
    <3>4. QED
      BY <3>2, <3>3
  <2>2. results' \subseteq Results' /\ Work' = Work
    BY <1>2, <1>4 DEF Results, Pairs, Work, world
  <2>3. QED
    BY <1>1, <1>2, <2>1, <2>2 DEF PInv, PipelineTypeOK, world, Stages, Statuses
<1>6. Successes' = Successes
  BY <1>4 DEF Successes
<1>7. /\ saved' = {Output(r.pair)' : r \in Successes'}
      /\ \A r \in Successes' : r.pair \in Reach["save"]' /\ fate[r.pair]' = "ok"
  BY <1>2, <1>6, NoSaveStep
<1>8. ResultsSoFar'
  BY <1>1, <1>2, <1>3, <1>4 DEF PInv, ResultsSoFar, Due, Results, Pairs, Work, world, Loops
<1>9. DictionariesSoFar'
  <2>1. loaded' = {tag[d] : d \in readable \ unloaded'}
    BY <1>1, <1>2 DEF PInv, DictionariesSoFar, world
  <2>2. QED
    BY <1>1, <1>2, <2>1 DEF DictionariesSoFar, world, Loops
<1>10. IssuesSoFar'
  BY <1>1, <1>2 DEF PInv, IssuesSoFar, world
<1>11. LoopsSoFar'
  BY <1>1, <1>2 DEF PInv, LoopsSoFar, Loops
<1>12. QED
  BY <1>1, <1>5, <1>7, <1>8, <1>9, <1>10, <1>11 DEF PInv

\* Between two loops: what the next one is over is what reaches it.
LEMMA BetweenTheLoops ==
  ASSUME PInv, StartTranslating \/ StartNext("translate", "verify") \/ StartNext("verify", "save")
  PROVE  PInv'
<1> USE DEF StartTranslating, StartNext
<1>1. Running /\ stage \in {"dictionary", "translate", "verify"} /\ stage' \in Loops /\ status' = "none"
  BY DEF PInv, Running, Ended, Loops
<1>2. UNCHANGED <<world, unloaded, loaded, results, issues, saved>>
  OBVIOUS
<1>3. Reach' = Reach
  BY <1>2 DEF Reach, Work, world
<1>4. passed \subseteq Work
  BY DEF PInv, PipelineTypeOK
<1>5. /\ stage' = "translate" => stage = "dictionary" /\ todo' = Work
      /\ stage' = "verify" => /\ stage = "translate" /\ todo = {}
                              /\ todo' = Reach["verify"]
      /\ stage' = "save" => /\ stage = "verify" /\ todo = {}
                            /\ todo' = Reach["save"]
  BY <1>1, <1>4 DEF PInv, LoopsSoFar, Through, Reach, Loops
<1>6. \A s \in Loops : Through(s)' = Through(s)
  BY <1>1, <1>3, <1>5 DEF Through, After, Loops, Reach
<1>7. /\ ResultsSoFar'
      /\ saved' = {Output(r.pair)' : r \in Successes'}
      /\ \A r \in Successes' : r.pair \in Reach["save"]' /\ fate[r.pair]' = "ok"
  BY <1>1, <1>2, <1>6, NoResultStep
<1>8. todo' \subseteq Work /\ passed' = {}
  BY <1>1, <1>4 DEF PInv, LoopsSoFar, Loops
<1>9. PipelineTypeOK'
  BY <1>1, <1>2, <1>8 DEF PInv, PipelineTypeOK, world, Work, Pairs, Results, Stages, Statuses
<1>10. DictionariesSoFar'
  BY <1>1, <1>2 DEF PInv, DictionariesSoFar, world, Work, Loops
<1>11. IssuesSoFar'
  BY <1>1, <1>2 DEF PInv, IssuesSoFar, world, Loops
<1>12. LoopsSoFar'
  <2>1. stage' \in {"translate", "verify"} => Through(stage)' = {}
    BY <1>3, <1>5 DEF Through, Reach, Loops
  <2>2. QED
    BY <1>1, <1>3, <1>5, <1>8, <2>1 DEF LoopsSoFar, Loops
<1>13. QED
  BY <1>1, <1>7, <1>9, <1>10, <1>11, <1>12 DEF PInv, Loops

\* One item of a loop: it is through with this loop, all else is as it was.
LEMMA OneItem ==
  ASSUME PInv, NEW s \in Loops, NEW p \in Work, Take(p, s)
  PROVE  /\ Running /\ stage = s /\ stage' = s /\ status' = "none"
         /\ UNCHANGED <<world, unloaded, loaded, issues>>
         /\ Reach' = Reach
         /\ Through(s)' = Through(s) \cup ({p} \cap Reach[s])
         /\ p \notin Through(s)
         /\ \A t \in Loops \ {s} : Through(t)' = Through(t)
         /\ DictionariesSoFar'
         /\ IssuesSoFar'
         /\ todo' = todo \ {p} /\ todo \subseteq Work
<1> USE DEF Take
<1>1. Running /\ stage = s /\ stage' = s /\ status' = "none" /\ p \in todo
  BY DEF PInv, Running, Ended, Loops
<1>2. UNCHANGED <<world, unloaded, loaded, issues>> /\ todo' = todo \ {p}
  OBVIOUS
<1>3. Reach' = Reach
  BY <1>2 DEF Reach, Work, world
<1>4. Through(s)' = Through(s) \cup ({p} \cap Reach[s])
  BY <1>1, <1>2, <1>3 DEF Through
<1>5. p \notin Through(s)
  BY <1>1 DEF Through
<1>6. \A t \in Loops \ {s} : Through(t)' = Through(t)
  BY <1>1, <1>3 DEF Through
<1>7. DictionariesSoFar'
  BY <1>1, <1>2 DEF PInv, DictionariesSoFar, world, Work, Loops
<1>8. IssuesSoFar'
  BY <1>1, <1>2 DEF PInv, IssuesSoFar, world, Loops
<1>9. todo \subseteq Work
  BY DEF PInv, PipelineTypeOK
<1>10. QED
  BY <1>1, <1>2, <1>3, <1>4, <1>5, <1>6, <1>7, <1>8, <1>9

\* An item that reaches its loop: it fails there, or it passes.
LEMMA Judged ==
  ASSUME PInv, NEW s \in {"translate", "verify"}, NEW p \in Work, Take(p, s),
         p \in Reach[s], Judge(p, s), UNCHANGED saved
  PROVE  PInv'
<1>1. s \in Loops /\ s # "save" /\ p \in Pairs
  BY DEF Loops, PInv, PipelineTypeOK, Work, Pairs
<1>2. /\ Running /\ stage = s /\ stage' = s /\ status' = "none"
      /\ UNCHANGED <<world, unloaded, loaded, issues>>
      /\ Reach' = Reach
      /\ Through(s)' = Through(s) \cup ({p} \cap Reach[s])
      /\ p \notin Through(s)
      /\ \A t \in Loops \ {s} : Through(t)' = Through(t)
      /\ DictionariesSoFar' /\ IssuesSoFar'
      /\ todo' = todo \ {p} /\ todo \subseteq Work
  BY <1>1, OneItem
<1>3. Failure(p, s) \in Results /\ ~Failure(p, s).ok
  BY <1>1, ResultFields DEF Failure
<1>4. Successes' = Successes
  BY <1>3 DEF Judge, Successes
<1>5. /\ saved' = {Output(r.pair)' : r \in Successes'}
      /\ \A r \in Successes' : r.pair \in Reach["save"]' /\ fate[r.pair]' = "ok"
  BY <1>2, <1>4, NoSaveStep
<1>6. PipelineTypeOK'
  <2>1. results' \subseteq Results /\ passed' \subseteq Work
    BY <1>3 DEF Judge, PInv, PipelineTypeOK
  <2>2. QED
    BY <1>2, <2>1 DEF PInv, PipelineTypeOK, world, Work, Pairs, Results, Stages, Statuses
<1>7. ResultsSoFar'
  <2>1. Results' = Results /\ Work' = Work
    BY <1>2 DEF Results, Work, Pairs, world
  <2>2. ASSUME NEW r \in Results
        PROVE  Due(r)' <=> Due(r) \/ (r.at = s /\ ~r.ok /\ r.pair = p /\ fate[p] = s)
    BY <1>1, <1>2, <2>1 DEF Due, world, Loops
  <2>3. \A r \in Results : r = Failure(p, s) <=> r.at = s /\ ~r.ok /\ r.pair = p
    BY <1>1, ResultFields DEF Failure
  <2>4. \A r \in Results :
          r \in results' <=> r \in results \/ (r = Failure(p, s) /\ fate[p] = s)
    BY DEF Judge
  <2>5. QED
    BY <1>2, <2>1, <2>2, <2>3, <2>4 DEF PInv, ResultsSoFar
<1>8. LoopsSoFar'
  <2>1. passed = {q \in Through(s) : fate[q] # s}
    BY <1>2 DEF PInv, LoopsSoFar
  <2>2. passed' = {q \in Through(s)' : fate[q] # s}
    BY <1>2, <2>1 DEF Judge
  <2>3. QED
    BY <1>1, <1>2, <2>2 DEF PInv, LoopsSoFar, world, Loops
<1>9. QED
  BY <1>1, <1>2, <1>5, <1>6, <1>7, <1>8 DEF PInv, Loops, Ended

\* Past the dictionary loop, `dictionaries` has a key for every tag read.
LEMMA LoadedTags ==
  ASSUME PInv, stage \in Loops, NEW p \in Work
  PROVE  tag[p[2]] \in loaded <=> p \in Reach["translate"]
BY DEF PInv, Running, Ended, Loops, DictionariesSoFar, Reach

\* The translation loop.
LEMMA TheTranslationLoop ==
  ASSUME PInv, NEW p \in Work, Translate(p)
  PROVE  PInv'
<1>1. Take(p, "translate") /\ stage = "translate" /\ stage \in Loops /\ UNCHANGED saved
  BY DEF Translate, Take, Loops
<1>2. CASE tag[p[2]] \in loaded
  BY <1>1, <1>2, LoadedTags, Judged DEF Translate
<1>3. CASE tag[p[2]] \notin loaded
  <2>1. UNCHANGED <<passed, results>> /\ p \notin Reach["translate"]
    BY <1>1, <1>3, LoadedTags DEF Translate
  <2>2. /\ Running /\ stage' = "translate" /\ status' = "none"
        /\ UNCHANGED <<world, unloaded, loaded, issues>>
        /\ Reach' = Reach
        /\ Through("translate")' = Through("translate") \cup ({p} \cap Reach["translate"])
        /\ \A t \in Loops \ {"translate"} : Through(t)' = Through(t)
        /\ DictionariesSoFar' /\ IssuesSoFar'
        /\ todo' = todo \ {p} /\ todo \subseteq Work
    BY <1>1, OneItem
  <2>3. \A t \in Loops : Through(t)' = Through(t)
    BY <2>1, <2>2
  <2>4. /\ ResultsSoFar'
        /\ saved' = {Output(r.pair)' : r \in Successes'}
        /\ \A r \in Successes' : r.pair \in Reach["save"]' /\ fate[r.pair]' = "ok"
    BY <1>1, <2>1, <2>2, <2>3, NoResultStep
  <2>5. PipelineTypeOK'
    BY <1>1, <2>1, <2>2 DEF PInv, PipelineTypeOK, world, Work, Pairs, Results, Stages, Statuses
  <2>6. LoopsSoFar'
    BY <1>1, <2>1, <2>2, <2>3 DEF PInv, LoopsSoFar, world, Loops
  <2>7. QED
    BY <2>2, <2>4, <2>5, <2>6 DEF PInv
<1>4. QED
  BY <1>2, <1>3

\* The verification loop.
LEMMA TheVerificationLoop ==
  ASSUME PInv, NEW p \in Work, Verify(p)
  PROVE  PInv'
<1>1. Take(p, "verify") /\ UNCHANGED saved /\ Judge(p, "verify")
  BY DEF Verify
<1>2. p \in Reach["verify"]
  BY <1>1 DEF Take, PInv, Running, Ended, LoopsSoFar
<1>3. QED
  BY <1>1, <1>2, Judged

\* The save loop: a file is written and a success recorded, or neither.
LEMMA TheSaveLoop ==
  ASSUME PInv, NEW p \in Work, Save(p)
  PROVE  PInv'
<1>1. Take(p, "save") /\ UNCHANGED passed /\ "save" \in Loops /\ p \in Pairs
  BY DEF Save, Loops, PInv, PipelineTypeOK, Work, Pairs
<1>2. /\ Running /\ stage = "save" /\ stage' = "save" /\ status' = "none"
      /\ UNCHANGED <<world, unloaded, loaded, issues>>
      /\ Reach' = Reach
      /\ Through("save")' = Through("save") \cup ({p} \cap Reach["save"])
      /\ p \notin Through("save")
      /\ \A t \in Loops \ {"save"} : Through(t)' = Through(t)
      /\ DictionariesSoFar' /\ IssuesSoFar'
      /\ todo' = todo \ {p} /\ todo \subseteq Work
  BY <1>1, OneItem
<1>3. p \in Reach["save"] /\ fate[p] \in {"save", "ok"}
  <2>1. p \in Reach["save"]
    BY <1>1, <1>2 DEF Take, PInv, LoopsSoFar
  <2>2. fate[p] \in Loops \cup {"ok"}
    BY <1>1 DEF PInv, PipelineTypeOK
  <2>3. QED
    BY <2>1, <2>2 DEF Reach, Loops
<1>4. \A q : Output(q)' = Output(q)
  BY <1>2 DEF Output, world
<1>5. LoopsSoFar'
  BY <1>1, <1>2 DEF PInv, LoopsSoFar, Loops
<1>6. Results' = Results /\ Work' = Work
  BY <1>2 DEF Results, Work, Pairs, world
<1>7. /\ Failure(p, "save") \in Results /\ ~Failure(p, "save").ok
      /\ Success(p) \in Results /\ Success(p).ok /\ Success(p).pair = p
  BY <1>1, ResultFields DEF Failure, Success
<1>8. CASE fate[p] = "save"
  <2>1. results' = results \cup {Failure(p, "save")} /\ UNCHANGED saved
    BY <1>8 DEF Save
  <2>2. Successes' = Successes
    BY <1>7, <2>1 DEF Successes
  <2>3. /\ saved' = {Output(r.pair)' : r \in Successes'}
        /\ \A r \in Successes' : r.pair \in Reach["save"]' /\ fate[r.pair]' = "ok"
    BY <1>2, <2>1, <2>2, NoSaveStep
  <2>4. PipelineTypeOK'
    BY <1>1, <1>2, <1>6, <1>7, <2>1 DEF PInv, PipelineTypeOK, world, Stages, Statuses
  <2>5. ASSUME NEW r \in Results
        PROVE  Due(r)' <=> Due(r) \/ (r.at = "save" /\ ~r.ok /\ r.pair = p)
    BY <1>2, <1>3, <1>6, <1>8 DEF Due, world, Loops
  <2>6. \A r \in Results : r = Failure(p, "save") <=> r.at = "save" /\ ~r.ok /\ r.pair = p
    BY <1>1, ResultFields DEF Failure
  <2>7. ResultsSoFar'
    BY <1>2, <1>6, <2>1, <2>5, <2>6 DEF PInv, ResultsSoFar
  <2>8. QED
    BY <1>2, <1>5, <2>3, <2>4, <2>7 DEF PInv
<1>9. CASE fate[p] = "ok"
  <2>1. results' = results \cup {Success(p)} /\ saved' = saved \cup {Output(p)}
    BY <1>9 DEF Save
  <2>2. Successes' = Successes \cup {Success(p)}
    BY <1>7, <2>1 DEF Successes
  <2>3. /\ saved' = {Output(r.pair)' : r \in Successes'}
        /\ \A r \in Successes' : r.pair \in Reach["save"]' /\ fate[r.pair]' = "ok"
    BY <1>2, <1>3, <1>4, <1>7, <1>9, <2>1, <2>2 DEF PInv, world
  <2>4. PipelineTypeOK'
    <3>1. Output(p) \in Files \X Tags
      BY <1>1 DEF Output, Pairs, PInv, PipelineTypeOK
    <3>2. QED
      BY <1>1, <1>2, <1>6, <1>7, <2>1, <3>1 DEF PInv, PipelineTypeOK, world, Stages, Statuses
  <2>5. ASSUME NEW r \in Results
        PROVE  Due(r)' <=> Due(r) \/ (r.at = "save" /\ r.ok /\ r.pair = p)
    BY <1>2, <1>3, <1>6, <1>9 DEF Due, world, Loops
  <2>6. \A r \in Results : r = Success(p) <=> r.at = "save" /\ r.ok /\ r.pair = p
    BY <1>1, ResultFields DEF Success
  <2>7. ResultsSoFar'
    BY <1>2, <1>6, <2>1, <2>5, <2>6 DEF PInv, ResultsSoFar
  <2>8. QED
    BY <1>2, <1>5, <2>3, <2>4, <2>7 DEF PInv
<1>10. QED
  BY <1>3, <1>8, <1>9

\* The normal end.
LEMMA TheEnd ==
  ASSUME PInv, Complete
  PROVE  PInv'
<1> USE DEF Complete
<1>1. Running /\ stage = "save" /\ stage' = "done" /\ todo = {}
  BY DEF PInv, Running, Ended
<1>2. UNCHANGED <<world, unloaded, loaded, todo, passed, results, issues, saved>> /\ status' = Aggregate
  OBVIOUS
<1>3. Reach' = Reach
  BY <1>2 DEF Reach, Work, world
<1>4. \A s \in Loops : Through(s)' = Through(s)
  BY <1>1, <1>3 DEF Through, After, Loops
<1>5. /\ ResultsSoFar'
      /\ saved' = {Output(r.pair)' : r \in Successes'}
      /\ \A r \in Successes' : r.pair \in Reach["save"]' /\ fate[r.pair]' = "ok"
  BY <1>1, <1>2, <1>4, NoResultStep
<1>6. Aggregate' = Aggregate /\ Aggregate \in Statuses
  BY <1>2 DEF Aggregate, Successes, Failures, Statuses
<1>7. PipelineTypeOK'
  BY <1>1, <1>2, <1>6 DEF PInv, PipelineTypeOK, world, Work, Pairs, Results, Stages, Ended
<1>8. DictionariesSoFar' /\ IssuesSoFar' /\ LoopsSoFar'
  BY <1>1, <1>2 DEF PInv, DictionariesSoFar, IssuesSoFar, LoopsSoFar, world, Work, Loops
<1>9. QED
  BY <1>1, <1>2, <1>5, <1>6, <1>7, <1>8 DEF PInv, Ended

\* A cancellation or an exception: what is there stays as it is.
LEMMA CutShort ==
  ASSUME PInv, Stop \/ Escape \/ (\E p \in Work : FailMutely(p))
  PROVE  PInv'
<1>1. UNCHANGED <<world, unloaded, loaded, todo, passed, results, issues, saved>>
  BY DEF Stop, Escape, FailMutely
<1>2. /\ stage' \in Ended
      /\ status' \in {"cancelled", status}
      /\ stage' = "raised" \/ status' = "cancelled"
  BY DEF Stop, Escape, FailMutely, Ended
<1>3. Successes' = Successes
  BY <1>1 DEF Successes
<1>4. PipelineTypeOK'
  BY <1>1, <1>2 DEF PInv, PipelineTypeOK, world, Work, Pairs, Results, Stages, Statuses
<1>5. QED
  BY <1>1, <1>2, <1>3, <1>4, NoSaveStep DEF PInv, Running

\* No step.
LEMMA Standstill ==
  ASSUME PInv, UNCHANGED pipelineVars
  PROVE  PInv'
<1>1. /\ UNCHANGED <<world, stage, unloaded, loaded, todo, passed>>
      /\ UNCHANGED <<results, issues, saved, status>>
  BY DEF pipelineVars
<1>2. Successes' = Successes /\ Aggregate' = Aggregate
  BY <1>1 DEF Successes, Failures, Aggregate
<1>3. PipelineTypeOK'
  BY <1>1 DEF PInv, PipelineTypeOK, world, Work, Pairs, Results, Stages, Statuses
<1>4. ASSUME Running
      PROVE  DictionariesSoFar' /\ IssuesSoFar' /\ ResultsSoFar' /\ LoopsSoFar'
  <2>1. Reach' = Reach
    BY <1>1 DEF Reach, Work, world
  <2>2. \A s : Through(s)' = Through(s)
    BY <1>1, <2>1 DEF Through
  <2>3. ResultsSoFar'
    BY <1>1, <1>4, <2>2, NoResultStep
  <2>4. DictionariesSoFar' /\ IssuesSoFar' /\ LoopsSoFar'
    BY <1>1, <1>4, <2>1, <2>2 DEF PInv, DictionariesSoFar, IssuesSoFar, LoopsSoFar, world, Work
  <2>5. QED
    BY <2>3, <2>4
<1>5. QED
  BY <1>1, <1>2, <1>3, <1>4, NoSaveStep DEF PInv, Running

-----------------------------------------------------------------------------
(* The theorems.                                                           *)

\* The bookkeeping invariant holds in every run.
THEOREM PipelineInvariance == PipelineSpec => []PInv
<1>1. PipelineInit => PInv
  BY PipelineInitially
<1>2. PInv /\ [PipelineNext]_pipelineVars => PInv'
  <2> SUFFICES ASSUME PInv, [PipelineNext]_pipelineVars PROVE PInv'
    OBVIOUS
  <2>1. CASE Validate \/ Fetch
    BY <2>1, BeforeTheLoops
  <2>2. CASE \E e \in Entries : LoadDictionary(e)
    BY <2>2, TheDictionaryLoop
  <2>3. CASE StartTranslating \/ StartNext("translate", "verify") \/ StartNext("verify", "save")
    BY <2>3, BetweenTheLoops
  <2>4. CASE \E p \in Work : Translate(p)
    BY <2>4, TheTranslationLoop
  <2>5. CASE \E p \in Work : Verify(p)
    BY <2>5, TheVerificationLoop
  <2>6. CASE \E p \in Work : Save(p)
    BY <2>6, TheSaveLoop
  <2>7. CASE Complete
    BY <2>7, TheEnd
  <2>8. CASE Stop \/ Escape \/ (\E p \in Work : FailMutely(p))
    BY <2>8, CutShort
  <2>9. CASE UNCHANGED pipelineVars
    BY <2>9, Standstill
  <2>10. QED
    BY <2>1, <2>2, <2>3, <2>4, <2>5, <2>6, <2>7, <2>8, <2>9 DEF PipelineNext, Advance
<1>3. QED
  BY <1>1, <1>2, PTL DEF PipelineSpec

\* At the end every item is through with the loops it reaches.
LEMMA AtTheEnd ==
  ASSUME PInv, Finished
  PROVE  /\ \A s \in Loops : Through(s) = Reach[s]
         /\ \A p \in Work : p[2] \notin unloaded
         /\ Work \subseteq Pairs
         /\ \A r \in Results : r \in results <=> Due(r)
         /\ issues <=> reachable # Files \/ reachable = {} \/ \E e \in Entries \ unloaded : e \notin readable
         /\ status = Aggregate
<1>1. Running /\ stage = "done"
  BY DEF Finished, Running
<1>2. QED
  BY <1>1 DEF PInv, PipelineTypeOK, DictionariesSoFar, IssuesSoFar, ResultsSoFar, Through, After,
     Loops, Work, Pairs

\* The outputs written are those of the items that reached the disk.
LEMMA SavedAtTheEnd ==
  ASSUME PInv, Finished, NEW p \in Work, p \in Reach["save"], fate[p] = "ok"
  PROVE  Success(p) \in Successes /\ Output(p) \in saved
<1>1. Success(p) \in Results /\ Success(p).ok /\ Success(p).at = "save" /\ Success(p).pair = p
  BY AtTheEnd, ResultFields DEF Success
<1>2. Success(p) \in Successes
  BY <1>1, AtTheEnd DEF Due, Successes, Loops
<1>3. QED
  BY <1>1, <1>2 DEF PInv

\* Every file fetched has its results in every language, whatever fails.
THEOREM Accounting == PipelineSpec => []AccountedFor
<1>1. PInv => AccountedFor
  <2> SUFFICES ASSUME PInv, Finished, NEW p \in Work
               PROVE  /\ \E r \in results : r.pair = p
                      /\ Distinct => \A q, r \in results : q.pair = p /\ r.pair = p => q = r
    BY DEF AccountedFor
  <2>1. p \in Pairs /\ p[2] \in Entries \ unloaded /\ results \subseteq Results /\ readable \subseteq Entries
    BY AtTheEnd DEF PInv, PipelineTypeOK, Work
  <2>2. fate[p] \in Loops \cup {"ok"}
    BY <2>1 DEF PInv, PipelineTypeOK
  <2>3. /\ \A s \in {"dictionary"} \cup Loops : /\ Failure(p, s) \in Results
                                                /\ Failure(p, s).pair = p
                                                /\ Failure(p, s).at = s
                                                /\ ~Failure(p, s).ok
        /\ Success(p) \in Results /\ Success(p).pair = p /\ Success(p).at = "save" /\ Success(p).ok
    BY <2>1, ResultFields DEF Failure, Success
  <2>4. \E r \in results : r.pair = p
    <3>1. CASE p[2] \notin readable
      <4>1. Due(Failure(p, "dictionary"))
        BY <2>1, <2>3, <3>1 DEF Due
      <4>2. QED
        BY <2>3, <4>1, AtTheEnd
    <3>2. CASE p[2] \in readable /\ fate[p] = "ok"
      <4>1. p \in Reach["save"]
        BY <2>1, <3>2 DEF Reach, Loops
      <4>2. QED
        BY <2>3, <3>2, <4>1, SavedAtTheEnd DEF Successes
    <3>3. CASE p[2] \in readable /\ fate[p] \in Loops
      <4>1. p \in Reach[fate[p]]
        BY <2>1, <3>3 DEF Reach, Loops
      <4>2. p \in Through(fate[p])
        BY <3>3, <4>1, AtTheEnd
      <4>3. Due(Failure(p, fate[p]))
        BY <2>3, <3>3, <4>2 DEF Due
      <4>4. QED
        BY <2>3, <3>3, <4>3, AtTheEnd
    <3>4. QED
      BY <2>2, <3>1, <3>2, <3>3
  <2>5. ASSUME Distinct, NEW q \in results, NEW r \in results, q.pair = p, r.pair = p
        PROVE  q = r
    <3>1. p \in Reach["translate"] => p[2] \in readable
      BY <2>1, <2>5 DEF Reach, Loops, Distinct
    <3>2. \A s \in Loops : p \in Reach[s] => p \in Reach["translate"]
      BY DEF Reach, Loops
    <3>3. ASSUME NEW x \in results, x.pair = p
          PROVE  \/ x.at = "dictionary" /\ ~x.ok /\ p[2] \notin readable
                 \/ x.at \in Loops /\ ~x.ok /\ p[2] \in readable /\ fate[p] = x.at
                 \/ x.at = "save" /\ x.ok /\ p[2] \in readable /\ fate[p] = "ok"
      <4>1. Due(x)
        BY <2>1, AtTheEnd
      <4>2. \A s \in Loops : Through(s) = Reach[s]
        BY AtTheEnd
      <4>3. QED
        BY <3>1, <3>2, <3>3, <4>1, <4>2 DEF Due, Loops
    <3>4. q \in Results /\ r \in Results
      BY <2>1
    <3>5. CASE q.ok
      <4>1. q.at = "save" /\ r.ok /\ r.at = "save"
        BY <2>5, <3>3, <3>5 DEF Loops
      <4>2. QED
        BY <2>5, <3>4, <3>5, <4>1, ResultFields
    <3>6. CASE ~q.ok
      <4>1. ~r.ok /\ r.at = q.at
        BY <2>5, <3>3, <3>6 DEF Loops
      <4>2. QED
        BY <2>5, <3>4, <3>6, <4>1, ResultFields
    <3>7. QED
      BY <3>5, <3>6
  <2>6. QED
    BY <2>4, <2>5
<1>2. QED
  BY <1>1, PipelineInvariance, PTL

\* Only the outputs of items that nothing went wrong with are written.
LEMMA WrittenOutputs ==
  ASSUME PInv, NEW o \in saved
  PROVE  \E p \in Work : Output(p) = o /\ p \in Reach["save"] /\ fate[p] = "ok"
BY DEF PInv, Reach, Loops

\* What becomes of a file and a language depends on nothing else.
THEOREM Isolation == PipelineSpec => []FailuresAreIsolated
<1>1. PInv => FailuresAreIsolated
  <2> SUFFICES ASSUME PInv PROVE FailuresAreIsolated
    OBVIOUS
  <2>1. readable \subseteq Entries /\ Work \subseteq Pairs
    BY DEF PInv, PipelineTypeOK, Work, Pairs
  <2>2. ASSUME Finished, NEW p \in Work, p[2] \in readable, fate[p] = "ok"
        PROVE  Output(p) \in saved
    <3>1. p \in Reach["save"]
      BY <2>2 DEF Reach, Loops
    <3>2. QED
      BY <2>2, <3>1, SavedAtTheEnd
  <2>3. \A o \in saved : \E p \in Work : Output(p) = o /\ fate[p] = "ok"
    BY WrittenOutputs
  <2>4. ASSUME Distinct, NEW p \in Pairs, Output(p) \in saved
        PROVE  p \in Work /\ p[2] \in readable /\ fate[p] = "ok"
    <3>1. PICK q \in Work : Output(q) = Output(p) /\ q \in Reach["save"] /\ fate[q] = "ok"
      BY <2>4, WrittenOutputs
    <3>2. q \in Pairs /\ q[1] = p[1] /\ tag[q[2]] = tag[p[2]]
      BY <2>1, <3>1 DEF Output
    <3>3. q = p
      BY <2>4, <3>2 DEF Distinct, Pairs
    <3>4. \E e \in readable : tag[e] = tag[p[2]]
      BY <3>1, <3>3 DEF Reach, Loops
    <3>5. p[2] \in readable
      BY <2>1, <2>4, <3>4 DEF Distinct, Pairs
    <3>6. QED
      BY <3>1, <3>3, <3>5
  <2>5. QED
    BY <2>2, <2>3, <2>4 DEF FailuresAreIsolated
<1>2. QED
  BY <1>1, PipelineInvariance, PTL

\* "succeeded" exactly if nothing went wrong, "failed" exactly if nothing
\* was written.
THEOREM Honesty == PipelineSpec => []StatusIsHonest
<1> DEFINE Flawless == /\ reachable = Files /\ Files # {}
                       /\ readable = Entries
                       /\ \A p \in Pairs : fate[p] = "ok"
<1>1. PInv => StatusIsHonest
  <2> SUFFICES ASSUME PInv, Finished
               PROVE  /\ status = "succeeded" <=> Flawless
                      /\ status = "succeeded" => saved = {Output(p) : p \in Pairs}
                      /\ status = "failed" <=> saved = {}
    BY DEF StatusIsHonest
  <2>1. status = Aggregate
    BY AtTheEnd
  <2>2. saved = {} <=> Successes = {}
    BY DEF PInv
  <2>3. /\ readable \subseteq Entries /\ reachable \subseteq Files /\ results \subseteq Results
        /\ fate \in [Pairs -> Loops \cup {"ok"}]
    BY DEF PInv, PipelineTypeOK
  <2>4. ASSUME status = "succeeded" PROVE Flawless
    <3>1. Successes # {} /\ Failures = {} /\ ~issues
      BY <2>1, <2>4 DEF Aggregate
    <3>2. reachable = Files /\ Files # {} /\ Work = Pairs
      BY <3>1, AtTheEnd DEF Work, Pairs
    <3>3. readable = Entries
      <4>1. \A e \in Entries : e \notin unloaded
        <5>1. PICK f \in Files : TRUE
          BY <3>2
        <5>2. \A e \in Entries : <<f, e>> \in Work
          BY <3>2, <5>1 DEF Pairs
        <5>3. QED
          BY <5>2, AtTheEnd
      <4>2. QED
        BY <2>3, <3>1, <4>1, AtTheEnd
    <3>4. ASSUME NEW p \in Pairs PROVE fate[p] = "ok"
      <4>1. SUFFICES ASSUME fate[p] \in Loops PROVE FALSE
        BY <2>3
      <4>2. p \in Reach[fate[p]]
        BY <3>2, <3>3, <4>1 DEF Reach, Loops, Pairs
      <4>3. /\ Failure(p, fate[p]) \in Results /\ ~Failure(p, fate[p]).ok
            /\ Failure(p, fate[p]).pair = p /\ Failure(p, fate[p]).at = fate[p]
        BY <4>1, ResultFields DEF Failure
      <4>4. p \in Through(fate[p])
        BY <4>1, <4>2, AtTheEnd
      <4>5. Due(Failure(p, fate[p]))
        BY <4>1, <4>3, <4>4 DEF Due
      <4>6. QED
        BY <3>1, <4>3, <4>5, AtTheEnd DEF Failures
    <3>5. QED
      BY <3>2, <3>3, <3>4
  <2>5. ASSUME Flawless
        PROVE  status = "succeeded" /\ saved = {Output(p) : p \in Pairs}
    <3>1. Work = Pairs
      BY <2>5 DEF Work, Pairs
    <3>2. \A p \in Pairs : p \in Reach["save"]
      BY <2>5, <3>1 DEF Reach, Loops, Pairs
    <3>3. \A p \in Pairs : Success(p) \in Successes /\ Output(p) \in saved
      BY <2>5, <3>1, <3>2, SavedAtTheEnd
    <3>4. \A o \in saved : \E p \in Pairs : Output(p) = o
      BY <3>1, WrittenOutputs
    <3>5. Successes # {}
      <4>1. PICK f \in Files, e \in Entries : <<f, e>> \in Pairs
        BY <2>5, EntriesAssumption DEF Pairs
      <4>2. QED
        BY <3>3, <4>1
    <3>6. Failures = {}
      <4>1. SUFFICES ASSUME NEW r \in results, ~r.ok PROVE FALSE
        BY DEF Failures
      <4>2. Due(r) /\ r.pair \in Pairs
        BY <2>3, AtTheEnd DEF Results
      <4>3. QED
        BY <2>5, <4>1, <4>2 DEF Due, Loops, Pairs
    <3>7. ~issues
      BY <2>5, AtTheEnd
    <3>8. QED
      BY <2>1, <3>3, <3>4, <3>5, <3>6, <3>7 DEF Aggregate
  <2>6. status = "failed" <=> Successes = {}
    BY <2>1 DEF Aggregate
  <2>7. QED
    BY <2>2, <2>4, <2>5, <2>6
<1>2. QED
  BY <1>1, PipelineInvariance, PTL
=============================================================================
