----------------------- MODULE TranslationCacheProofs -----------------------
(***************************************************************************)
(* Proofs about TranslationCache, for any number of instances, keys, paths *)
(* and fingerprints, whichever keys and paths they share.                  *)
(***************************************************************************)
EXTENDS TranslationCache, TLAPS

Booked ==
  /\ \A i \in Instances : pc[i] = "saved" <=> saving[i] # None
  /\ \A i \in Instances : saving[i] # None => saving[i] \in made
  /\ \A p \in Paths : author[p] # None => pc[author[p]] # "closed"
  /\ \A i \in alone : pc[i] # "closed" /\ \A j \in Instances \ {i} : pc[j] = "closed"

AloneHasAll == \A i \in alone, k \in Keys : file[k] # None => entries[i][k] # None

LEMMA Parts ==
  CacheInv <=> CacheTypeOK /\ Booked /\ EntriesWereSaved /\ MineIsRecorded /\ AloneHasAll
BY DEF CacheInv, Booked, AloneHasAll

LEMMA InitHolds == CacheInit => CacheInv
BY NoneAssumption
   DEF CacheInit, CacheInv, CacheTypeOK, EntriesWereSaved, MineIsRecorded, NoEntries

LEMMA TypeStep == CacheTypeOK /\ Booked /\ [CacheNext]_cacheVars => CacheTypeOK'
<1> SUFFICES ASSUME CacheTypeOK, Booked, [CacheNext]_cacheVars PROVE CacheTypeOK'
  OBVIOUS
<1> USE KeyAssumption, PathAssumption, NoneAssumption DEF CacheTypeOK
<1>1. ASSUME NEW i \in Instances, Open(i) PROVE CacheTypeOK'
  BY <1>1 DEF Open
<1>2. ASSUME NEW i \in Instances, NEW f \in Fingerprints, SaveOutput(i, f) PROVE CacheTypeOK'
  BY <1>2 DEF SaveOutput
<1>3. ASSUME NEW i \in Instances, Remember(i), file' \in {file, entries'[i]} PROVE CacheTypeOK'
  <2>1. saving[i] \in Fingerprints
    BY <1>3 DEF Remember, Booked
  <2>2. entries' \in [Instances -> [Keys -> Fingerprints \cup {None}]]
    BY <1>3, <2>1 DEF Remember
  <2>3. QED
    BY <1>3, <2>2 DEF Remember
<1>4. ASSUME NEW i \in Instances, Close(i) PROVE CacheTypeOK'
  BY <1>4 DEF Close, NoEntries
<1>5. ASSUME NEW p \in Paths, Remove(p) PROVE CacheTypeOK'
  BY <1>5 DEF Remove
<1>6. CASE UNCHANGED cacheVars
  BY <1>6 DEF cacheVars
<1>7. QED
  BY <1>1, <1>2, <1>3, <1>4, <1>5, <1>6 DEF CacheNext, Record, RecordFails

LEMMA BookStep == CacheTypeOK /\ Booked /\ [CacheNext]_cacheVars => Booked'
<1> SUFFICES ASSUME CacheTypeOK, Booked, [CacheNext]_cacheVars PROVE Booked'
  OBVIOUS
<1> USE NoneAssumption, PathAssumption DEF CacheTypeOK, Booked
<1>1. ASSUME NEW i \in Instances, Open(i) PROVE Booked'
  BY <1>1 DEF Open
<1>2. ASSUME NEW i \in Instances, NEW f \in Fingerprints, SaveOutput(i, f) PROVE Booked'
  BY <1>2 DEF SaveOutput
<1>3. ASSUME NEW i \in Instances, Remember(i) PROVE Booked'
  BY <1>3 DEF Remember
<1>4. ASSUME NEW i \in Instances, Close(i) PROVE Booked'
  BY <1>4 DEF Close
<1>5. ASSUME NEW p \in Paths, Remove(p) PROVE Booked'
  BY <1>5 DEF Remove
<1>6. CASE UNCHANGED cacheVars
  BY <1>6 DEF cacheVars
<1>7. QED
  BY <1>1, <1>2, <1>3, <1>4, <1>5, <1>6 DEF CacheNext, Record, RecordFails

\* What record_success does to the entries of one instance.
LEMMA Remembered ==
  ASSUME CacheTypeOK, Booked, NEW i \in Instances, Remember(i)
  PROVE  /\ saving[i] \in Fingerprints /\ saving[i] \in made
         /\ KeyOf[saving[i]] \in Keys /\ PathOf[saving[i]] \in Paths
         /\ \A j \in Instances, k \in Keys :
              entries'[j][k] = IF j = i /\ k = KeyOf[saving[i]] THEN saving[i] ELSE entries[j][k]
BY KeyAssumption, PathAssumption DEF CacheTypeOK, Booked, Remember

LEMMA SavedStep ==
  CacheTypeOK /\ Booked /\ EntriesWereSaved /\ [CacheNext]_cacheVars => EntriesWereSaved'
<1> SUFFICES ASSUME CacheTypeOK, Booked, EntriesWereSaved, [CacheNext]_cacheVars
             PROVE  EntriesWereSaved'
  OBVIOUS
<1>1. ASSUME NEW i \in Instances, Open(i) PROVE EntriesWereSaved'
  BY <1>1 DEF Open, EntriesWereSaved, CacheTypeOK
<1>2. ASSUME NEW i \in Instances, NEW f \in Fingerprints, SaveOutput(i, f) PROVE EntriesWereSaved'
  BY <1>2 DEF SaveOutput, EntriesWereSaved
<1>3. ASSUME NEW i \in Instances, Remember(i), file' = file \/ file' = entries'[i]
      PROVE  EntriesWereSaved'
  <2>1. \A j \in Instances, k \in Keys :
          entries'[j][k] = (IF j = i /\ k = KeyOf[saving[i]] THEN saving[i] ELSE entries[j][k])
    BY <1>3, Remembered
  <2>2. saving[i] \in made /\ made' = made
    BY <1>3, Remembered DEF Remember
  <2>3. \A j \in Instances, k \in Keys :
          entries'[j][k] # None => entries'[j][k] \in made /\ KeyOf[entries'[j][k]] = k
    BY <2>1, <2>2 DEF EntriesWereSaved
  <2>4. \A k \in Keys : file'[k] # None => file'[k] \in made /\ KeyOf[file'[k]] = k
    BY <1>3, <2>3 DEF EntriesWereSaved
  <2>5. QED
    BY <2>2, <2>3, <2>4 DEF EntriesWereSaved
<1>4. ASSUME NEW i \in Instances, Close(i) PROVE EntriesWereSaved'
  BY <1>4 DEF Close, EntriesWereSaved, CacheTypeOK, NoEntries
<1>5. ASSUME NEW p \in Paths, Remove(p) PROVE EntriesWereSaved'
  BY <1>5 DEF Remove, EntriesWereSaved
<1>6. CASE UNCHANGED cacheVars
  BY <1>6 DEF cacheVars, EntriesWereSaved
<1>7. QED
  BY <1>1, <1>2, <1>3, <1>4, <1>5, <1>6 DEF CacheNext, Record, RecordFails

LEMMA MineStep ==
  CacheTypeOK /\ Booked /\ MineIsRecorded /\ [CacheNext]_cacheVars => MineIsRecorded'
<1> SUFFICES ASSUME CacheTypeOK, Booked, MineIsRecorded, [CacheNext]_cacheVars
             PROVE  MineIsRecorded'
  OBVIOUS
<1> USE NoneAssumption, KeyAssumption, PathAssumption
<1>1. ASSUME NEW i \in Instances, Open(i) PROVE MineIsRecorded'
  BY <1>1 DEF Open, MineIsRecorded, CacheTypeOK, Booked
<1>2. ASSUME NEW i \in Instances, NEW f \in Fingerprints, SaveOutput(i, f) PROVE MineIsRecorded'
  BY <1>2 DEF SaveOutput, MineIsRecorded, CacheTypeOK, Booked
<1>3. ASSUME NEW i \in Instances, Remember(i) PROVE MineIsRecorded'
  <2> SUFFICES ASSUME NEW j \in Instances, NEW p \in Paths,
                      author[p] = j, output[p] # None,
                      NEW k \in Keys, k = KeyOf[output[p]]
               PROVE  /\ pc'[j] = "saved" /\ PathOf[saving'[j]] = p => output[p] = saving'[j]
                      /\ \/ pc'[j] = "saved" /\ KeyOf[saving'[j]] = k
                         \/ entries'[j][k] = None
                         \/ PathOf[entries'[j][k]] # p
                         \/ entries'[j][k] = output[p]
    BY <1>3 DEF Remember, MineIsRecorded, CacheTypeOK
  <2>1. /\ pc[j] = "saved" /\ PathOf[saving[j]] = p => output[p] = saving[j]
        /\ \/ pc[j] = "saved" /\ KeyOf[saving[j]] = k
           \/ entries[j][k] = None
           \/ PathOf[entries[j][k]] # p
           \/ entries[j][k] = output[p]
    BY DEF MineIsRecorded
  <2>2. CASE j = i
    BY <1>3, <2>1, <2>2, Remembered DEF Remember, CacheTypeOK
  <2>3. CASE j # i
    BY <1>3, <2>1, <2>3, Remembered DEF Remember, CacheTypeOK
  <2>4. QED
    BY <2>2, <2>3
<1>4. ASSUME NEW i \in Instances, Close(i) PROVE MineIsRecorded'
  BY <1>4 DEF Close, MineIsRecorded, CacheTypeOK
<1>5. ASSUME NEW p \in Paths, Remove(p) PROVE MineIsRecorded'
  BY <1>5 DEF Remove, MineIsRecorded, CacheTypeOK
<1>6. CASE UNCHANGED cacheVars
  BY <1>6 DEF cacheVars, MineIsRecorded
<1>7. QED
  BY <1>1, <1>2, <1>3, <1>4, <1>5, <1>6 DEF CacheNext, Record, RecordFails

LEMMA AloneStep ==
  CacheTypeOK /\ Booked /\ AloneHasAll /\ [CacheNext]_cacheVars => AloneHasAll'
<1> SUFFICES ASSUME CacheTypeOK, Booked, AloneHasAll, [CacheNext]_cacheVars
             PROVE  AloneHasAll'
  OBVIOUS
<1>1. ASSUME NEW i \in Instances, Open(i) PROVE AloneHasAll'
  BY <1>1 DEF Open, AloneHasAll, CacheTypeOK
<1>2. ASSUME NEW i \in Instances, NEW f \in Fingerprints, SaveOutput(i, f) PROVE AloneHasAll'
  BY <1>2 DEF SaveOutput, AloneHasAll
<1>3. ASSUME NEW i \in Instances, Remember(i), file' = file \/ file' = entries'[i]
      PROVE  AloneHasAll'
  <2>1. \A j \in alone : j = i
    BY <1>3 DEF Remember, Booked, CacheTypeOK
  <2>2. \A k \in Keys : entries'[i][k] = (IF k = KeyOf[saving[i]] THEN saving[i] ELSE entries[i][k])
    BY <1>3, Remembered
  <2>3. saving[i] # None
    BY <1>3, Remembered, NoneAssumption
  <2>4. \A k \in Keys : i \in alone /\ file'[k] # None => entries'[i][k] # None
    BY <1>3, <2>2, <2>3 DEF AloneHasAll
  <2>5. alone' = alone
    BY <1>3 DEF Remember
  <2>6. QED
    BY <2>1, <2>4, <2>5 DEF AloneHasAll
<1>4. ASSUME NEW i \in Instances, Close(i) PROVE AloneHasAll'
  BY <1>4 DEF Close, AloneHasAll, CacheTypeOK
<1>5. ASSUME NEW p \in Paths, Remove(p) PROVE AloneHasAll'
  BY <1>5 DEF Remove, AloneHasAll
<1>6. CASE UNCHANGED cacheVars
  BY <1>6 DEF cacheVars, AloneHasAll
<1>7. QED
  BY <1>1, <1>2, <1>3, <1>4, <1>5, <1>6 DEF CacheNext, Record, RecordFails

\* CacheInv holds at every moment.
THEOREM CacheInvariance == CacheSpec => []CacheInv
<1>1. CacheInv /\ [CacheNext]_cacheVars => CacheInv'
  BY Parts, TypeStep, BookStep, SavedStep, MineStep, AloneStep
     DEF CacheInv, Booked, AloneHasAll
<1>2. QED
  BY <1>1, InitHolds, PTL DEF CacheSpec

\* Nothing is vouched for, in the file or in memory, that was not saved.
THEOREM SavedBeforeRecorded == CacheSpec => []EntriesWereSaved
<1>1. CacheInv => EntriesWereSaved
  BY DEF CacheInv
<1>2. QED
  BY <1>1, CacheInvariance, PTL

\* An instance never mistakes an output it wrote for another version's.
THEOREM OwnWork == CacheSpec => []OwnWorkIsFresh
<1>1. CacheInv => OwnWorkIsFresh
  <2> SUFFICES ASSUME CacheInv, NEW i \in Instances, NEW f \in Fingerprints,
                      pc[i] = "open", Hit(i, f), author[PathOf[f]] = i,
                      KeyOf[output[PathOf[f]]] = KeyOf[f]
               PROVE  output[PathOf[f]] = f
    BY DEF OwnWorkIsFresh
  <2>1. entries[i][KeyOf[f]] = f /\ output[PathOf[f]] # None
    BY DEF Hit, Outcome
  <2>2. PathOf[f] \in Paths /\ f # None
    BY PathAssumption, NoneAssumption
  <2>3. QED
    BY <2>1, <2>2 DEF CacheInv, MineIsRecorded
<1>2. QED
  BY <1>1, CacheInvariance, PTL

\* Only an instance that had company drops what the file holds.
THEOREM LossTakesTwo == CacheSpec => LossNeedsCompany
<1> DEFINE Kept ==
      \A k \in Keys :
        file[k] # None /\ file'[k] = None =>
          \E i \in Instances \ alone : pc[i] = "saved" /\ pc'[i] = "open"
<1>1. CacheInv /\ [CacheNext]_cacheVars => [Kept]_cacheVars
  <2> SUFFICES ASSUME CacheInv, CacheNext,
                      NEW k \in Keys, file[k] # None, file'[k] = None
               PROVE  \E i \in Instances \ alone : pc[i] = "saved" /\ pc'[i] = "open"
    OBVIOUS
  <2>1. PICK i \in Instances : Record(i)
    BY DEF CacheNext, Open, SaveOutput, RecordFails, Close, Remove
  <2>2. CacheTypeOK /\ Booked /\ AloneHasAll
    BY Parts
  <2>3. i \notin alone
    BY <2>1, <2>2, Remembered, NoneAssumption DEF Record, AloneHasAll
  <2>4. pc[i] = "saved" /\ pc'[i] = "open"
    BY <2>1, <2>2 DEF Record, Remember, CacheTypeOK
  <2>5. QED
    BY <2>3, <2>4
<1>2. QED
  BY <1>1, CacheInvariance, PTL DEF CacheSpec, LossNeedsCompany
=============================================================================
