-------------------------- MODULE TranslationCache --------------------------
(***************************************************************************)
(* The fingerprint cache and the atomic storage it goes with: several      *)
(* instances of TranslationCache over one cache file, each a process of    *)
(* its own that may die between any two steps.                             *)
(*                                                                         *)
(* An instance reads the file once, when it is made, and from then on      *)
(* answers from what it has in memory and rewrites the whole file from it. *)
(* Outputs are saved before they are recorded, by the two renames of       *)
(* save_output_and_record.  A file that is absent, or of another version,  *)
(* reads as one without entries, and is modelled as such.                  *)
(***************************************************************************)
EXTENDS Naturals

CONSTANTS
  Instances,      \* the processes with a TranslationCache
  Fingerprints,   \* complete fingerprints
  Keys,           \* repository, branch, source path and language
  Paths,          \* output paths
  KeyOf,          \* cache_key: the part of a fingerprint that scopes it
  PathOf,         \* a fingerprint's output_path
  None

ASSUME KeyAssumption == KeyOf \in [Fingerprints -> Keys]
ASSUME PathAssumption == PathOf \in [Fingerprints -> Paths]
ASSUME NoneAssumption == None \notin Fingerprints /\ None \notin Instances

VARIABLES
  file,      \* the entries of the cache file
  output,    \* per path, the fingerprint of the translation stored there
  pc,        \* per instance: "closed", "open", or "saved" between the renames
  entries,   \* _entries, per instance
  saving,    \* the fingerprint being recorded, per instance
  made,      \* observed only: the fingerprints that were ever saved
  author,    \* observed only: the open instance that last wrote a path
  alone      \* observed only: the instances with no other beside them so far

cacheVars == <<file, output, pc, entries, saving, made, author, alone>>

NoEntries == [k \in Keys |-> None]

CacheTypeOK ==
  /\ file \in [Keys -> Fingerprints \cup {None}]
  /\ output \in [Paths -> Fingerprints \cup {None}]
  /\ pc \in [Instances -> {"closed", "open", "saved"}]
  /\ entries \in [Instances -> [Keys -> Fingerprints \cup {None}]]
  /\ saving \in [Instances -> Fingerprints \cup {None}]
  /\ made \subseteq Fingerprints
  /\ author \in [Paths -> Instances \cup {None}]
  /\ alone \subseteq Instances

CacheInit ==
  /\ file = NoEntries
  /\ output = [p \in Paths |-> None]
  /\ pc = [i \in Instances |-> "closed"]
  /\ entries = [i \in Instances |-> NoEntries]
  /\ saving = [i \in Instances |-> None]
  /\ made = {}
  /\ author = [p \in Paths |-> None]
  /\ alone = {}

\* lookup: an entry of the key, for the whole fingerprint, with its output.
Outcome(i, f) ==
  IF entries[i][KeyOf[f]] = None THEN "missing"
  ELSE IF entries[i][KeyOf[f]] # f THEN "fingerprint_changed"
  ELSE IF output[PathOf[f]] = None THEN "output_missing"
  ELSE "hit"

-----------------------------------------------------------------------------

\* TranslationCache(path).
Open(i) ==
  /\ pc[i] = "closed"
  /\ pc' = [pc EXCEPT ![i] = "open"]
  /\ entries' = [entries EXCEPT ![i] = file]
  /\ alone' = IF \A j \in Instances : pc[j] = "closed" THEN {i} ELSE {}
  /\ UNCHANGED <<file, output, saving, made, author>>

\* A mistake: the record comes before the output.
RecordThenSave(i, f) ==
  /\ pc[i] = "open"
  /\ pc' = [pc EXCEPT ![i] = "saved"]
  /\ saving' = [saving EXCEPT ![i] = f]
  /\ entries' = [entries EXCEPT ![i][KeyOf[f]] = f]
  /\ file' = entries'[i]
  /\ UNCHANGED <<output, made, author, alone>>

\* atomic_write_text of the output; one that fails leaves what was there.
SaveOutput(i, f) ==
  /\ pc[i] = "open"
  /\ pc' = [pc EXCEPT ![i] = "saved"]
  /\ saving' = [saving EXCEPT ![i] = f]
  /\ output' = [output EXCEPT ![PathOf[f]] = f]
  /\ author' = [author EXCEPT ![PathOf[f]] = i]
  /\ made' = made \cup {f}
  /\ UNCHANGED <<file, entries, alone>>

Remember(i) ==
  /\ pc[i] = "saved"
  /\ pc' = [pc EXCEPT ![i] = "open"]
  /\ saving' = [saving EXCEPT ![i] = None]
  /\ entries' = [entries EXCEPT ![i][KeyOf[saving[i]]] = saving[i]]
  /\ UNCHANGED <<output, made, author, alone>>

\* A mistake: an entry that is there already is kept.
RecordFirst(i) ==
  /\ pc[i] = "saved"
  /\ pc' = [pc EXCEPT ![i] = "open"]
  /\ saving' = [saving EXCEPT ![i] = None]
  /\ entries' = [entries EXCEPT ![i][KeyOf[saving[i]]] = IF @ = None THEN saving[i] ELSE @]
  /\ file' = entries'[i]
  /\ UNCHANGED <<output, made, author, alone>>

\* A mistake: only the new entry is written to the file.
RecordOnly(i) ==
  /\ Remember(i)
  /\ file' = [NoEntries EXCEPT ![KeyOf[saving[i]]] = saving[i]]

\* record_success.
Record(i) ==
  /\ Remember(i)
  /\ file' = entries'[i]

\* _save raises, with the entry in memory already.
RecordFails(i) ==
  /\ Remember(i)
  /\ UNCHANGED file

\* The process ends, or dies between any two steps.
Close(i) ==
  /\ pc[i] # "closed"
  /\ pc' = [pc EXCEPT ![i] = "closed"]
  /\ entries' = [entries EXCEPT ![i] = NoEntries]
  /\ saving' = [saving EXCEPT ![i] = None]
  /\ author' = [p \in Paths |-> IF author[p] = i THEN None ELSE author[p]]
  /\ alone' = alone \ {i}
  /\ UNCHANGED <<file, output, made>>

\* Somebody clears the output directory.
Remove(p) ==
  /\ output[p] # None
  /\ output' = [output EXCEPT ![p] = None]
  /\ UNCHANGED <<file, pc, entries, saving, made, author, alone>>

CacheNext ==
  \/ \E i \in Instances :
       \/ Open(i)
       \/ \E f \in Fingerprints : SaveOutput(i, f)
       \/ Record(i) \/ RecordFails(i) \/ Close(i)
  \/ \E p \in Paths : Remove(p)

CacheSpec == CacheInit /\ [][CacheNext]_cacheVars

-----------------------------------------------------------------------------
(* Properties.                                                             *)

Hit(i, f) == pc[i] # "closed" /\ Outcome(i, f) = "hit"

\* The design document: "a cache entry cannot claim success before the
\* output exists".  Whatever an instance or the file vouches for was saved
\* once, under the key it stands for, whoever died at whatever moment.
EntriesWereSaved ==
  \A k \in Keys :
    /\ file[k] # None => file[k] \in made /\ KeyOf[file[k]] = k
    /\ \A i \in Instances :
         entries[i][k] # None => entries[i][k] \in made /\ KeyOf[entries[i][k]] = k

\* Between two of its own calls an instance never takes a translation of
\* another version of the source for the current one, where it wrote that
\* file itself: also if the record could not be written, and if others
\* rewrote the cache in between.  The output of another key (a second branch
\* with the same output root), of another instance or of one that died
\* before recording it can be taken for the current one.
OwnWorkIsFresh ==
  \A i \in Instances, f \in Fingerprints :
    LET p == PathOf[f] IN
    /\ pc[i] = "open" /\ Hit(i, f)
    /\ author[p] = i
    /\ KeyOf[output[p]] = KeyOf[f]
    => output[p] = f

\* Rewriting the whole file from memory loses nothing of what others wrote
\* before: an entry leaves the file only through an instance that has had
\* another beside it.
LossNeedsCompany ==
  [][\A k \in Keys :
       file[k] # None /\ file'[k] = None =>
         \E i \in Instances \ alone : pc[i] = "saved" /\ pc'[i] = "open"]_cacheVars

-----------------------------------------------------------------------------
(* The inductive invariant.                                                *)

\* What an instance wrote and nobody has replaced is what it has recorded,
\* or is about to.
MineIsRecorded ==
  \A i \in Instances, p \in Paths :
    author[p] = i /\ output[p] # None =>
      LET k == KeyOf[output[p]] IN
      /\ pc[i] = "saved" /\ PathOf[saving[i]] = p => output[p] = saving[i]
      /\ \/ pc[i] = "saved" /\ KeyOf[saving[i]] = k
         \/ entries[i][k] = None
         \/ PathOf[entries[i][k]] # p
         \/ entries[i][k] = output[p]

CacheInv ==
  /\ CacheTypeOK
  /\ \A i \in Instances : pc[i] = "saved" <=> saving[i] # None
  /\ \A i \in Instances : saving[i] # None => saving[i] \in made
  /\ \A p \in Paths : author[p] # None => pc[author[p]] # "closed"
  /\ \A i \in alone : pc[i] # "closed" /\ \A j \in Instances \ {i} : pc[j] = "closed"
  /\ EntriesWereSaved
  /\ MineIsRecorded
  /\ \A i \in alone, k \in Keys : file[k] # None => entries[i][k] # None
=============================================================================
