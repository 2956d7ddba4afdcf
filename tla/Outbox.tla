------------------------------- MODULE Outbox -------------------------------
(***************************************************************************)
(* The worker's durable progress outbox: worker/outbox.py, driven as       *)
(* WorkerRunner._flush_outbox drives it.  Two files: outbox.jsonl, one     *)
(* record per line, and outbox.jsonl.state, the acknowledged sequence.     *)
(* Both are rewritten through a temporary file and a rename, so a rewrite  *)
(* is one step here; an append is not, and neither are the two rewrites of *)
(* acknowledge together.                                                   *)
(*                                                                         *)
(* A record is its sequence number: append writes at the end of the file   *)
(* and numbers upwards, so the order of the lines is the order of the      *)
(* numbers and the file is a set.  The process may die between any two     *)
(* steps; the files stay.                                                  *)
(***************************************************************************)
EXTENDS Integers, FiniteSets

CONSTANTS
  MaxEvents,    \* bound on the sequence numbers handed out
  BatchSize,    \* pending_batch's max_records
  ShortWrites   \* whether a full disk may cut an append short

ASSUME BoundAssumption == MaxEvents \in Nat
ASSUME BatchAssumption == BatchSize \in Nat \ {0}
ASSUME FaultAssumption == ShortWrites \in BOOLEAN

VARIABLES
  stored,        \* outbox.jsonl: the sequences of its records
  tail,          \* its last line: "whole", "open" (no newline) or "garbage"
  acknowledged,  \* outbox.jsonl.state
  pc,            \* the process: "idle", "sent", "answered", "compact", "down"
  issued,        \* the sequences append returned
  delivered      \* the sequences the control plane stored

vars == <<stored, tail, acknowledged, pc, issued, delivered>>

TypeOK ==
  /\ stored \subseteq 1..MaxEvents
  /\ tail \in {"whole", "open", "garbage"}
  /\ acknowledged \in 0..MaxEvents
  /\ pc \in {"idle", "sent", "answered", "compact", "down"}
  /\ issued \subseteq 1..MaxEvents
  /\ delivered \subseteq 1..MaxEvents

Init ==
  /\ stored = {}
  /\ tail = "whole"
  /\ acknowledged = 0
  /\ pc = "idle"
  /\ issued = {}
  /\ delivered = {}

-----------------------------------------------------------------------------

Maximum(S) == CHOOSE n \in S : \A k \in S : k <= n

\* _records raises on a line that is not one record.
Readable == tail # "garbage"

\* Mistakes: last_sequence leaves out the acknowledged sequence, or the file.
LastSequenceOfRecords == Maximum(stored \cup {0})
LastSequenceOfState == acknowledged

\* last_sequence: over the records and the acknowledged sequence.
LastSequence == Maximum(stored \cup {acknowledged})

Pending == {n \in stored : n > acknowledged}

\* A mistake: the last records instead of the first.
LatestBatch == {n \in Pending : Cardinality({k \in Pending : k > n}) < BatchSize}

\* pending()[:max_records].
Batch == {n \in Pending : Cardinality({k \in Pending : k < n}) < BatchSize}

-----------------------------------------------------------------------------

\* append, the write going through.  On an unterminated line it glues two
\* records together; nothing in the file can be read from then on.
AppendRecord ==
  /\ pc = "idle"
  /\ Readable
  /\ LastSequence < MaxEvents
  /\ LET n == LastSequence + 1 IN
     /\ issued' = issued \cup {n}
     /\ IF tail = "whole"
        THEN stored' = stored \cup {n} /\ UNCHANGED tail
        ELSE tail' = "garbage" /\ UNCHANGED stored
  /\ UNCHANGED <<acknowledged, pc, delivered>>

\* append on a full disk raises with a part of the line written: a prefix,
\* or all of it but the newline.
AppendCutShort ==
  /\ ShortWrites
  /\ pc = "idle"
  /\ Readable
  /\ LastSequence < MaxEvents
  /\ \/ tail' = "garbage" /\ UNCHANGED stored
     \/ /\ tail = "whole"
        /\ tail' = "open"
        /\ stored' = stored \cup {LastSequence + 1}
  /\ UNCHANGED <<acknowledged, pc, issued, delivered>>

\* send_updates: the request leaves.
Send ==
  /\ pc = "idle"
  /\ Readable
  /\ Pending # {}
  /\ pc' = "sent"
  /\ UNCHANGED <<stored, tail, acknowledged, issued, delivered>>

\* The control plane stores the records one after the other, so that a part
\* of a batch is what came before one of its records.
StoreUpTo(n) ==
  delivered' = delivered \cup {k \in Batch : k <= n}

\* It has stored the batch, and its answer arrives.
Answered ==
  /\ pc = "sent"
  /\ StoreUpTo(Maximum(Batch))
  /\ pc' = "answered"
  /\ UNCHANGED <<stored, tail, acknowledged, issued>>

\* A mistake: the error is swallowed, and the loop goes on to acknowledge.
SendFailsQuietly ==
  /\ pc = "sent"
  /\ \E n \in Batch \cup {0} : StoreUpTo(n)
  /\ pc' = "answered"
  /\ UNCHANGED <<stored, tail, acknowledged, issued>>

\* The request is lost or refused, the handler dies between two records, or
\* its answer is lost: send_updates raises, with any part of it stored.
SendFails ==
  /\ pc = "sent"
  /\ \E n \in Batch \cup {0} : StoreUpTo(n)
  /\ pc' = "idle"
  /\ UNCHANGED <<stored, tail, acknowledged, issued>>

\* A mistake: the file is compacted to nothing before the state is written.
AcknowledgeEmptying ==
  /\ pc = "answered"
  /\ stored' = {}
  /\ acknowledged' = Maximum(Batch)
  /\ pc' = "compact"
  /\ UNCHANGED <<tail, issued, delivered>>

\* acknowledge, first half: the acknowledged sequence is the batch's last.
Acknowledge ==
  /\ pc = "answered"
  /\ acknowledged' = Maximum({acknowledged, Maximum(Batch)})
  /\ pc' = "compact"
  /\ UNCHANGED <<stored, tail, issued, delivered>>

\* acknowledge, second half: compact rewrites the file, whole lines only.
Compact ==
  /\ pc = "compact"
  /\ stored' = Pending
  /\ tail' = "whole"
  /\ pc' = "idle"
  /\ UNCHANGED <<acknowledged, issued, delivered>>

Crash ==
  /\ pc # "down"
  /\ pc' = "down"
  /\ UNCHANGED <<stored, tail, acknowledged, issued, delivered>>

Restart ==
  /\ pc = "down"
  /\ pc' = "idle"
  /\ UNCHANGED <<stored, tail, acknowledged, issued, delivered>>

Next ==
  \/ AppendRecord
  \/ AppendCutShort
  \/ Send
  \/ Answered
  \/ SendFails
  \/ Acknowledge
  \/ Compact
  \/ Crash
  \/ Restart

Spec == Init /\ [][Next]_vars

-----------------------------------------------------------------------------
(* Properties.                                                             *)

\* The acknowledged sequence never runs ahead of the control plane: no
\* event is dropped from the file that was not stored there first.
AcknowledgedWereDelivered ==
  \A n \in issued : n <= acknowledged => n \in delivered

\* As long as the file can be read, an event whose append returned is
\* acknowledged or still in it, across crashes at any point of acknowledge
\* and compact and whatever a short write left behind.
UnsentSurvive == Readable => \A n \in issued : n <= acknowledged \/ n \in stored

\* A number is never used twice, not even after compaction emptied the file
\* and the process restarted: job_logs keeps the first row of a sequence and
\* silently drops any other (ON CONFLICT DO NOTHING).
SequencesOnlyGrow ==
  [][\A n \in issued' \ issued : \A k \in issued \cup stored : k < n]_vars

\* The outbox implements the queue it is used as.  A garbage line, which
\* only a short write leaves, is a queue that never moves again.
Queue == INSTANCE DurableQueue WITH last <- LastSequence, pending <- Pending
ImplementsQueue == Queue!Spec

-----------------------------------------------------------------------------
(* The inductive invariant behind the properties above.                    *)

\* The file holds no gaps: what is pending runs from the acknowledged
\* sequence up to the last one.
PendingContiguous ==
  \E m \in acknowledged..MaxEvents : Pending = (acknowledged + 1)..m

\* Between sending and acknowledging, the batch is what was sent.
SentIsDelivered ==
  /\ pc \in {"sent", "answered", "compact"} => Readable
  /\ pc \in {"sent", "answered"} => Pending # {}
  /\ pc = "answered" => Batch \subseteq delivered

OnlyShortWritesTear == ~ShortWrites => tail = "whole"

IInv ==
  /\ TypeOK
  /\ PendingContiguous
  /\ UnsentSurvive
  /\ SentIsDelivered
  /\ OnlyShortWritesTear
  /\ AcknowledgedWereDelivered
=============================================================================
