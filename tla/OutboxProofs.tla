---------------------------- MODULE OutboxProofs ----------------------------
(***************************************************************************)
(* Proofs about Outbox, for any bound on events and any batch size.  The   *)
(* file never has gaps, so what is pending is an interval of numbers and   *)
(* its maximum and its first BatchSize members are known without counting. *)
(***************************************************************************)
EXTENDS Outbox, FiniteSetTheorems, TLAPS

\* The maximum of a set is the member no other exceeds.
LEMMA MaximumIs ==
  ASSUME NEW S \in SUBSET Int, NEW m \in S, \A k \in S : k <= m
  PROVE  Maximum(S) = m
<1>1. \A n \in S : (\A k \in S : k <= n) => n = m
  <2> SUFFICES ASSUME NEW n \in S, \A k \in S : k <= n PROVE n = m
    OBVIOUS
  <2>1. n <= m /\ m <= n /\ n \in Int /\ m \in Int
    OBVIOUS
  <2>2. QED
    BY <2>1
<1>2. \E n \in S : \A k \in S : k <= n
  OBVIOUS
<1>3. QED
  BY <1>1, <1>2 DEF Maximum

\* With the file readable, last_sequence is the end of the pending interval.
LEMMA LastOfInterval ==
  ASSUME TypeOK, NEW m \in acknowledged..MaxEvents,
         Pending = (acknowledged + 1)..m
  PROVE  LastSequence = m
<1>1. /\ stored \cup {acknowledged} \in SUBSET Int
      /\ acknowledged \in Int
      /\ MaxEvents \in Int
  BY BoundAssumption DEF TypeOK
<1>2. m \in stored \cup {acknowledged}
  BY <1>1 DEF Pending
<1>3. \A k \in stored \cup {acknowledged} : k <= m
  BY <1>1 DEF Pending
<1>4. QED
  BY <1>1, <1>2, <1>3, MaximumIs DEF LastSequence

\* The batch is the first BatchSize numbers of the pending interval.
LEMMA BatchOfInterval ==
  ASSUME TypeOK, NEW m \in acknowledged..MaxEvents,
         Pending = (acknowledged + 1)..m, m > acknowledged
  PROVE  \E b \in (acknowledged + 1)..m :
           Batch = (acknowledged + 1)..b /\ Maximum(Batch) = b
<1> DEFINE lo == acknowledged + 1
<1>1. acknowledged \in Int /\ m \in Int /\ lo \in Int /\ BatchSize \in Int /\ BatchSize >= 1
  BY BoundAssumption, BatchAssumption DEF TypeOK
<1>2. ASSUME NEW n \in lo..m
      PROVE  Cardinality({k \in Pending : k < n}) = n - lo
  <2>1. {k \in Pending : k < n} = lo..(n - 1)
    BY <1>1
  <2>2. Cardinality(lo..(n - 1)) = IF lo > n - 1 THEN 0 ELSE (n - 1) - lo + 1
    BY <1>1, FS_Interval
  <2>3. n \in Int /\ lo <= n
    BY <1>1
  <2> HIDE DEF lo
  <2>4. (IF lo > n - 1 THEN 0 ELSE (n - 1) - lo + 1) = n - lo
    BY <1>1, <2>3
  <2>5. QED
    BY <2>1, <2>2, <2>4
<1>3. Batch = {n \in lo..m : n - lo < BatchSize}
  BY <1>2 DEF Batch
<1> DEFINE b == IF lo + BatchSize - 1 <= m THEN lo + BatchSize - 1 ELSE m
<1>4. b \in lo..m /\ Batch = lo..b
  BY <1>1, <1>3
<1>5. Maximum(lo..b) = b
  <2>1. b \in Int /\ b \in lo..b /\ lo..b \in SUBSET Int /\ \A k \in lo..b : k <= b
    BY <1>1, <1>4
  <2> HIDE DEF b, lo
  <2>2. QED
    BY <2>1, MaximumIs
<1>6. QED
  BY <1>4, <1>5

LEMMA InitIInv == Init => IInv
<1> SUFFICES ASSUME Init PROVE IInv
  OBVIOUS
<1>1. Pending = (acknowledged + 1)..0
  BY DEF Init, Pending
<1>2. PendingContiguous
  BY <1>1, BoundAssumption DEF Init, PendingContiguous
<1>3. QED
  BY <1>2, BoundAssumption DEF Init, IInv, TypeOK, UnsentSurvive, SentIsDelivered,
     OnlyShortWritesTear, AcknowledgedWereDelivered

\* The next number goes to the end of the interval.
LEMMA AppendStep == IInv /\ AppendRecord => IInv'
<1> SUFFICES ASSUME IInv, AppendRecord PROVE IInv'
  OBVIOUS
<1> USE DEF IInv, TypeOK
<1>1. PICK m \in acknowledged..MaxEvents : Pending = (acknowledged + 1)..m
  BY DEF AppendRecord, PendingContiguous
<1>2. LastSequence = m
  BY <1>1, LastOfInterval
<1>3. /\ m \in Int /\ acknowledged \in Int /\ acknowledged <= m /\ m < MaxEvents
      /\ m + 1 \in 1..MaxEvents
  BY <1>1, <1>2, BoundAssumption DEF AppendRecord
<1>4. /\ issued' = issued \cup {m + 1}
      /\ UNCHANGED <<acknowledged, pc, delivered>>
      /\ pc = "idle"
      /\ Readable
      /\ IF tail = "whole" THEN stored' = stored \cup {m + 1} /\ UNCHANGED tail
         ELSE UNCHANGED stored /\ tail' = "garbage"
  BY <1>2 DEF AppendRecord
<1>5. TypeOK'
  BY <1>3, <1>4
<1>6. PendingContiguous'
  <2>1. CASE tail = "whole"
    <3>1. Pending' = (acknowledged + 1)..(m + 1)
      BY <1>1, <1>3, <1>4, <2>1 DEF Pending
    <3>2. QED
      BY <1>3, <1>4, <3>1 DEF PendingContiguous
  <2>2. CASE tail # "whole"
    BY <1>1, <1>4, <2>2 DEF PendingContiguous, Pending
  <2>3. QED
    BY <2>1, <2>2
<1>7. UnsentSurvive'
  BY <1>4 DEF UnsentSurvive, Readable
<1>8. SentIsDelivered' /\ OnlyShortWritesTear'
  BY <1>4 DEF SentIsDelivered, OnlyShortWritesTear
<1>9. AcknowledgedWereDelivered'
  BY <1>3, <1>4 DEF AcknowledgedWereDelivered
<1>10. QED
  BY <1>5, <1>6, <1>7, <1>8, <1>9

LEMMA CutShortStep == IInv /\ AppendCutShort => IInv'
<1> SUFFICES ASSUME IInv, AppendCutShort PROVE IInv'
  OBVIOUS
<1> USE DEF IInv, TypeOK
<1>1. PICK m \in acknowledged..MaxEvents : Pending = (acknowledged + 1)..m
  BY DEF AppendCutShort, PendingContiguous
<1>2. LastSequence = m
  BY <1>1, LastOfInterval
<1>3. /\ m \in Int /\ acknowledged \in Int /\ acknowledged <= m /\ m < MaxEvents
      /\ m + 1 \in 1..MaxEvents
  BY <1>1, <1>2, BoundAssumption DEF AppendCutShort
<1>4. /\ UNCHANGED <<acknowledged, pc, issued, delivered>>
      /\ pc = "idle"
      /\ Readable
      /\ ShortWrites
      /\ \/ tail' = "garbage" /\ UNCHANGED stored
         \/ tail' = "open" /\ stored' = stored \cup {m + 1}
  BY <1>2 DEF AppendCutShort
<1>5. TypeOK'
  BY <1>3, <1>4
<1>6. PendingContiguous'
  <2>1. CASE tail' = "garbage"
    <3>1. Pending' = Pending
      BY <1>4, <2>1 DEF Pending
    <3>2. QED
      BY <1>1, <1>4, <3>1 DEF PendingContiguous
  <2>2. CASE tail' = "open"
    <3>1. Pending' = (acknowledged + 1)..(m + 1)
      BY <1>1, <1>3, <1>4, <2>2 DEF Pending
    <3>2. QED
      BY <1>3, <1>4, <3>1 DEF PendingContiguous
  <2>3. QED
    BY <1>4, <2>1, <2>2
<1>7. UnsentSurvive'
  BY <1>4 DEF UnsentSurvive, Readable
<1>8. SentIsDelivered' /\ OnlyShortWritesTear' /\ AcknowledgedWereDelivered'
  BY <1>4 DEF SentIsDelivered, OnlyShortWritesTear, AcknowledgedWereDelivered
<1>9. QED
  BY <1>5, <1>6, <1>7, <1>8

\* A batch that was sent is stored to its end, or to any record of it.
LEMMA SendStep == IInv /\ (Send \/ Answered \/ SendFails) => IInv'
<1> SUFFICES ASSUME IInv, Send \/ Answered \/ SendFails PROVE IInv'
  OBVIOUS
<1> USE DEF IInv, TypeOK
<1>1. UNCHANGED <<stored, tail, acknowledged, issued>>
  BY DEF Send, Answered, SendFails
<1>2. Batch \subseteq 1..MaxEvents /\ Batch' = Batch /\ Pending' = Pending
  BY <1>1 DEF Batch, Pending
<1>3. /\ delivered \subseteq delivered' /\ delivered' \subseteq delivered \cup Batch
      /\ pc' \in {"idle", "sent", "answered"}
  BY DEF Send, Answered, SendFails, StoreUpTo
<1>4. SentIsDelivered'
  <2>1. CASE Send
    BY <1>1, <1>2, <2>1 DEF Send, SentIsDelivered, Readable
  <2>2. CASE Answered
    <3>1. PICK m \in acknowledged..MaxEvents : Pending = (acknowledged + 1)..m
      BY DEF PendingContiguous
    <3>2. Pending # {} /\ Readable /\ pc' = "answered"
      BY <2>2 DEF Answered, SentIsDelivered
    <3>3. m \in Int /\ acknowledged \in Int /\ m > acknowledged
      BY <3>1, <3>2, BoundAssumption
    <3>4. PICK b \in (acknowledged + 1)..m :
            Batch = (acknowledged + 1)..b /\ Maximum(Batch) = b
      BY <3>1, <3>3, BatchOfInterval
    <3>5. Batch \subseteq delivered'
      BY <2>2, <3>3, <3>4 DEF Answered, StoreUpTo
    <3>6. QED
      BY <1>1, <1>2, <3>2, <3>5 DEF SentIsDelivered, Readable
  <2>3. CASE SendFails
    BY <2>3 DEF SendFails, SentIsDelivered
  <2>4. QED
    BY <2>1, <2>2, <2>3
<1>5. QED
  BY <1>1, <1>2, <1>3, <1>4 DEF PendingContiguous, UnsentSurvive,
     OnlyShortWritesTear, AcknowledgedWereDelivered, Readable

\* The acknowledged sequence moves to the end of the batch: everything it
\* passes was issued, is in the file, hence in the batch, hence delivered.
LEMMA AcknowledgeStep == IInv /\ Acknowledge => IInv'
<1> SUFFICES ASSUME IInv, Acknowledge PROVE IInv'
  OBVIOUS
<1> USE DEF IInv, TypeOK
<1>1. Readable /\ Pending # {} /\ Batch \subseteq delivered
  BY DEF Acknowledge, SentIsDelivered
<1>2. PICK m \in acknowledged..MaxEvents : Pending = (acknowledged + 1)..m
  BY DEF PendingContiguous
<1>3. m \in Int /\ acknowledged \in Int /\ MaxEvents \in Int /\ m > acknowledged
  BY <1>1, <1>2, BoundAssumption
<1>4. PICK b \in (acknowledged + 1)..m :
        Batch = (acknowledged + 1)..b /\ Maximum(Batch) = b
  BY <1>2, <1>3, BatchOfInterval
<1>5. Maximum({acknowledged, b}) = b
  BY <1>3, <1>4, MaximumIs
<1>6. /\ acknowledged' = b
      /\ pc' = "compact"
      /\ UNCHANGED <<stored, tail, issued, delivered>>
  BY <1>4, <1>5 DEF Acknowledge
<1>7. TypeOK'
  BY <1>3, <1>4, <1>6
<1>8. PendingContiguous'
  <2>1. b \in Int /\ acknowledged < b /\ b <= m
    BY <1>3, <1>4
  <2>2. Pending' = {n \in Pending : n > b}
    <3>1. Pending' = {n \in stored : n > b}
      BY <1>6 DEF Pending
    <3>2. \A n \in stored : n \in Int
      BY <1>3
    <3>3. \A n \in stored : n > b => n > acknowledged
      BY <1>3, <2>1, <3>2
    <3>4. QED
      BY <3>1, <3>3 DEF Pending
  <2>3. Pending' = (b + 1)..m
    BY <1>2, <1>3, <2>1, <2>2
  <2>4. QED
    BY <1>3, <1>6, <2>1, <2>3 DEF PendingContiguous
<1>9. UnsentSurvive' /\ SentIsDelivered' /\ OnlyShortWritesTear'
  BY <1>1, <1>3, <1>4, <1>6 DEF UnsentSurvive, SentIsDelivered, OnlyShortWritesTear, Readable
<1>10. AcknowledgedWereDelivered'
  <2> SUFFICES ASSUME NEW n \in issued, n <= b PROVE n \in delivered
    BY <1>6 DEF AcknowledgedWereDelivered
  <2>1. CASE n <= acknowledged
    BY <2>1 DEF AcknowledgedWereDelivered
  <2>2. CASE n > acknowledged
    <3>1. n \in Batch
      BY <1>3, <1>4, <2>2
    <3>2. QED
      BY <1>1, <3>1
  <2>3. QED
    BY <1>3, <2>1, <2>2
<1>11. QED
  BY <1>7, <1>8, <1>9, <1>10

LEMMA CompactStep == IInv /\ Compact => IInv'
<1> SUFFICES ASSUME IInv, Compact PROVE IInv'
  OBVIOUS
<1> USE DEF IInv, TypeOK, Compact
<1>1. Pending' = Pending
  BY DEF Pending
<1>2. TypeOK'
  BY DEF Pending
<1>3. Readable /\ Readable'
  BY DEF SentIsDelivered, Readable
<1>4. PendingContiguous'
  BY <1>1 DEF PendingContiguous
<1>5. UnsentSurvive'
  BY <1>3 DEF UnsentSurvive, Pending
<1>6. SentIsDelivered' /\ OnlyShortWritesTear' /\ AcknowledgedWereDelivered'
  BY DEF SentIsDelivered, OnlyShortWritesTear, AcknowledgedWereDelivered
<1>7. QED
  BY <1>2, <1>4, <1>5, <1>6

\* Dying and starting again leave the files alone.
LEMMA RestStep ==
  IInv /\ (Crash \/ Restart \/ UNCHANGED vars) => IInv'
<1> SUFFICES ASSUME IInv, Crash \/ Restart \/ UNCHANGED vars PROVE IInv'
  OBVIOUS
<1>1. UNCHANGED <<stored, tail, acknowledged, issued, delivered>>
  BY DEF Crash, Restart, vars
<1>2. Pending' = Pending /\ Batch' = Batch
  BY <1>1 DEF Pending, Batch
<1>3. (pc' \in {"idle", "down"}) \/ pc' = pc
  BY DEF Crash, Restart, vars
<1>4. QED
  BY <1>1, <1>2, <1>3 DEF IInv, TypeOK, PendingContiguous, UnsentSurvive,
     SentIsDelivered, OnlyShortWritesTear, AcknowledgedWereDelivered, Readable

LEMMA NextIInv == IInv /\ [Next]_vars => IInv'
BY AppendStep, CutShortStep, SendStep, AcknowledgeStep, CompactStep, RestStep DEF Next

-----------------------------------------------------------------------------
(* The theorems.                                                           *)

\* The inductive invariant: the file has no gaps, keeps what was issued and
\* is never acknowledged past what the control plane stored.
THEOREM Invariance == Spec => []IInv
BY InitIInv, NextIInv, PTL DEF Spec

\* No event leaves the outbox that the control plane does not have, with
\* crashes anywhere and even with a full disk.
THEOREM Delivered == Spec => []AcknowledgedWereDelivered
<1>1. IInv => AcknowledgedWereDelivered
  BY DEF IInv
<1>2. QED
  BY <1>1, Invariance, PTL

\* While the file can be read every issued event is acknowledged or in it,
\* and unless an append is cut short the file can always be read.
THEOREM Survival == Spec => [](UnsentSurvive /\ (Readable \/ ShortWrites))
<1>1. IInv => UnsentSurvive /\ (Readable \/ ShortWrites)
  BY FaultAssumption DEF IInv, OnlyShortWritesTear, Readable
<1>2. QED
  BY <1>1, Invariance, PTL

\* Sequence numbers only grow, across compaction, crashes and restarts.
THEOREM Growth == Spec => SequencesOnlyGrow
<1>1. ASSUME IInv, [Next]_vars
      PROVE  [\A n \in issued' \ issued : \A k \in issued \cup stored : k < n]_vars
  <2>1. CASE UNCHANGED issued
    BY <2>1
  <2>2. CASE AppendRecord
    <3>1. PICK m \in acknowledged..MaxEvents : Pending = (acknowledged + 1)..m
      BY <1>1, <2>2 DEF AppendRecord, IInv, PendingContiguous
    <3>2. LastSequence = m
      BY <1>1, <3>1, LastOfInterval DEF IInv
    <3>3. issued' = issued \cup {m + 1} /\ m \in Int /\ acknowledged \in Int
      BY <1>1, <2>2, <3>1, <3>2, BoundAssumption DEF AppendRecord, IInv, TypeOK
    <3>4. \A k \in stored : k \in Int /\ k <= m
      BY <1>1, <3>1, <3>3 DEF Pending, IInv, TypeOK
    <3>5. \A k \in issued : k \in Int /\ k <= m
      BY <1>1, <2>2, <3>1, <3>3, <3>4 DEF AppendRecord, IInv, UnsentSurvive, TypeOK
    <3>6. QED
      BY <3>3, <3>4, <3>5
  <2>3. QED
    BY <1>1, <2>1, <2>2 DEF Next, AppendCutShort, Send, Answered, SendFails,
       Acknowledge, Compact, Crash, Restart, vars
<1>2. QED
  BY <1>1, Invariance, PTL DEF Spec, SequencesOnlyGrow

\* The outbox implements the queue it is used as: acknowledging is the one
\* step that removes, compaction and a torn line are invisible.
THEOREM Implementation == Spec => ImplementsQueue
<1>1. Init => Queue!Init
  <2> SUFFICES ASSUME Init PROVE Queue!Init
    OBVIOUS
  <2>1. stored \cup {acknowledged} = {0} /\ Pending = {}
    BY DEF Init, Pending
  <2>2. LastSequence = 0
    BY <2>1, MaximumIs DEF LastSequence
  <2>3. QED
    BY <2>1, <2>2 DEF Queue!Init
<1>2. IInv /\ IInv' /\ [Next]_vars => [Queue!Next]_(Queue!queueVars)
  <2> SUFFICES ASSUME IInv, IInv', [Next]_vars
               PROVE  [Queue!Next]_(Queue!queueVars)
    OBVIOUS
  <2>1. TypeOK /\ TypeOK'
    BY DEF IInv
  <2>3. PICK m \in acknowledged..MaxEvents : Pending = (acknowledged + 1)..m
    BY DEF IInv, PendingContiguous
  <2>4. LastSequence = m
    BY <2>1, <2>3, LastOfInterval
  <2>5. PICK p \in acknowledged'..MaxEvents : Pending' = (acknowledged' + 1)..p
    BY DEF IInv, PendingContiguous
  <2>6. LastSequence' = p
    <3>1. \A S \in SUBSET Int : \A n \in S : (\A k \in S : k <= n) => Maximum(S) = n
      BY MaximumIs
    <3>2. (stored \cup {acknowledged})' \in SUBSET Int
      BY <2>1, BoundAssumption DEF TypeOK
    <3>3. p \in (stored \cup {acknowledged})'
      BY <2>1, <2>5, BoundAssumption DEF Pending, TypeOK
    <3>4. \A k \in (stored \cup {acknowledged})' : k <= p
      BY <2>1, <2>5, BoundAssumption DEF Pending, TypeOK
    <3>5. QED
      BY <3>1, <3>2, <3>3, <3>4 DEF LastSequence
  <2>7. m \in Int /\ p \in Int /\ acknowledged \in Int /\ acknowledged <= m
    BY <2>1, <2>3, <2>5, BoundAssumption DEF TypeOK
  <2>8. CASE stored' = stored \cup {m + 1} /\ acknowledged' = acknowledged
    <3>1. stored' = stored \cup {m + 1} /\ acknowledged' = acknowledged
      BY <2>8
    <3>2. Pending' = Pending \cup {m + 1}
      BY <2>7, <3>1 DEF Pending
    <3>3. p = m + 1
      <4>1. m + 1 \in (acknowledged + 1)..p
        BY <2>5, <3>1, <3>2
      <4>2. CASE p > m + 1
        <5>1. p \in Pending \cup {m + 1}
          BY <2>5, <2>7, <3>1, <3>2, <4>1
        <5>2. QED
          BY <2>3, <2>7, <4>2, <5>1
      <4>3. QED
        BY <2>7, <4>1, <4>2
    <3>4. QED
      BY <2>4, <2>6, <3>2, <3>3 DEF Queue!Next, Queue!Put
  <2>9. CASE Acknowledge
    <3>1. m > acknowledged
      BY <2>3, <2>7, <2>9 DEF Acknowledge, IInv, SentIsDelivered
    <3>2. PICK b \in (acknowledged + 1)..m :
            Batch = (acknowledged + 1)..b /\ Maximum(Batch) = b
      BY <2>1, <2>3, <3>1, BatchOfInterval
    <3>3. b \in Int /\ acknowledged < b /\ b <= m
      BY <2>7, <3>2
    <3>4. Maximum({acknowledged, b}) = b
      BY <2>7, <3>3, MaximumIs
    <3>5. acknowledged' = b /\ stored' = stored
      BY <2>9, <3>2, <3>4 DEF Acknowledge
    <3>6. Pending' = {k \in Pending : k > b}
      <4>1. Pending' = {k \in stored : k > b}
        BY <3>5 DEF Pending
      <4>2. \A k \in stored : k \in Int
        BY <2>1, BoundAssumption DEF TypeOK
      <4>3. \A k \in stored : k > b => k > acknowledged
        BY <2>7, <3>3, <4>2
      <4>4. QED
        BY <4>1, <4>3 DEF Pending
    <3>7. b \in Pending
      BY <2>3, <2>7, <3>3
    <3>8. p = m
      <4>1. CASE m > b
        <5>1. m \in (b + 1)..p
          BY <2>3, <2>5, <2>7, <3>3, <3>5, <3>6, <4>1
        <5>2. p \in Pending
          BY <2>5, <2>7, <3>3, <3>5, <3>6, <5>1
        <5>3. QED
          BY <2>3, <2>7, <5>1, <5>2
      <4>2. CASE m = b
        <5>1. p >= b
          BY <2>5, <2>7, <3>3, <3>5
        <5>2. ~(p > b)
          <6> SUFFICES ASSUME p > b PROVE FALSE
            OBVIOUS
          <6>1. p \in Pending
            BY <2>5, <2>7, <3>3, <3>5, <3>6
          <6>2. QED
            BY <2>3, <2>7, <4>2, <6>1
        <5>3. QED
          BY <2>7, <3>3, <4>2, <5>1, <5>2
      <4>3. QED
        BY <2>7, <3>3, <4>1, <4>2
    <3>9. QED
      BY <2>4, <2>6, <3>6, <3>7, <3>8 DEF Queue!Next, Queue!Remove
  <2>10. CASE UNCHANGED <<stored, acknowledged>> \/ Compact
    <3>1. Pending' = Pending /\ acknowledged' = acknowledged
      BY <2>10 DEF Pending, Compact
    <3>2. p = m
      <4>1. (acknowledged + 1)..p = (acknowledged + 1)..m
        BY <2>3, <2>5, <3>1
      <4>2. acknowledged <= p
        BY <2>5, <2>7, <3>1
      <4>3. QED
        BY <2>7, <4>1, <4>2
    <3>3. QED
      BY <2>4, <2>6, <3>1, <3>2 DEF Queue!queueVars
  <2>11. QED
    BY <2>4, <2>8, <2>9, <2>10 DEF Next, AppendRecord, AppendCutShort, Send, Answered, SendFails,
       Crash, Restart, vars
<1>3. QED
  BY <1>1, <1>2, Invariance, PTL DEF Spec, ImplementsQueue, Queue!Spec
=============================================================================
