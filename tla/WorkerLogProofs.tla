---------------------------- MODULE WorkerLogProofs ----------------------------
(***************************************************************************)
(* Proofs about what the log page of a job shows: WorkerRunner implements  *)
(* ProgressLog.  LogFits, inductive relative to RunnerInv, relates the     *)
(* append handlers in flight to the outbox and to each other; then each    *)
(* step of worker or server is one of ProgressLog's or leaves it alone.    *)
(***************************************************************************)
EXTENDS WorkerRunnerProofs

\* The attempt of the run, if there is one, is the only open one.
LEMMA OpenRun ==
  /\ Running => Open = {run.attempt}
  /\ ~Running => Open = {}
BY DEF Open, Running

\* An interval up to n tells where it begins, if an empty one begins after n.
LEMMA IntervalStart ==
  ASSUME NEW n \in Nat, NEW k \in 1..(n + 1), NEW m \in 1..(n + 1), k..n = m..n
  PROVE  k = m
<1>1. CASE k <= n
  BY <1>1
<1>2. CASE k = n + 1
  BY <1>2
<1>3. QED
  BY <1>1, <1>2

\* Front is where the outbox begins, or past its last number.
LEMMA FrontOfQueue ==
  ASSUME RunnerTypeOK, NEW m \in 1..(last + 1), pending = m..last
  PROVE  Front = m
BY IntervalStart, SequenceAssumption DEF RunnerTypeOK, Front

LEMMA FrontLater ==
  ASSUME RunnerTypeOK', NEW m \in 1..(last' + 1), pending' = m..last'
  PROVE  Front' = m
<1>1. last' \in Nat
  BY SequenceAssumption DEF RunnerTypeOK
<1>2. QED
  BY <1>1, IntervalStart DEF Front

LEMMA FrontType ==
  ASSUME RunnerTypeOK, QueueIsInterval
  PROVE  Front \in 1..(last + 1) /\ pending = Front..last
<1>1. last \in Nat
  BY SequenceAssumption DEF RunnerTypeOK
<1>2. PICK m \in 0..last : pending = (m + 1)..last
  BY DEF QueueIsInterval
<1>3. m + 1 \in 1..(last + 1)
  BY <1>1
<1>4. QED
  BY <1>2, <1>3, FrontOfQueue

\* What LogFits says of one append handler.
HandlerFits(r) ==
  LET c == calls[r] IN
  /\ c.first <= c.next /\ c.last <= last
  /\ Reaches(c.attempt, c.first)
  /\ \A q \in Requests :
       calls[q].pc = "insert" /\ calls[q].attempt = c.attempt =>
         \A n \in c.first..(calls[q].first - 1) : Logged(c.attempt, n)
  /\ \A n \in c.first..c.last : owner[n] \in Open => owner[n] = c.attempt
  /\ c.attempt \in Open =>
       c.first <= Front /\ \A n \in c.first..(Front - 1) : Logged(c.attempt, n)
  /\ reported[c.attempt] # None => \A n \in c.first..c.last : Logged(c.attempt, n)

LEMMA HandlersFitEach ==
  HandlersFit <=> \A r \in Requests : calls[r].pc = "insert" => HandlerFits(r)
BY DEF HandlersFit, HandlerFits

LEMMA FitsLater ==
  ASSUME \A r \in Requests : calls'[r].pc = "insert" => HandlerFits(r)',
         \A a \in Open' : Reaches(a, Front)'
  PROVE  LogFits'
BY DEF LogFits, HandlersFit, HandlerFits

\* An attempt that was just handed out: nothing anywhere is its own.
Fresh(a) ==
  /\ a \in Attempts /\ reported[a] = None
  /\ \A row \in logs : row.attempt # a
  /\ \A r \in Requests : calls[r].pc = "insert" => calls[r].attempt # a
  /\ \A n \in 1..last : owner[n] # a

\* A step that neither writes a log nor moves the outbox, and leaves the
\* append handlers in flight as they are or ends them.
QuietStep ==
  /\ UNCHANGED <<last, pending, owner, logs, reported>>
  /\ \A r \in Requests : calls'[r].pc = "insert" => calls'[r] = calls[r]
  /\ \/ Open' \in {Open, {}}
     \/ Open = {} /\ \A a \in Open' : Fresh(a)

LEMMA QuietKeepsFit ==
  ASSUME RunnerInv, LogFits, QuietStep PROVE LogFits'
<1>1. /\ UNCHANGED <<last, pending, owner, logs, reported>>
      /\ calls \in [Requests -> Call] /\ last \in Nat /\ MaxSequence \in Nat
  BY SequenceAssumption DEF QuietStep, RunnerInv, RunnerTypeOK, TypeOK
<1>2. Front' = Front
  BY <1>1 DEF Front
<1>3. \A a, n : Logged(a, n)' <=> Logged(a, n)
  BY <1>1 DEF Logged
<1>4. \A a, x : Reaches(a, x)' <=> Reaches(a, x)
  BY <1>3 DEF Reaches
<1>5. ASSUME NEW r \in Requests, calls'[r].pc = "insert" PROVE HandlerFits(r)'
  <2> DEFINE c == calls[r]
  <2>1. calls'[r] = c /\ c.pc = "insert"
    BY <1>5 DEF QuietStep
  <2>2. HandlerFits(r)
    BY <2>1, HandlersFitEach DEF LogFits
  <2>3. c \in AppendCall
    BY <2>1, CallShape DEF RunnerInv, RunnerTypeOK
  <2>4. c.first..c.last \subseteq 1..last
    BY <1>1, <2>2, <2>3 DEF HandlerFits, AppendCall, Sequences
  <2>5. c.first <= c.next /\ c.last <= last /\ Reaches(c.attempt, c.first)
    BY <2>2 DEF HandlerFits
  <2>6. ASSUME NEW q \in Requests, calls'[q].pc = "insert", calls'[q].attempt = c.attempt,
               NEW n \in c.first..(calls'[q].first - 1)
        PROVE  Logged(c.attempt, n)
    <3>1. calls'[q] = calls[q]
      BY <2>6 DEF QuietStep
    <3>2. QED
      BY <2>2, <2>6, <3>1 DEF HandlerFits
  <2>7. ASSUME NEW n \in c.first..c.last, owner[n] \in Open' PROVE owner[n] = c.attempt
    <3>1. CASE owner[n] \in Open
      BY <2>2, <2>7, <3>1 DEF HandlerFits
    <3>2. CASE owner[n] \in Open' \ Open
      BY <2>4, <2>7, <3>2 DEF QuietStep, Fresh
    <3>3. QED
      BY <2>7, <3>1, <3>2
  <2>8. ASSUME c.attempt \in Open'
        PROVE  c.first <= Front /\ \A n \in c.first..(Front - 1) : Logged(c.attempt, n)
    <3>1. c.attempt \in Open
      BY <2>1, <2>8 DEF QuietStep, Fresh
    <3>2. QED
      BY <2>2, <3>1 DEF HandlerFits
  <2>9. reported[c.attempt] # None => \A n \in c.first..c.last : Logged(c.attempt, n)
    BY <2>2 DEF HandlerFits
  <2>10. QED
    BY <1>1, <1>2, <1>3, <1>4, <2>1, <2>5, <2>6, <2>7, <2>8, <2>9 DEF HandlerFits
<1>6. ASSUME NEW a \in Open' PROVE Reaches(a, Front)'
  <2>1. CASE a \in Open
    BY <1>2, <1>4, <2>1 DEF LogFits
  <2>2. CASE a \in Open' \ Open
    <3>1. \A k : ~Logged(a, k)
      BY <2>2 DEF QuietStep, Fresh, Logged
    <3>2. Reaches(a, Front)
      BY <3>1 DEF Reaches
    <3>3. QED
      BY <1>2, <1>4, <3>2
  <2>3. QED
    BY <1>6, <2>1, <2>2
<1>7. QED
  BY <1>5, <1>6, FitsLater

-----------------------------------------------------------------------------
(* LogFits, one lemma per kind of step.                                    *)

\* A run that goes on stays the open one, a run that ends leaves none.
LEMMA OpenAfter ==
  ASSUME RunnerInv, GoesOn \/ Ends PROVE Open' \in {Open, {}}
<1>1. CASE GoesOn
  BY <1>1 DEF GoesOn, Open, Running
<1>2. CASE Ends
  BY <1>2 DEF Ends, Open
<1>3. QED
  BY <1>1, <1>2

LEMMA LocalQuiet == RunnerInv /\ Local => QuietStep
<1> SUFFICES ASSUME RunnerInv, Local PROVE QuietStep
  OBVIOUS
<1>1. UNCHANGED <<vars, queue>> /\ Open' \in {Open, {}}
  BY LocalShape, OpenAfter
<1>2. QED
  BY <1>1 DEF QuietStep, vars, queue

LEMMA RenewQuiet == RunnerInv /\ (Renewed \/ RenewAnswerLost) => QuietStep
<1> SUFFICES ASSUME RunnerInv, Renewed \/ RenewAnswerLost PROVE QuietStep
  OBVIOUS
<1>1. /\ pc = "renew" /\ Running
      /\ UNCHANGED <<logs, calls, reported, last, pending, owner>>
  BY DEF Renewed, RenewAnswerLost, Renew, Running, queue
<1>2. Open' \in {Open, {}}
  <2>1. CASE Renewed
    BY <2>1 DEF Renewed, Open
  <2>2. CASE RenewAnswerLost
    BY <1>1, <2>2, RaiseShape, OpenAfter DEF RenewAnswerLost
  <2>3. QED
    BY <2>1, <2>2
<1>3. QED
  BY <1>1, <1>2 DEF QuietStep

\* The row a claim fills in was nobody's.
LEMMA ClaimFresh ==
  ASSUME RunnerInv, NEW a \in Attempts, attempts[a].job = None PROVE Fresh(a)
<1>1. \A row \in logs : row.attempt # a
  BY NoneAssumption DEF RunnerInv, IInv, TypeOK, LogRow, LogsOfOwnJob
<1>2. ASSUME NEW r \in Requests, calls[r].pc = "insert" PROVE calls[r].attempt # a
  <2>1. calls[r] \in AppendCall
    BY <1>2, CallShape DEF RunnerInv, IInv
  <2>2. attempts[calls[r].attempt].job \in Jobs
    BY <1>2, <2>1 DEF RunnerInv, IInv, CallsKeepTheirLease, AppendCall
  <2>3. QED
    BY <2>2, NoneAssumption
<1>3. reported[a] = None /\ \A n \in 1..last : owner[n] # a
  BY DEF RunnerInv, ReportEndsRun
<1>4. QED
  BY <1>1, <1>2, <1>3 DEF Fresh

LEMMA ClaimQuiet == RunnerInv /\ (ClaimJob \/ ClaimWasted) => QuietStep
<1> SUFFICES ASSUME RunnerInv, ClaimJob \/ ClaimWasted PROVE QuietStep
  OBVIOUS
<1>1. UNCHANGED <<logs, calls, reported, last, pending, owner>>
  BY DEF ClaimJob, ClaimWasted, Claim, queue
<1>2. ASSUME NEW a \in Open' PROVE a \in Attempts /\ attempts[a].state = "absent"
  <2>1. CASE ClaimJob
    <3>1. PICK b \in Attempts : Granted(b) /\ run' = [NoRun EXCEPT !.job = attempts'[b].job, !.attempt = b]
      BY <2>1 DEF ClaimJob
    <3>2. run'.attempt = b
      BY <3>1 DEF NoRun
    <3>3. QED
      BY <1>2, <2>1, <3>1, <3>2 DEF ClaimJob, Open, Granted
  <2>2. CASE ClaimWasted
    BY <1>2, <2>2 DEF ClaimWasted, Exit, Open
  <2>3. QED
    BY <2>1, <2>2
<1>3. Open = {} /\ \A a \in Open' : Fresh(a)
  BY <1>2, ClaimFresh DEF RunnerInv, IInv, AttemptsOfClaimedJobs, ClaimJob, ClaimWasted, Open
<1>4. QED
  BY <1>1, <1>3 DEF QuietStep

LEMMA CompletedQuiet == RunnerInv /\ Completed => QuietStep
<1> SUFFICES ASSUME RunnerInv, Completed PROVE QuietStep
  OBVIOUS
<1>1. /\ FinishJob(run.request) /\ pc = "completing" /\ pc' = "idle"
      /\ pending' = {n \in pending : n > last}
      /\ UNCHANGED <<last, owner>>
  BY DEF Completed, Leave
<1>2. pending' = pending
  BY <1>1 DEF RunnerInv, FlushedToTheEnd
<1>3. Open' = {}
  BY <1>1 DEF Open
<1>4. calls \in [Requests -> Call]
  BY DEF RunnerInv, IInv, TypeOK
<1>5. \A r \in Requests : calls'[r].pc = "insert" => calls'[r] = calls[r]
  BY <1>1, <1>4 DEF FinishJob, IdleCall
<1>6. QED
  BY <1>1, <1>2, <1>3, <1>5 DEF QuietStep, FinishJob

LEMMA OthersQuiet ==
  ASSUME RunnerInv, Lapse \/ Lose \/ Admin \/ \E r \in Requests : Serve(r) /\ ~InsertLog(r)
  PROVE  QuietStep
<1>1. UNCHANGED <<last, pending, owner, pc, run>> /\ Open' = Open
  BY DEF Lapse, Lose, Admin, Serve, queue, Open
<1>2. calls \in [Requests -> Call]
  BY DEF RunnerInv, IInv, TypeOK
<1>3. CASE Lapse \/ Admin
  BY <1>1, <1>3 DEF QuietStep, Lapse, Admin, Expire, Create, Retry, InsertJob, Cancel
<1>4. CASE Lose
  BY <1>1, <1>2, <1>4 DEF QuietStep, Lose, Drop, IdleCall
<1>5. CASE \E r \in Requests : AnswerAppend(r) \/ FinishJob(r)
  BY <1>1, <1>2, <1>5 DEF QuietStep, AnswerAppend, FinishJob, IdleCall
<1>6. CASE \E r \in Requests : FinishAttempt(r)
  <2>1. PICK r \in Requests : FinishAttempt(r)
    BY <1>6
  <2>2. calls[r] \in CompleteCall
    BY <2>1, CallShape DEF FinishAttempt, RunnerInv, IInv
  <2>3. calls'[r].pc = "job" /\ \A q \in Requests : q # r => calls'[q] = calls[q]
    BY <1>2, <2>1, <2>2 DEF FinishAttempt, CompleteCall
  <2>4. QED
    BY <1>1, <2>1, <2>3 DEF QuietStep, FinishAttempt
<1>7. QED
  BY <1>3, <1>4, <1>5, <1>6 DEF Serve

\* The outbox grows behind Front.
LEMMA EmitFit == ASSUME RunnerInv, LogFits, Emit PROVE LogFits'
<1>1. /\ pc = "work" /\ pc' = "flush" /\ last < MaxSequence
      /\ last' = last + 1 /\ pending' = pending \cup {last + 1}
      /\ owner' = [owner EXCEPT ![last + 1] = run.attempt]
      /\ run' = [run EXCEPT !.probing = FALSE]
      /\ UNCHANGED <<logs, calls, reported>>
  BY DEF Emit, Queue!Put, vars
<1>2. last \in Nat /\ MaxSequence \in Nat /\ owner \in [1..MaxSequence -> Attempts \cup {None}]
  BY SequenceAssumption DEF RunnerInv, RunnerTypeOK
<1>3. Front' = Front
  <2>1. Front \in 1..(last + 1) /\ pending = Front..last
    BY FrontType DEF RunnerInv
  <2>2. Front \in 1..(last' + 1) /\ pending' = Front..last'
    BY <1>1, <1>2, <2>1
  <2>3. RunnerTypeOK'
    BY EmitStep DEF RunnerInv
  <2>4. ASSUME NEW m \in 1..(last' + 1), pending' = m..last' PROVE Front' = m
    BY <2>3, <2>4, FrontLater
  <2>5. QED
    BY <2>2, <2>4
<1>4. Open' = Open
  BY <1>1 DEF Open, RunnerInv, RunnerTypeOK
<1>5. \A a, n : Logged(a, n)' <=> Logged(a, n)
  BY <1>1 DEF Logged
<1>6. \A a, x : Reaches(a, x)' <=> Reaches(a, x)
  BY <1>5 DEF Reaches
<1>7. ASSUME NEW r \in Requests, calls'[r].pc = "insert" PROVE HandlerFits(r)'
  <2>1. HandlerFits(r) /\ calls[r].last \in Int /\ calls[r].first \in Nat
    <3>1. calls[r] \in AppendCall
      BY <1>1, <1>7, CallShape DEF RunnerInv, RunnerTypeOK
    <3>2. QED
      BY <1>1, <1>7, <3>1, HandlersFitEach DEF LogFits, AppendCall, Sequences
  <2>2. calls[r].last <= last'
    BY <1>1, <1>2, <2>1 DEF HandlerFits
  <2>3. \A n \in calls[r].first..calls[r].last : owner'[n] = owner[n]
    BY <1>1, <1>2, <2>1 DEF HandlerFits
  <2>4. QED
    BY <1>1, <1>3, <1>4, <1>5, <1>6, <2>1, <2>2, <2>3 DEF HandlerFits
<1>8. \A a \in Open' : Reaches(a, Front)'
  BY <1>3, <1>4, <1>6 DEF LogFits
<1>9. QED
  BY <1>7, <1>8, FitsLater

\* The batch begins at Front, so it fits the log and every older handler.
LEMMA SendFit == ASSUME RunnerInv, LogFits, Send PROVE LogFits'
<1> DEFINE a == run.attempt
<1>1. /\ pc = "flush" /\ pc' = "sent" /\ Running /\ Open = {a} /\ a \in Attempts
      /\ UNCHANGED <<last, pending, owner, logs, reported>> /\ pending # {}
  BY OpenRun DEF Send, BeginAppend, queue, Running, RunnerInv, RunHasItsAttempt
<1>2. last \in Nat /\ calls \in [Requests -> Call] /\ RunnerTypeOK
  BY SequenceAssumption DEF RunnerInv, RunnerTypeOK, TypeOK
<1>3. Front \in 1..(last + 1) /\ pending = Front..last
  BY FrontType DEF RunnerInv
<1>4. PICK b \in Front..last : Earliest(Batch) = Front /\ Latest(Batch) = b
  <2>1. PICK m \in 0..last : pending = (m + 1)..last
    BY DEF RunnerInv, QueueIsInterval
  <2>2. Front = m + 1
    BY <1>2, <2>1, FrontOfQueue
  <2>3. QED
    BY <1>1, <1>2, <2>1, <2>2, BatchOfQueue
<1>5. PICK r \in Requests :
        /\ run' = [run EXCEPT !.request = r]
        /\ calls' = [calls EXCEPT ![r] =
             [pc |-> "insert", job |-> run.job, attempt |-> a,
              first |-> Front, last |-> b, next |-> Front, status |-> None]]
  BY <1>4 DEF Send, BeginAppend
<1>6. Open' = {a}
  BY <1>1, <1>5 DEF Open, RunnerInv, RunnerTypeOK
<1>7. Front' = Front
  BY <1>1 DEF Front
<1>8. \A d, n : Logged(d, n)' <=> Logged(d, n)
  BY <1>1 DEF Logged
<1>9. \A d, x : Reaches(d, x)' <=> Reaches(d, x)
  BY <1>8 DEF Reaches
<1>10. /\ calls'[r].pc = "insert" /\ calls'[r].attempt = a
       /\ calls'[r].first = Front /\ calls'[r].last = b /\ calls'[r].next = Front
       /\ \A q \in Requests : q # r => calls'[q] = calls[q]
  BY <1>2, <1>5
<1>11. ASSUME NEW q \in Requests, q # r, calls[q].pc = "insert"
       PROVE  /\ HandlerFits(q)
              /\ calls[q].first \in Nat /\ calls[q].last \in Nat
  BY <1>11, CallShape, HandlersFitEach DEF LogFits, RunnerInv, RunnerTypeOK, AppendCall, Sequences
<1>12. HandlerFits(r)'
  <2>1. b <= last /\ Reaches(a, Front)
    BY <1>1, <1>2, <1>3, <1>4 DEF LogFits
  <2>2. ASSUME NEW q \in Requests, calls'[q].pc = "insert", calls'[q].attempt = a,
               NEW n \in Front..(calls'[q].first - 1)
        PROVE  Logged(a, n)
    <3>1. CASE q = r
      BY <1>3, <1>10, <2>2, <3>1
    <3>2. CASE q # r
      <4>1. calls[q].first <= Front
        BY <1>1, <1>10, <1>11, <2>2, <3>2 DEF HandlerFits
      <4>2. QED
        BY <1>3, <1>10, <1>11, <2>2, <3>2, <4>1
    <3>3. QED
      BY <3>1, <3>2
  <2>3. reported[a] = None
    BY <1>1 DEF RunnerInv, ReportEndsRun
  <2>4. \A n \in Front..(Front - 1) : FALSE
    BY <1>3
  <2>5. /\ Front <= Front
        /\ UNCHANGED <<last, owner, reported>>
    BY <1>1, <1>3
  <2>6. QED
    BY <1>6, <1>7, <1>8, <1>9, <1>10, <2>1, <2>2, <2>3, <2>4, <2>5 DEF HandlerFits
<1>13. ASSUME NEW q \in Requests, q # r, calls'[q].pc = "insert" PROVE HandlerFits(q)'
  <2> DEFINE c == calls[q]
  <2>1. calls'[q] = c /\ c.pc = "insert" /\ HandlerFits(q)
    BY <1>10, <1>11, <1>13
  <2>2. ASSUME NEW p \in Requests, calls'[p].pc = "insert", calls'[p].attempt = c.attempt,
               NEW n \in c.first..(calls'[p].first - 1)
        PROVE  Logged(c.attempt, n)
    <3>1. CASE p = r
      BY <1>1, <1>10, <2>1, <2>2, <3>1 DEF HandlerFits
    <3>2. CASE p # r
      BY <1>10, <2>1, <2>2, <3>2 DEF HandlerFits
    <3>3. QED
      BY <3>1, <3>2
  <2>3. UNCHANGED <<last, owner, reported>>
    BY <1>1
  <2>4. QED
    BY <1>1, <1>6, <1>7, <1>8, <1>9, <2>1, <2>2, <2>3 DEF HandlerFits
<1>14. \A d \in Open' : Reaches(d, Front)'
  BY <1>1, <1>6, <1>7, <1>9 DEF LogFits
<1>15. QED
  BY <1>12, <1>13, <1>14, FitsLater

\* Front moves past the batch, and the batch is in the log.
LEMMA AcknowledgedFit == ASSUME RunnerInv, LogFits, Acknowledged PROVE LogFits'
<1> DEFINE a == run.attempt
           r == run.request
           b == calls[r].last
<1>1. /\ pc = "sent" /\ pc' = "flush" /\ Running /\ Open = {a} /\ a \in Attempts
      /\ pending' = {k \in pending : k > b}
      /\ run' = [run EXCEPT !.request = None]
      /\ calls' = [calls EXCEPT ![r] = IdleCall]
      /\ UNCHANGED <<last, owner, logs, reported>>
  BY OpenRun DEF Acknowledged, AnswerAppend, Queue!Remove, Running, RunnerInv, RunHasItsAttempt
<1>2. last \in Nat /\ calls \in [Requests -> Call] /\ RunnerTypeOK
  BY SequenceAssumption DEF RunnerInv, RunnerTypeOK, TypeOK
<1>3. Front \in 1..(last + 1) /\ pending = Front..last
  BY FrontType DEF RunnerInv
<1>4. /\ r \in Requests /\ pending # {} /\ calls[r].pc = "insert" /\ calls[r].attempt = a
      /\ calls[r].next > b /\ calls[r].first = Earliest(Batch) /\ b = Latest(Batch)
  BY DEF Acknowledged, AnswerAppend, RunnerInv, RequestIsItsOwn
<1>5. b \in Front..last /\ calls[r].first = Front
  <2>1. PICK m \in 0..last : pending = (m + 1)..last
    BY DEF RunnerInv, QueueIsInterval
  <2>2. Front = m + 1
    BY <1>2, <2>1, FrontOfQueue
  <2>3. PICK k \in (m + 1)..last : Earliest(Batch) = m + 1 /\ Latest(Batch) = k
    BY <1>2, <1>4, <2>1, BatchOfQueue
  <2>4. QED
    BY <1>4, <2>2, <2>3
<1> HIDE DEF b
<1>6. \A n \in Front..b : Logged(a, n)
  <2>1. calls[r] \in AppendCall
    BY <1>2, <1>4, CallShape DEF RunnerTypeOK
  <2>2. \A n \in Front..(calls[r].next - 1) : Logged(a, n)
    BY <1>4, <1>5 DEF RunnerInv, IInv, BatchStoredSoFar, Logged
  <2>3. QED
    BY <1>3, <1>4, <1>5, <2>1, <2>2 DEF AppendCall
<1>7. Front' = b + 1
  <2>1. pending' = (b + 1)..last' /\ b + 1 \in 1..(last' + 1)
    BY <1>1, <1>2, <1>3, <1>5
  <2>2. RunnerTypeOK'
    BY AcknowledgedStep DEF RunnerInv
  <2>3. QED
    BY <2>1, <2>2, FrontLater
<1>8. Open' = {a}
  BY <1>1 DEF Open, RunnerInv, RunnerTypeOK
<1>9. \A d, n : Logged(d, n)' <=> Logged(d, n)
  BY <1>1 DEF Logged
<1>10. \A d, x : Reaches(d, x)' <=> Reaches(d, x)
  BY <1>9 DEF Reaches
<1>11. \A q \in Requests : calls'[q].pc = "insert" => q # r /\ calls'[q] = calls[q]
  BY <1>1, <1>2 DEF IdleCall
<1>12. ASSUME NEW q \in Requests, calls'[q].pc = "insert" PROVE HandlerFits(q)'
  <2> DEFINE c == calls[q]
  <2>1. calls'[q] = c /\ c.pc = "insert" /\ HandlerFits(q) /\ c.first \in Nat
    BY <1>2, <1>11, <1>12, CallShape, HandlersFitEach DEF LogFits, RunnerTypeOK, AppendCall, Sequences
  <2>2. \A p \in Requests :
          calls'[p].pc = "insert" /\ calls'[p].attempt = c.attempt =>
            \A n \in c.first..(calls'[p].first - 1) : Logged(c.attempt, n)
    BY <1>11, <2>1 DEF HandlerFits
  <2>3. ASSUME c.attempt = a
        PROVE  c.first <= b + 1 /\ \A n \in c.first..b : Logged(a, n)
    <3>1. c.first <= Front /\ \A n \in c.first..(Front - 1) : Logged(a, n)
      BY <1>1, <2>1, <2>3 DEF HandlerFits
    <3>2. QED
      BY <1>2, <1>3, <1>5, <1>6, <2>1, <3>1
  <2>4. UNCHANGED <<last, owner, reported>> /\ Front' - 1 = b /\ Open' = Open
    BY <1>1, <1>2, <1>5, <1>7, <1>8
  <2>5. c.attempt \in Open' =>
          c.first <= Front' /\ \A n \in c.first..(Front' - 1) : Logged(c.attempt, n)
    BY <1>7, <1>8, <2>3, <2>4
  <2>6. QED
    BY <1>9, <1>10, <2>1, <2>2, <2>4, <2>5 DEF HandlerFits
<1>13. Reaches(a, b + 1)
  <2>1. Reaches(a, Front)
    BY <1>1 DEF LogFits
  <2>2. ASSUME NEW k \in Sequences, NEW n \in Sequences, Logged(a, k),
               (k <= n /\ n < b + 1) \/ (b + 1 <= n /\ n <= k)
        PROVE  Logged(a, n)
    <3>1. k \in Nat /\ n \in Nat
      BY SequenceAssumption DEF Sequences
    <3>2. CASE n \in Front..b
      BY <1>6, <3>2
    <3>3. CASE n < Front
      <4>1. k <= n
        BY <1>2, <1>3, <1>5, <2>2, <3>1, <3>3
      <4>2. QED
        BY <2>1, <2>2, <3>3, <4>1 DEF Reaches
    <3>4. CASE b < n
      <4>1. Front <= n /\ n <= k
        BY <1>2, <1>3, <1>5, <2>2, <3>1, <3>4
      <4>2. QED
        BY <2>1, <2>2, <4>1 DEF Reaches
    <3>5. QED
      BY <1>2, <1>3, <1>5, <3>1, <3>2, <3>3, <3>4
  <2>3. QED
    BY <2>2 DEF Reaches
<1>14. QED
  BY <1>7, <1>8, <1>10, <1>12, <1>13, FitsLater

\* With the outbox empty the log has all of every batch under way.
LEMMA SendCompleteFit == ASSUME RunnerInv, LogFits, SendComplete PROVE LogFits'
<1> DEFINE a == run.attempt
<1>1. /\ pc = "complete" /\ pc' = "completing" /\ Open = {a} /\ a \in Attempts
      /\ UNCHANGED <<last, pending, owner, logs>>
  BY OpenRun DEF SendComplete, BeginComplete, queue, Running, RunnerInv, RunHasItsAttempt
<1>2. last \in Nat /\ calls \in [Requests -> Call] /\ RunnerTypeOK
  BY SequenceAssumption DEF RunnerInv, RunnerTypeOK, TypeOK
<1>3. PICK r \in Requests :
        /\ run' = [run EXCEPT !.request = r]
        /\ calls' = [calls EXCEPT ![r] =
             [pc |-> "attempt", job |-> run.job, attempt |-> a, first |-> 0,
              last |-> 0, next |-> 0, status |-> run.result]]
        /\ reported' = [reported EXCEPT ![a] = run.result]
  BY DEF SendComplete, BeginComplete
<1>4. Open' = {a} /\ Front' = Front
  <2>1. run'.attempt = a
    BY <1>3 DEF RunnerInv, RunnerTypeOK
  <2>2. Open' = {a}
    BY <1>1, <2>1 DEF Open
  <2>3. Front' = Front
    BY <1>1 DEF Front
  <2>4. QED
    BY <1>1, <2>2, <2>3
<1>5. Front = last + 1
  <2>1. pending = {}
    BY <1>1 DEF RunnerInv, FlushedToTheEnd
  <2>2. (last + 1)..last = {} /\ last + 1 \in 1..(last + 1)
    BY <1>2
  <2>3. QED
    BY <1>2, <2>1, <2>2, FrontOfQueue
<1>6. \A q \in Requests : calls'[q].pc = "insert" => calls'[q] = calls[q]
  BY <1>2, <1>3
<1>7. \A d, n : Logged(d, n)' <=> Logged(d, n)
  BY <1>1 DEF Logged
<1>8. \A d, x : Reaches(d, x)' <=> Reaches(d, x)
  BY <1>7 DEF Reaches
<1>9. ASSUME NEW q \in Requests, calls'[q].pc = "insert" PROVE HandlerFits(q)'
  <2> DEFINE c == calls[q]
  <2>1. /\ calls'[q] = c /\ c.pc = "insert" /\ HandlerFits(q)
        /\ c.first \in Nat /\ c.last \in Nat /\ c.attempt \in Attempts
    BY <1>2, <1>6, <1>9, CallShape, HandlersFitEach
    DEF LogFits, RunnerTypeOK, AppendCall, Sequences
  <2>2. \A p \in Requests :
          calls'[p].pc = "insert" /\ calls'[p].attempt = c.attempt =>
            \A n \in c.first..(calls'[p].first - 1) : Logged(c.attempt, n)
    BY <1>6, <2>1 DEF HandlerFits
  <2>3. reported'[c.attempt] # None => \A n \in c.first..c.last : Logged(c.attempt, n)
    <3>1. CASE c.attempt = a
      <4>1. \A n \in c.first..(Front - 1) : Logged(a, n)
        BY <1>1, <2>1, <3>1 DEF HandlerFits
      <4>2. c.last <= Front - 1
        BY <1>2, <1>5, <2>1 DEF HandlerFits
      <4>3. QED
        BY <1>2, <1>5, <2>1, <3>1, <4>1, <4>2
    <3>2. CASE c.attempt # a
      <4>1. reported'[c.attempt] = reported[c.attempt]
        BY <1>3, <2>1, <3>2 DEF RunnerInv, IInv, TypeOK
      <4>2. QED
        BY <2>1, <4>1 DEF HandlerFits
    <3>3. QED
      BY <3>1, <3>2
  <2>4. UNCHANGED <<last, owner, Open, Front>>
    BY <1>1, <1>4
  <2>5. QED
    BY <1>7, <1>8, <2>1, <2>2, <2>3, <2>4 DEF HandlerFits
<1>10. \A d \in Open' : Reaches(d, Front)'
  BY <1>1, <1>4, <1>8 DEF LogFits
<1>11. QED
  BY <1>9, <1>10, FitsLater

\* A row added to a log does no harm to a number the log reaches, if the
\* log has everything between the two.
LEMMA ReachAfterRow ==
  ASSUME NEW a, NEW m \in Sequences, NEW x \in Nat, Reaches(a, x),
         \A n : Logged(a, n)' <=> (Logged(a, n) \/ n = m),
         \A n \in Sequences : (m < n /\ n < x) \/ (x <= n /\ n < m) => Logged(a, n)
  PROVE  Reaches(a, x)'
<1>1. m \in Nat /\ \A n \in Sequences : n \in Nat
  BY SequenceAssumption DEF Sequences
<1>2. SUFFICES ASSUME NEW k \in Sequences, NEW n \in Sequences, Logged(a, k)',
                      (k <= n /\ n < x) \/ (x <= n /\ n <= k)
               PROVE  Logged(a, n)'
  BY DEF Reaches, Sequences
<1>3. CASE Logged(a, k)
  BY <1>2, <1>3 DEF Reaches
<1>4. CASE k = m
  <2>1. n = m \/ (m < n /\ n < x) \/ (x <= n /\ n < m)
    BY <1>1, <1>2, <1>4
  <2>2. QED
    BY <1>4, <2>1
<1>5. QED
  BY <1>2, <1>3, <1>4

\* One row, whether it was there already or not.
LEMMA RowInserted ==
  ASSUME NEW r \in Requests, InsertLog(r)
  PROVE  \A d, n : Logged(d, n)' <=>
           (Logged(d, n) \/ (d = calls[r].attempt /\ n = calls[r].next))
<1> DEFINE c == calls[r]
           new == [attempt |-> c.attempt, sequence |-> c.next, job |-> c.job]
<1>1. new.attempt = c.attempt /\ new.sequence = c.next
  OBVIOUS
<1>2. \/ logs' = logs /\ Logged(c.attempt, c.next)
      \/ logs' = logs \cup {new}
  BY DEF InsertLog, Logged
<1> HIDE DEF new, c
<1>3. \A d, n : Logged(d, n)' <=> (Logged(d, n) \/ (d = c.attempt /\ n = c.next))
  BY <1>1, <1>2 DEF Logged
<1>4. QED
  BY <1>3 DEF c

\* What an append handler inserts continues the log, whoever else is at it.
LEMMA InsertFit ==
  ASSUME RunnerInv, LogFits, NEW r \in Requests, InsertLog(r),
         UNCHANGED <<queue, pc, run>>
  PROVE  LogFits'
<1> DEFINE c == calls[r]
           a == c.attempt
           m == c.next
<1>1. c.pc = "insert" /\ m <= c.last
  BY DEF InsertLog
<1>2. /\ last \in Nat /\ calls \in [Requests -> Call] /\ RunnerTypeOK
      /\ UNCHANGED <<last, pending, owner, reported, Open, Front>>
  BY SequenceAssumption DEF InsertLog, queue, Open, Front, RunnerInv, RunnerTypeOK, TypeOK
<1>3. \A q \in Requests : calls[q].pc = "insert" =>
        calls[q] \in AppendCall /\ calls[q].first \in Nat /\ calls[q].last \in Nat
        /\ HandlerFits(q)
  BY <1>2, CallShape, HandlersFitEach, SequenceAssumption
  DEF LogFits, RunnerTypeOK, AppendCall, Sequences
<1>4. m \in Nat /\ m \in Sequences /\ c.first \in Nat /\ a \in Attempts
  BY <1>1, <1>3, SequenceAssumption DEF AppendCall, Sequences
<1>5. \A d, n : Logged(d, n)' <=> (Logged(d, n) \/ (d = a /\ n = m))
  BY RowInserted, <1>4
<1>6. \A q \in Requests :
        /\ calls'[q].pc = calls[q].pc
        /\ calls[q].pc = "insert" =>
             /\ calls'[q].attempt = calls[q].attempt
             /\ calls'[q].first = calls[q].first /\ calls'[q].last = calls[q].last
             /\ calls'[q].next \in {calls[q].next, calls[q].next + 1}
  BY <1>1, <1>2, <1>3 DEF InsertLog, AppendCall
<1>7. \A n \in c.first..(m - 1) : Logged(a, n)
  BY <1>1 DEF RunnerInv, IInv, BatchStoredSoFar, Logged
<1>8. m >= c.first
  BY <1>1, <1>3, <1>4 DEF HandlerFits
<1>9. ASSUME NEW d, NEW x \in Nat, Reaches(d, x),
              d = a => \A n \in Sequences :
                         (m < n /\ n < x) \/ (x <= n /\ n < m) => Logged(a, n)
       PROVE  Reaches(d, x)'
  <2>1. CASE d = a
    <3>1. PICK k \in Sequences : k = m
      BY <1>4
    <3>2. QED
      BY <1>5, <1>9, <2>1, <3>1, ReachAfterRow
  <2>2. CASE d # a
    BY <1>5, <1>9, <2>2 DEF Reaches, Sequences
  <2>3. QED
    BY <2>1, <2>2
<1>10. ASSUME NEW q \in Requests, calls[q].pc = "insert",
             NEW d, d = calls[q].attempt, NEW x, x = calls[q].first
      PROVE  Reaches(d, x)'
  <2>1. ASSUME d = a, NEW n \in Sequences,
               (m < n /\ n < x) \/ (x <= n /\ n < m)
        PROVE  Logged(a, n)
    <3>1. x \in Nat /\ n \in Nat
      BY <1>3, <1>10, SequenceAssumption DEF Sequences
    <3>2. CASE m < n /\ n < x
      <4>1. \A k \in c.first..(x - 1) : Logged(a, k)
        BY <1>1, <1>3, <1>10, <2>1 DEF HandlerFits
      <4>2. QED
        BY <1>4, <1>8, <3>1, <3>2, <4>1
    <3>3. CASE x <= n /\ n < c.first
      <4>1. \A k \in x..(c.first - 1) : Logged(a, k)
        BY <1>1, <1>3, <1>10, <2>1 DEF HandlerFits
      <4>2. QED
        BY <1>4, <3>1, <3>3, <4>1
    <3>4. CASE c.first <= n /\ n < m
      BY <1>4, <1>7, <3>1, <3>4
    <3>5. QED
      BY <1>4, <2>1, <3>1, <3>2, <3>3, <3>4
  <2>2. Reaches(d, x) /\ x \in Nat
    BY <1>3, <1>10 DEF HandlerFits
  <2>3. QED
    BY <1>9, <2>1, <2>2
<1>11. ASSUME NEW q \in Requests, calls'[q].pc = "insert" PROVE HandlerFits(q)'
  <2>1. HandlerFits(q) /\ calls[q].pc = "insert"
    BY <1>3, <1>6, <1>11
  <2>2. \A d, x : d = calls[q].attempt /\ x = calls[q].first => Reaches(d, x)'
    BY <1>10, <2>1
  <2>3. calls'[q].first <= calls'[q].next
    BY <1>3, <1>6, <2>1 DEF HandlerFits, AppendCall
  <2>4. QED
    BY <1>2, <1>5, <1>6, <2>1, <2>2, <2>3 DEF HandlerFits
<1>12. ASSUME NEW d \in Open', NEW x, x = Front PROVE Reaches(d, x)'
  <2>1. Front \in Nat /\ Reaches(d, Front)
    BY <1>2, <1>12, FrontType DEF LogFits, RunnerInv
  <2>2. ASSUME d = a, NEW n \in Sequences, (m < n /\ n < Front) \/ (Front <= n /\ n < m)
        PROVE  Logged(a, n)
    <3>1. n \in Nat /\ c.first <= Front /\ \A k \in c.first..(Front - 1) : Logged(a, k)
      BY <1>1, <1>2, <1>3, <1>12, <2>2, SequenceAssumption DEF HandlerFits, Sequences
    <3>2. n \in c.first..(Front - 1) \/ n \in c.first..(m - 1)
      BY <1>4, <1>8, <2>1, <2>2, <3>1
    <3>3. QED
      BY <1>7, <3>1, <3>2
  <2>3. QED
    BY <1>12, <1>9, <2>1, <2>2
<1>13. \A d \in Open' : Reaches(d, Front)'
  BY <1>2, <1>12
<1>14. QED
  BY <1>11, <1>13, FitsLater

-----------------------------------------------------------------------------
(* The theorems.                                                           *)

\* Every step is one of six kinds.
StepKind ==
  \/ QuietStep
  \/ Emit \/ Send \/ Acknowledged \/ SendComplete
  \/ \E r \in Requests : InsertLog(r) /\ UNCHANGED <<queue, pc, run>>

LEMMA Kinds == RunnerInv /\ [RunnerNext]_runnerVars => StepKind
<1> SUFFICES ASSUME RunnerInv, RunnerNext \/ UNCHANGED runnerVars PROVE StepKind
  OBVIOUS
<1>1. CASE ClaimJob \/ ClaimWasted
  BY <1>1, ClaimQuiet DEF StepKind
<1>2. CASE Local
  BY <1>2, LocalQuiet DEF StepKind
<1>3. CASE Renewed \/ RenewAnswerLost
  BY <1>3, RenewQuiet DEF StepKind
<1>4. CASE Completed
  BY <1>4, CompletedQuiet DEF StepKind
<1>5. CASE Lapse \/ Lose \/ Admin
  BY <1>5, OthersQuiet DEF StepKind
<1>6. CASE \E r \in Requests : Serve(r)
  <2>1. PICK r \in Requests : Serve(r)
    BY <1>6
  <2>2. CASE InsertLog(r)
    BY <2>1, <2>2 DEF StepKind, Serve
  <2>3. CASE ~InsertLog(r)
    BY <2>1, <2>3, OthersQuiet DEF StepKind
  <2>4. QED
    BY <2>2, <2>3
<1>7. CASE UNCHANGED runnerVars
  <2>1. UNCHANGED <<last, pending, owner, logs, reported, calls, Open>>
    BY <1>7 DEF runnerVars, queue, vars, Open
  <2>2. QED
    BY <2>1 DEF StepKind, QuietStep
<1>8. CASE Emit \/ Send \/ Acknowledged \/ SendComplete
  BY <1>8 DEF StepKind
<1>9. QED
  BY <1>1, <1>2, <1>3, <1>4, <1>5, <1>6, <1>7, <1>8
  DEF RunnerNext, WorkerCall, Fault, Local

\* The append handlers in flight fit the logs, the outbox and each other.
THEOREM LogFitsAlways == RunnerSpec => []LogFits
<1>1. RunnerInit => LogFits
  <2> SUFFICES ASSUME RunnerInit PROVE LogFits
    OBVIOUS
  <2>1. Open = {} /\ \A r \in Requests : calls[r].pc # "insert"
    BY DEF RunnerInit, Init, IdleCall, Open
  <2>2. QED
    BY <2>1 DEF LogFits, HandlersFit
<1>2. RunnerInv /\ LogFits /\ [RunnerNext]_runnerVars => LogFits'
  BY Kinds, QuietKeepsFit, EmitFit, SendFit, AcknowledgedFit, SendCompleteFit, InsertFit
  DEF StepKind
<1>3. QED
  BY <1>1, <1>2, RunnerInvariance, PTL DEF RunnerSpec

\* The rows of ProgressLog.
Shown == {<<row.attempt, row.sequence>> : row \in logs}
Closed == {a \in Attempts : reported[a] # None}

LEMMA ShownIsLogged == \A a, n : <<a, n>> \in Shown <=> Logged(a, n)
BY DEF Shown, Logged

LEMMA LogInitial == RunnerInit => Log!Init
<1> SUFFICES ASSUME RunnerInit PROVE Log!Init
  OBVIOUS
<1>1. last = 0 /\ logs = {} /\ pc = "idle" /\ owner = [n \in 1..MaxSequence |-> None]
      /\ reported = [a \in Attempts |-> None]
  BY DEF RunnerInit, Init, Queue!Init
<1>2. Shown = {} /\ Closed = {} /\ Open = {}
  BY <1>1 DEF Shown, Closed, Open
<1>3. \A n \in DOMAIN owner : owner[n] \notin Attempts
  BY <1>1, NoneAssumption
<1>4. QED
  BY <1>1, <1>2, <1>3 DEF Log!Init, Shown, Closed

\* A quiet step starts a run, ends one, or is not seen in the logs.
LEMMA QuietLog ==
  ASSUME RunnerInv, QuietStep
  PROVE  [Log!Next]_Log!logVars
<1>1. UNCHANGED <<last, owner, Shown, Closed>>
  BY DEF QuietStep, Shown, Closed
<1>2. CASE Open' = Open
  BY <1>1, <1>2 DEF Log!logVars, Shown, Closed
<1>3. CASE Open' = {}
  BY <1>1, <1>3 DEF Log!Next, Log!Leave, Shown, Closed
<1>4. CASE Open = {} /\ Open' # {}
  <2>1. PICK a : Open' = {a}
    BY <1>4 DEF Open
  <2>2. Fresh(a)
    BY <1>4, <2>1 DEF QuietStep
  <2>3. \A n \in 1..last : owner[n] # a /\ <<a, n>> \notin Shown
    BY <2>2, ShownIsLogged DEF Fresh, Logged
  <2>4. a \in Attempts /\ a \notin Closed
    BY <2>2 DEF Fresh, Closed
  <2>5. Log!Start(a)
    BY <1>1, <1>4, <2>1, <2>3, <2>4 DEF Log!Start, Shown, Closed
  <2>6. QED
    BY <2>4, <2>5 DEF Log!Next
<1>5. QED
  BY <1>2, <1>3, <1>4 DEF QuietStep

LEMMA EmitLog == ASSUME RunnerInv, Emit PROVE Log!Next
<1>1. /\ pc = "work" /\ pc' = "flush" /\ run'.attempt = run.attempt
      /\ last' = last + 1 /\ owner' = [owner EXCEPT ![last + 1] = run.attempt]
      /\ UNCHANGED <<logs, reported>>
  BY DEF Emit, Queue!Put, vars, RunnerInv, RunnerTypeOK
<1>2. run.attempt \in Attempts /\ reported[run.attempt] = None
  BY <1>1 DEF RunnerInv, RunHasItsAttempt, ReportEndsRun, Running
<1>3. Open = {run.attempt} /\ Open' = Open
  BY <1>1 DEF Open
<1>4. run.attempt \in Open \ Closed /\ UNCHANGED <<Shown, Closed>>
  BY <1>1, <1>2, <1>3 DEF Shown, Closed
<1>5. Log!Emit(run.attempt)
  BY <1>1, <1>3, <1>4 DEF Log!Emit, Shown, Closed
<1>6. QED
  BY <1>2, <1>5 DEF Log!Next

\* Neither sending a batch nor dropping it from the outbox shows.
LEMMA BatchLog == ASSUME RunnerInv, Send \/ Acknowledged PROVE UNCHANGED Log!logVars
<1>1. /\ pc \in {"flush", "sent"} /\ pc' \in {"flush", "sent"}
      /\ UNCHANGED <<last, owner, logs, reported>>
  BY DEF Send, Acknowledged, BeginAppend, AnswerAppend, Queue!Remove, queue
<1>2. run'.attempt = run.attempt
  BY DEF Send, Acknowledged, RunnerInv, RunnerTypeOK
<1>3. UNCHANGED <<last, owner, Open, Shown, Closed>>
  BY <1>1, <1>2 DEF Open, Shown, Closed
<1>4. QED
  BY <1>3 DEF Log!logVars, Shown, Closed

\* The run reports once, with all its events in its log.
LEMMA CloseLog == ASSUME RunnerInv, SendComplete PROVE Log!Next
<1> DEFINE a == run.attempt
<1>1. /\ pc = "complete" /\ pc' = "completing" /\ run'.attempt = a
      /\ UNCHANGED <<last, owner, logs>>
      /\ reported' = [reported EXCEPT ![a] = run.result]
  BY DEF SendComplete, BeginComplete, queue, RunnerInv, RunnerTypeOK
<1>2. a \in Attempts /\ reported[a] = None /\ pending = {} /\ run.result # None
      /\ reported \in [Attempts -> Reports \cup {None}]
  BY <1>1 DEF RunnerInv, RunHasItsAttempt, ReportEndsRun, FlushedToTheEnd, Running, IInv, TypeOK
<1>3. Open = {a} /\ UNCHANGED <<Open, Shown>>
  BY <1>1 DEF Open, Shown
<1>4. Closed' = Closed \cup {a} /\ a \notin Closed
  BY <1>1, <1>2 DEF Closed
<1>5. \A n \in 1..last : owner[n] = a => <<a, n>> \in Shown
  BY <1>1, <1>2, ShownIsLogged DEF RunnerInv, OwnEventsKept, Running
<1>6. PICK d \in Attempts : d = a
  BY <1>2
<1>7. Log!Close(d)
  BY <1>1, <1>3, <1>4, <1>5, <1>6 DEF Log!Close, Shown, Closed
<1>8. QED
  BY <1>7 DEF Log!Next

\* A new row is the next one of its log.
LEMMA ShowLog ==
  ASSUME RunnerInv, LogFits, NEW r \in Requests, InsertLog(r),
         UNCHANGED <<queue, pc, run>>
  PROVE  [Log!Next]_Log!logVars
<1> DEFINE c == calls[r]
           a == c.attempt
           m == c.next
<1>1. UNCHANGED <<last, owner, Open, Closed>>
  BY DEF InsertLog, queue, Open, Closed
<1>2. c.pc = "insert" /\ m <= c.last
  BY DEF InsertLog
<1>3. c \in AppendCall /\ HandlerFits(r) /\ a \in Attempts
  BY <1>2, CallShape, HandlersFitEach DEF RunnerInv, RunnerTypeOK, LogFits, AppendCall
<1>4. m \in 1..last /\ m \in Sequences /\ c.first \in Nat /\ c.first <= m /\ c.first >= 1
      /\ c.last \in Nat /\ last \in Nat
  BY <1>2, <1>3, SequenceAssumption
  DEF AppendCall, HandlerFits, Sequences, RunnerInv, RunnerTypeOK
<1>5. \A d, n : Logged(d, n)' <=> (Logged(d, n) \/ (d = a /\ n = m))
  BY RowInserted
<1>6. CASE Logged(a, m)
  <2>1. logs' = logs
    BY <1>6 DEF InsertLog, Logged
  <2>2. QED
    BY <1>1, <2>1 DEF Log!logVars, Shown, Closed
<1>7. CASE ~Logged(a, m)
  <2>1. a \notin Closed
    BY <1>2, <1>3, <1>4, <1>7 DEF HandlerFits, Closed
  <2>2. owner[m] \in Open => owner[m] = a
    BY <1>2, <1>3, <1>4 DEF HandlerFits
  <2>3. ASSUME NEW k \in 1..last, Logged(a, k) PROVE k < m /\ Logged(a, m - 1)
    <3>1. k \in Nat /\ k \in Sequences /\ last <= MaxSequence /\ MaxSequence \in Nat
      BY <1>4, SequenceAssumption DEF RunnerInv, RunnerTypeOK, Sequences
    <3>2. Reaches(a, c.first)
      BY <1>3 DEF HandlerFits
    <3>3. k < m
      BY <1>4, <1>7, <2>3, <3>1, <3>2 DEF Reaches
    <3>4. CASE c.first <= m - 1
      <4>1. m - 1 \in c.first..(m - 1)
        BY <1>4, <3>4
      <4>2. QED
        BY <1>2, <3>3, <4>1 DEF RunnerInv, IInv, BatchStoredSoFar, Logged
    <3>5. CASE m = c.first
      <4>1. m - 1 \in Sequences /\ k <= m - 1 /\ m - 1 < c.first
        BY <1>4, <3>1, <3>3, <3>5 DEF Sequences
      <4>2. \A n \in Sequences : k <= n /\ n < c.first => Logged(a, n)
        BY <2>3, <3>1, <3>2 DEF Reaches
      <4>3. QED
        BY <3>3, <4>1, <4>2
    <3>6. QED
      BY <1>4, <3>3, <3>4, <3>5
  <2>4. Shown' = Shown \cup {<<a, m>>}
    <3> DEFINE new == [attempt |-> a, sequence |-> m, job |-> c.job]
    <3>1. logs' = logs \cup {new} /\ new.attempt = a /\ new.sequence = m
      BY <1>7 DEF InsertLog, Logged
    <3> HIDE DEF new
    <3>2. QED
      BY <3>1 DEF Shown
  <2>5. <<a, m>> \notin Shown
        /\ \A k \in 1..last : <<a, k>> \in Shown => k < m /\ <<a, m - 1>> \in Shown
    BY <1>7, <2>3, ShownIsLogged
  <2>6. PICK d \in Attempts, n \in 1..last : d = a /\ n = m
    BY <1>3, <1>4
  <2>7. Log!Show(d, n)
    BY <1>1, <2>1, <2>2, <2>4, <2>5, <2>6 DEF Log!Show, Shown, Closed
  <2>8. QED
    BY <2>6, <2>7 DEF Log!Next
<1>8. QED
  BY <1>6, <1>7

\* The log page keeps ProgressLog's promise, through every fault.
THEOREM LogImplementation == RunnerSpec => ImplementsLog
<1>1. RunnerInv /\ LogFits /\ [RunnerNext]_runnerVars => [Log!Next]_Log!logVars
  BY Kinds, QuietLog, EmitLog, BatchLog, CloseLog, ShowLog DEF StepKind
<1>2. QED
  BY <1>1, LogInitial, RunnerInvariance, LogFitsAlways, PTL
  DEF RunnerSpec, ImplementsLog, Log!Spec
=============================================================================
