------------------------- MODULE WorkerRunnerProofs -------------------------
(***************************************************************************)
(* Proofs about WorkerRunner, for any server instance, batch size and      *)
(* selection of faults.  A worker's step is a step of LeaseStore, so the   *)
(* server's invariant comes from LeaseStoreProofs; what is left is the     *)
(* worker's own record of its run against the server's rows.               *)
(***************************************************************************)
EXTENDS WorkerRunner, LeaseStoreProofs, FiniteSetTheorems

RunRecord ==
  [job: Jobs \cup {None}, attempt: Attempts \cup {None},
   lost: BOOLEAN, cancel: BOOLEAN, result: Reports \cup {None},
   probing: BOOLEAN, stopping: BOOLEAN, request: Requests \cup {None}]

\* The server's invariant, one step.
LEMMA ServerInv == IInv /\ [Next]_vars => IInv'
BY TypeNext, RowNext, LogNext DEF IInv, RowInv, LogInv

\* The batch is the beginning of the pending interval.
LEMMA BatchOfQueue ==
  ASSUME RunnerTypeOK, NEW m \in 0..last, pending = (m + 1)..last, pending # {}
  PROVE  \E b \in (m + 1)..last :
           Batch = (m + 1)..b /\ Earliest(Batch) = m + 1 /\ Latest(Batch) = b
<1>1. m \in Int /\ last \in Int /\ BatchSize \in Int /\ BatchSize >= 1 /\ m < last
  BY SequenceAssumption, BatchAssumption DEF RunnerTypeOK
<1> DEFINE lo == m + 1
<1>2. ASSUME NEW n \in lo..last
      PROVE  Cardinality({k \in pending : k < n}) = n - lo
  <2>1. {k \in pending : k < n} = lo..(n - 1)
    BY <1>1
  <2>2. lo \in Int /\ n \in Int /\ lo <= n
    BY <1>1
  <2> HIDE DEF lo
  <2>3. Cardinality(lo..(n - 1)) = IF lo > n - 1 THEN 0 ELSE (n - 1) - lo + 1
    BY <2>2, FS_Interval
  <2>4. (IF lo > n - 1 THEN 0 ELSE (n - 1) - lo + 1) = n - lo
    BY <2>2
  <2>5. QED
    BY <2>1, <2>3, <2>4
<1>3. Batch = {n \in lo..last : n - lo < BatchSize}
  BY <1>2 DEF Batch
<1> DEFINE b == IF lo + BatchSize - 1 <= last THEN lo + BatchSize - 1 ELSE last
<1>4. b \in lo..last /\ Batch = lo..b /\ lo \in Int /\ b \in Int /\ lo <= b
  BY <1>1, <1>3
<1>5. Earliest(lo..b) = lo /\ Latest(lo..b) = b
  <2> HIDE DEF lo, b
  <2>1. \A n \in lo..b : (\A k \in lo..b : n <= k) => n = lo
    BY <1>4
  <2>2. \A n \in lo..b : (\A k \in lo..b : n >= k) => n = b
    BY <1>4
  <2>3. /\ lo \in lo..b /\ \A k \in lo..b : lo <= k
        /\ b \in lo..b /\ \A k \in lo..b : b >= k
    BY <1>4
  <2>4. QED
    BY <2>1, <2>2, <2>3 DEF Earliest, Latest
<1>6. QED
  BY <1>4, <1>5

\* What a worker does to the server is one of the server's own steps.
LEMMA ServerStep ==
  ASSUME RunnerInv, [RunnerNext]_runnerVars
  PROVE  [Next]_vars
<1> USE DEF RunnerInv
<1>1. CASE ClaimJob \/ ClaimWasted
  BY <1>1, SelfAssumption DEF ClaimJob, ClaimWasted, Next
<1>2. CASE Send
  <2>1. run.attempt \in Attempts /\ run.job \in Jobs
    BY <1>2 DEF Send, RunHasItsAttempt, Running
  <2>2. Earliest(Batch) \in Sequences /\ Latest(Batch) \in Sequences
    <3>1. PICK m \in 0..last : pending = (m + 1)..last
      BY DEF QueueIsInterval
    <3>2. PICK b \in (m + 1)..last : Earliest(Batch) = m + 1 /\ Latest(Batch) = b
      BY <1>2, <3>1, BatchOfQueue DEF Send
    <3>3. m \in Int /\ b \in Int /\ 0 <= m /\ m < b /\ b <= last /\ last <= MaxSequence
          /\ last \in Int /\ MaxSequence \in Int
      BY <3>2, SequenceAssumption DEF RunnerTypeOK
    <3>4. QED
      BY <3>2, <3>3 DEF Sequences
  <2>3. QED
    BY <1>2, <2>1, <2>2 DEF Send, Next
<1>3. CASE Acknowledged \/ Completed
  <2>1. run.request \in Requests
    BY <1>3 DEF Acknowledged, Completed, RequestIsItsOwn
  <2>2. QED
    BY <1>3, <2>1 DEF Acknowledged, Completed, Next, Handler
<1>4. CASE Renewed \/ RenewAnswerLost
  <2>1. run.attempt \in Attempts /\ run.job \in Jobs
    BY <1>4 DEF Renewed, RenewAnswerLost, RunHasItsAttempt, Running
  <2>2. QED
    BY <1>4, <2>1 DEF Renewed, RenewAnswerLost, Next
<1>5. CASE SendComplete
  <2>1. run.attempt \in Attempts /\ run.job \in Jobs
    BY <1>5 DEF SendComplete, RunHasItsAttempt, Running
  <2>2. run.result \in Reports
    BY <1>5 DEF SendComplete, RunnerTypeOK, FlushedToTheEnd
  <2>3. QED
    BY <1>5, <2>1, <2>2 DEF SendComplete, Next
<1>6. CASE Lapse \/ Lose \/ Admin \/ \E r \in Requests : Serve(r)
  BY <1>6 DEF Lapse, Lose, Admin, Serve, Next, Handler
<1>7. CASE UNCHANGED vars
  BY <1>7
<1>8. QED
  BY <1>1, <1>2, <1>3, <1>4, <1>5, <1>6, <1>7
  DEF RunnerNext, WorkerCall, Fault, Emit, Probe, Return, SendRefused, Flushed,
      RenewNotDue, RenewRefused, Refreshed, CompleteRefused, CallLost, TimeOut,
      Crash, Restart, runnerVars

-----------------------------------------------------------------------------
(* The worker's record of its run, one lemma per kind of step.             *)

\* The steps of the worker that touch neither the server nor the outbox.
Local ==
  \/ Probe \/ Return \/ SendRefused \/ Flushed \/ RenewNotDue \/ RenewRefused
  \/ Refreshed \/ CompleteRefused \/ CallLost \/ TimeOut \/ Crash \/ Restart

\* Such a step ends the run or goes on with the same lease.
GoesOn ==
  /\ Running /\ pc # "completing"
  /\ pc' \in Places \ {"down", "idle", "sent", "completing"}
  /\ run' \in RunRecord
  /\ run'.job = run.job /\ run'.attempt = run.attempt
  /\ run'.lost => ~Holds
  /\ run'.result # None /\ pc' # "flush" => pending = {}
  /\ pc' = "complete" => run'.result # None

Ends == pc' \in {"idle", "down"} /\ run' = NoRun

LEMMA NoRunType == NoRun \in RunRecord
BY DEF NoRun, RunRecord

\* An exception in the pipeline leads to the last flush, a later one out.
LEMMA RaiseShape ==
  ASSUME RunnerInv, Raise, Running PROVE GoesOn \/ Ends
<1> USE DEF RunnerInv, RunnerTypeOK
<1>1. CASE run.result = None
  <2>1. pc # "completing"
    BY <1>1 DEF FlushedToTheEnd
  <2>2. pc' = "flush" /\ run' = [run EXCEPT !.result = "failed", !.request = None]
    BY <1>1 DEF Raise
  <2>3. run \in RunRecord
    BY DEF RunRecord
  <2>4. run' \in RunRecord
    BY <2>2, <2>3, ResultAssumption DEF RunRecord
  <2>5. /\ run'.job = run.job /\ run'.attempt = run.attempt
        /\ run'.lost = run.lost
    BY <2>2, <2>3 DEF RunRecord
  <2>6. QED
    BY <2>1, <2>2, <2>4, <2>5 DEF GoesOn, Places, LostIsLost, Holds
<1>2. CASE run.result # None
  BY <1>2 DEF Raise, Exit, Ends
<1>3. QED
  BY <1>1, <1>2

LEMMA LocalShape ==
  ASSUME RunnerInv, Local PROVE (GoesOn \/ Ends) /\ UNCHANGED <<vars, queue>>
<1> USE DEF RunnerInv, RunnerTypeOK
<1>1. run \in RunRecord
  BY DEF RunRecord
<1>2. UNCHANGED <<vars, queue>>
  BY DEF Local, Probe, Return, SendRefused, Flushed, RenewNotDue, RenewRefused,
     Refreshed, CompleteRefused, CallLost, TimeOut, Crash, Restart
<1>3. CASE SendRefused \/ CompleteRefused \/ CallLost \/ TimeOut
  <2>1. Raise /\ Running
    BY <1>3 DEF SendRefused, CompleteRefused, CallLost, TimeOut, Running
  <2>2. QED
    BY <1>2, <2>1, RaiseShape
<1>4. CASE Crash
  BY <1>2, <1>4 DEF Crash, Exit, Ends
<1>5. CASE Restart
  BY <1>2, <1>5 DEF Restart, Ends, RunHasItsAttempt, Running
<1>6. CASE Probe
  <2>1. run' \in RunRecord
    BY <1>1, <1>6 DEF Probe, RunRecord
  <2>2. /\ run'.job = run.job /\ run'.attempt = run.attempt
        /\ run'.lost = run.lost /\ run'.result = run.result
    BY <1>1, <1>6 DEF Probe, RunRecord
  <2>3. pc = "work" /\ pc' \in {"work", "renew"}
    BY <1>6 DEF Probe
  <2>4. run.result # None => pending = {}
    BY <2>3 DEF FlushedToTheEnd
  <2>5. QED
    BY <1>2, <2>1, <2>2, <2>3, <2>4 DEF GoesOn, Running, Places, LostIsLost, Holds
<1>7. CASE Return
  <2>1. CASE run.lost
    BY <1>2, <1>7, <2>1 DEF Return, Leave, Ends
  <2>2. CASE ~run.lost
    <3>1. PICK status \in Reports :
            pc = "work" /\ pc' = "flush" /\ run' = [run EXCEPT !.result = status]
      BY <1>7, <2>2 DEF Return
    <3>2. run' \in RunRecord
      BY <1>1, <3>1 DEF RunRecord
    <3>3. run'.job = run.job /\ run'.attempt = run.attempt /\ run'.lost = run.lost
      BY <1>1, <3>1 DEF RunRecord
    <3>4. QED
      BY <1>2, <2>2, <3>1, <3>2, <3>3 DEF GoesOn, Running, Places
  <2>3. QED
    BY <2>1, <2>2
<1>8. CASE Flushed \/ RenewNotDue
  <2>1. run' = run /\ pc' \in {"renew", "refresh"} /\ pc \in {"flush", "renew"}
    BY <1>8 DEF Flushed, RenewNotDue
  <2>2. run.result # None => pending = {}
    BY <1>8 DEF Flushed, RenewNotDue, FlushedToTheEnd
  <2>3. QED
    BY <1>1, <1>2, <2>1, <2>2 DEF GoesOn, Running, Places, LostIsLost, Holds
<1>9. CASE RenewRefused
  <2>1. run' \in RunRecord
    BY <1>1, <1>9 DEF RenewRefused, RunRecord
  <2>2. run'.job = run.job /\ run'.attempt = run.attempt /\ run'.result = run.result
    BY <1>1, <1>9 DEF RenewRefused, RunRecord
  <2>3. pc = "renew" /\ pc' = "work" /\ ~Holds
    BY <1>9 DEF RenewRefused
  <2>4. run.result # None => pending = {}
    BY <2>3 DEF FlushedToTheEnd
  <2>5. QED
    BY <1>2, <2>1, <2>2, <2>3, <2>4 DEF GoesOn, Running, Places
<1>10. CASE Refreshed
  <2> DEFINE cancelled == run.cancel \/ CancellationState(run.job, run.attempt)
  <2>0. cancelled \in BOOLEAN /\ pc = "refresh"
    BY <1>10 DEF Refreshed
  <2>1. run.result # None => pending = {}
    BY <2>0 DEF FlushedToTheEnd
  <2>2. CASE run.result = None
    <3>1. pc' = "work" /\ run' = [run EXCEPT !.cancel = cancelled,
                                !.stopping = @ \/ (run.probing /\ cancelled)]
      BY <1>10, <2>2 DEF Refreshed
    <3> HIDE DEF cancelled
    <3>2. run' \in RunRecord
      BY <1>1, <2>0, <3>1 DEF RunRecord
    <3>3. /\ run'.job = run.job /\ run'.attempt = run.attempt
          /\ run'.lost = run.lost /\ run'.result = run.result
      BY <1>1, <3>1 DEF RunRecord
    <3>4. QED
      BY <1>2, <2>0, <2>1, <3>1, <3>2, <3>3 DEF GoesOn, Running, Places, LostIsLost, Holds
  <2>3. CASE run.result # None
    <3>1. pc' = "complete" /\ run' = [run EXCEPT !.cancel = cancelled,
                           !.result = IF cancelled THEN "cancelled" ELSE @]
      BY <1>10, <2>3 DEF Refreshed
    <3> HIDE DEF cancelled
    <3>2. run' \in RunRecord
      BY <1>1, <2>0, <3>1, ResultAssumption DEF RunRecord
    <3>3. /\ run'.job = run.job /\ run'.attempt = run.attempt
          /\ run'.lost = run.lost /\ run'.result # None
      BY <1>1, <2>3, <3>1, NoneAssumption, ResultAssumption DEF RunRecord
    <3>4. QED
      BY <1>2, <2>0, <2>1, <2>3, <3>1, <3>2, <3>3 DEF GoesOn, Running, Places, LostIsLost, Holds
  <2>4. QED
    BY <2>2, <2>3
<1>11. QED
  BY <1>3, <1>4, <1>5, <1>6, <1>7, <1>8, <1>9, <1>10 DEF Local

LEMMA LocalStep == RunnerInv /\ Local => RunnerInv'
<1> SUFFICES ASSUME RunnerInv, Local PROVE RunnerInv'
  OBVIOUS
<1> USE DEF RunnerInv
<1>1. UNCHANGED <<vars, queue>> /\ (GoesOn \/ Ends)
  BY LocalShape
<1>2. /\ UNCHANGED <<jobs, inserts, attempts, logs, calls, reported, acked>>
      /\ UNCHANGED <<last, pending, owner>>
  BY <1>1 DEF vars, queue
<1>3. IInv'
  BY <1>1, ServerInv
<1>4. RunnerTypeOK'
  BY <1>1, <1>2, <1>3, NoRunType DEF RunnerTypeOK, IInv, GoesOn, Ends, RunRecord, Places
<1>5. RunHasItsAttempt' /\ LostIsLost'
  BY <1>1, <1>2 DEF RunHasItsAttempt, LostIsLost, GoesOn, Ends, Running, Places, NoRun,
     Holds, ActiveAttempt
<1>6. QueueIsInterval' /\ NoEventLost' /\ ReportedAfterItsEvents'
  BY <1>2 DEF QueueIsInterval, NoEventLost, ReportedAfterItsEvents, Logged
<1>7. RequestIsItsOwn' /\ FlushedToTheEnd'
  BY <1>1, <1>2 DEF RequestIsItsOwn, FlushedToTheEnd, GoesOn, Ends, NoRun
<1>8. OwnEventsKept'
  BY <1>1, <1>2 DEF OwnEventsKept, GoesOn, Ends, Running, Logged
<1>9. ReportEndsRun'
  BY <1>1, <1>2, NoneAssumption DEF ReportEndsRun, GoesOn, Ends, NoRun
<1>10. QED
  BY <1>3, <1>4, <1>5, <1>6, <1>7, <1>8, <1>9

\* The steps of others: the server's statements, time, the administrator.
LEMMA OthersStep ==
  RunnerInv /\ (Lapse \/ Lose \/ Admin \/ \E r \in Requests : Serve(r)) => RunnerInv'
<1> SUFFICES ASSUME RunnerInv, Lapse \/ Lose \/ Admin \/ \E r \in Requests : Serve(r)
             PROVE  RunnerInv'
  OBVIOUS
<1> USE DEF RunnerInv
<1>1. UNCHANGED <<last, pending, owner, pc, run>>
  BY DEF Lapse, Lose, Admin, Serve, queue
<1>2. [Next]_vars /\ UNCHANGED reported
  BY DEF Lapse, Lose, Admin, Serve, Next, Handler, Expire, Drop, Create, Retry,
     InsertJob, Cancel, InsertLog, AnswerAppend, FinishAttempt, FinishJob
<1>3. IInv'
  BY <1>2, ServerInv
<1>4. /\ \A a \in Attempts :
           attempts[a].job # None => attempts'[a].job = attempts[a].job
      /\ logs \subseteq logs'
  BY <1>2, RowsStay DEF IInv, RowInv
<1>5. RunnerTypeOK'
  BY <1>1, <1>3 DEF RunnerTypeOK, IInv
<1>6. RunHasItsAttempt'
  BY <1>1, <1>4, NoneAssumption DEF RunHasItsAttempt, Running
<1>7. LostIsLost'
  <2>1. CASE run.lost
    <3>1. /\ run.attempt \in Attempts /\ run.job \in Jobs
          /\ attempts[run.attempt].job = run.job /\ ~Holds
      BY <2>1 DEF LostIsLost, RunHasItsAttempt, NoRun
    <3>2. ~ActiveAttempt(run.job, run.attempt)'
      <4>1. \A a \in Attempts, j \in Jobs :
              attempts[a].job = j /\ ~ActiveAttempt(j, a) => ~ActiveAttempt(j, a)'
        BY <1>2, LostStep
      <4>2. QED
        BY <1>1, <3>1, <4>1 DEF Holds, ActiveAttempt
    <3>3. QED
      BY <1>1, <3>2 DEF LostIsLost, Holds
  <2>2. CASE ~run.lost
    BY <1>1, <2>2 DEF LostIsLost
  <2>3. QED
    BY <2>1, <2>2
<1>8. \A a \in Attempts, n \in 1..last : Logged(a, n) => Logged(a, n)'
  BY <1>4 DEF Logged
<1>9. NoEventLost' /\ ReportedAfterItsEvents' /\ QueueIsInterval'
  BY <1>1, <1>2, <1>8 DEF NoEventLost, ReportedAfterItsEvents, QueueIsInterval
<1>10. OwnEventsKept'
  BY <1>1, <1>8 DEF OwnEventsKept, Running, RunHasItsAttempt
<1>11. FlushedToTheEnd'
  BY <1>1 DEF FlushedToTheEnd
<1>12. ReportEndsRun'
  BY <1>1, <1>2, <1>4 DEF ReportEndsRun
<1>13. RequestIsItsOwn'
  <2>1. pc \in {"sent", "completing"} => run.request \in Requests
    BY DEF RequestIsItsOwn
  <2> SUFFICES ASSUME pc = "sent", calls'[run.request].pc # "idle"
               PROVE  /\ calls'[run.request].pc = "insert"
                      /\ calls'[run.request].attempt = run.attempt
                      /\ calls'[run.request].first = Earliest(Batch)
                      /\ calls'[run.request].last = Latest(Batch)
    <3>1. Batch' = Batch
      BY <1>1 DEF Batch
    <3>2. pc = "sent" => pending # {}
      BY DEF RequestIsItsOwn
    <3>3. QED
      BY <1>1, <2>1, <3>1, <3>2 DEF RequestIsItsOwn
  <2> DEFINE q == run.request
  <2>2. calls \in [Requests -> Call] /\ q \in Requests
    BY <2>1 DEF IInv, TypeOK
  <2>3. calls[q].pc # "idle" => /\ calls[q].pc = "insert"
                                /\ calls[q].attempt = run.attempt
                                /\ calls[q].first = Earliest(Batch)
                                /\ calls[q].last = Latest(Batch)
    BY DEF RequestIsItsOwn
  <2>4. CASE UNCHANGED calls
    BY <2>3, <2>4
  <2>5. CASE \E r \in Requests : Drop(r)
    BY <2>2, <2>3, <2>5 DEF Drop, IdleCall
  <2>6. ASSUME NEW r \in Requests, InsertLog(r)
        PROVE  calls'[q] = calls[q] \/ calls'[q] = [calls[q] EXCEPT !.next = calls[q].next + 1]
    BY <2>2, <2>6 DEF InsertLog
  <2>7. CASE \E r \in Requests : InsertLog(r)
    <3>1. CASE calls'[q] = calls[q]
      BY <2>3, <3>1
    <3>2. CASE calls'[q] = [calls[q] EXCEPT !.next = calls[q].next + 1]
      <4>1. calls[q] \in Call
        BY <2>2
      <4>2. /\ calls'[q].pc = calls[q].pc /\ calls'[q].attempt = calls[q].attempt
            /\ calls'[q].first = calls[q].first /\ calls'[q].last = calls[q].last
        BY <3>2, <4>1 DEF Call, IdleCall, AppendCall, CompleteCall
      <4>3. QED
        BY <2>3, <4>2
    <3>3. QED
      BY <2>6, <2>7, <3>1, <3>2
  <2>8. CASE \E r \in Requests : FinishAttempt(r)
    BY <2>2, <2>3, <2>8 DEF FinishAttempt
  <2>9. CASE \E r \in Requests \ {q} : AnswerAppend(r) \/ FinishJob(r)
    BY <2>2, <2>3, <2>9 DEF AnswerAppend, FinishJob
  <2>10. \/ UNCHANGED calls
         \/ \E r \in Requests : Drop(r) \/ InsertLog(r) \/ FinishAttempt(r)
         \/ \E r \in Requests \ {q} : AnswerAppend(r) \/ FinishJob(r)
    BY DEF Lapse, Lose, Admin, Serve, Expire, Create, Retry, InsertJob, Cancel
  <2>11. QED
    BY <2>4, <2>5, <2>7, <2>8, <2>9, <2>10
<1>14. QED
  BY <1>3, <1>5, <1>6, <1>7, <1>9, <1>10, <1>11, <1>12, <1>13

\* Renewing changes the row of the attempt and nothing the worker keeps.
LEMMA RenewStep == RunnerInv /\ (Renewed \/ RenewAnswerLost) => RunnerInv'
<1> SUFFICES ASSUME RunnerInv, Renewed \/ RenewAnswerLost PROVE RunnerInv'
  OBVIOUS
<1> USE DEF RunnerInv
<1>1. /\ pc = "renew" /\ Running
      /\ Renew(run.job, run.attempt)
      /\ UNCHANGED <<last, pending, owner>>
  BY DEF Renewed, RenewAnswerLost, Running, queue
<1>2. UNCHANGED <<jobs, inserts, logs, calls, reported, acked>> /\ Holds
  BY <1>1 DEF Renew, Holds
<1>3. [RunnerNext]_runnerVars
  BY DEF RunnerNext, WorkerCall, Fault
<1>4. IInv'
  BY <1>3, ServerStep, ServerInv
<1>5. \A a \in Attempts :
        attempts[a].job # None => attempts'[a].job = attempts[a].job
  BY <1>3, ServerStep, RowsStay DEF IInv, RowInv
<1>6. ~run.lost
  BY <1>2 DEF LostIsLost
<1>7. GoesOn \/ Ends
  <2>1. CASE Renewed
    <3>1. run' = run /\ pc' = "refresh" /\ run \in RunRecord
      BY <2>1 DEF Renewed, RunnerTypeOK, RunRecord
    <3>2. QED
      BY <1>1, <1>6, <3>1 DEF GoesOn, Places, FlushedToTheEnd
  <2>2. CASE RenewAnswerLost
    BY <1>1, <2>2, RaiseShape DEF RenewAnswerLost
  <2>3. QED
    BY <2>1, <2>2
<1>8. ~run'.lost
  <2>1. CASE Renewed
    BY <1>6, <2>1 DEF Renewed, RunnerTypeOK
  <2>2. CASE RenewAnswerLost
    <3>1. run \in RunRecord
      BY DEF RunnerTypeOK, RunRecord
    <3>2. run' = NoRun \/ run' = [run EXCEPT !.result = "failed", !.request = None]
      BY <2>2 DEF RenewAnswerLost, Raise, Exit
    <3>3. CASE run' = NoRun
      BY <3>3 DEF NoRun
    <3>4. CASE run' = [run EXCEPT !.result = "failed", !.request = None]
      <4>1. run'.lost = run.lost
        BY <3>1, <3>4 DEF RunRecord
      <4>2. QED
        BY <1>6, <4>1
    <3>5. QED
      BY <3>2, <3>3, <3>4
  <2>3. QED
    BY <2>1, <2>2
<1>9. RunnerTypeOK'
  BY <1>1, <1>4, <1>7, NoRunType DEF RunnerTypeOK, IInv, GoesOn, Ends, RunRecord, Places
<1>10. RunHasItsAttempt' /\ LostIsLost'
  BY <1>5, <1>7, <1>8, NoneAssumption DEF RunHasItsAttempt, LostIsLost, GoesOn, Ends,
     Running, Places, NoRun
<1>11. QueueIsInterval' /\ NoEventLost' /\ ReportedAfterItsEvents'
  BY <1>1, <1>2 DEF QueueIsInterval, NoEventLost, ReportedAfterItsEvents, Logged
<1>12. RequestIsItsOwn' /\ FlushedToTheEnd'
  BY <1>1, <1>2, <1>7 DEF RequestIsItsOwn, FlushedToTheEnd, GoesOn, Ends, NoRun
<1>13. OwnEventsKept'
  BY <1>1, <1>2, <1>7 DEF OwnEventsKept, GoesOn, Ends, Running, Logged
<1>14. ReportEndsRun'
  BY <1>1, <1>2, <1>5, <1>7, NoneAssumption DEF ReportEndsRun, GoesOn, Ends, NoRun
<1>15. QED
  BY <1>4, <1>9, <1>10, <1>11, <1>12, <1>13, <1>14

\* A new run starts with an attempt that has emitted and reported nothing.
LEMMA ClaimStep == RunnerInv /\ (ClaimJob \/ ClaimWasted) => RunnerInv'
<1> SUFFICES ASSUME RunnerInv, ClaimJob \/ ClaimWasted PROVE RunnerInv'
  OBVIOUS
<1> USE DEF RunnerInv
<1>1. /\ pc = "idle" /\ ~Running
      /\ Claim(Self)
      /\ UNCHANGED <<last, pending, owner>>
  BY DEF ClaimJob, ClaimWasted, Running, queue
<1>2. UNCHANGED <<inserts, logs, calls, reported, acked>>
  BY <1>1 DEF Claim
<1>3. [RunnerNext]_runnerVars
  BY DEF RunnerNext
<1>4. IInv'
  BY <1>3, ServerStep, ServerInv
<1>5. \A a \in Attempts :
        attempts[a].job # None => attempts'[a].job = attempts[a].job
  BY <1>3, ServerStep, RowsStay DEF IInv, RowInv
<1>6. \/ pc' = "down" /\ run' = NoRun
      \/ /\ pc' = "work"
         /\ \E a \in Attempts :
              Granted(a) /\ run' = [NoRun EXCEPT !.job = attempts'[a].job, !.attempt = a]
  BY DEF ClaimJob, ClaimWasted, Exit
<1>7. ASSUME NEW a \in Attempts, Granted(a)
      PROVE  attempts[a].job = None /\ attempts'[a].job \in Jobs
  BY <1>4, <1>7 DEF Granted, IInv, AttemptsOfClaimedJobs
<1>8. CASE pc' = "down" /\ run' = NoRun
  <2>1. RunnerTypeOK'
    BY <1>1, <1>4, <1>8, NoRunType DEF RunnerTypeOK, IInv, RunRecord, Places
  <2>2. RunHasItsAttempt' /\ LostIsLost'
    BY <1>8 DEF RunHasItsAttempt, LostIsLost, Running, NoRun
  <2>3. QueueIsInterval' /\ NoEventLost' /\ ReportedAfterItsEvents'
    BY <1>1, <1>2 DEF QueueIsInterval, NoEventLost, ReportedAfterItsEvents, Logged
  <2>4. RequestIsItsOwn' /\ FlushedToTheEnd' /\ OwnEventsKept'
    BY <1>8 DEF RequestIsItsOwn, FlushedToTheEnd, OwnEventsKept, Running, NoRun
  <2>5. ReportEndsRun'
    BY <1>1, <1>2, <1>5, <1>8, NoneAssumption DEF ReportEndsRun, NoRun
  <2>6. QED
    BY <1>4, <2>1, <2>2, <2>3, <2>4, <2>5
<1>9. CASE pc' = "work" /\ run' # NoRun
  <2>1. PICK a \in Attempts :
          Granted(a) /\ run' = [NoRun EXCEPT !.job = attempts'[a].job, !.attempt = a]
    BY <1>6, <1>9
  <2>2. attempts[a].job = None /\ attempts'[a].job \in Jobs
    BY <1>7, <2>1
  <2>3. /\ run' \in RunRecord
        /\ run'.job = attempts'[a].job /\ run'.attempt = a /\ run'.lost = FALSE
        /\ run'.result = None
    BY <2>1, <2>2, NoRunType DEF NoRun, RunRecord
  <2>4. RunnerTypeOK'
    BY <1>1, <1>4, <1>9, <2>3 DEF RunnerTypeOK, IInv, RunRecord, Places
  <2>5. RunHasItsAttempt' /\ LostIsLost'
    BY <1>9, <2>2, <2>3 DEF RunHasItsAttempt, LostIsLost, Running
  <2>6. QueueIsInterval' /\ NoEventLost' /\ ReportedAfterItsEvents'
    BY <1>1, <1>2 DEF QueueIsInterval, NoEventLost, ReportedAfterItsEvents, Logged
  <2>7. RequestIsItsOwn' /\ FlushedToTheEnd'
    BY <1>9, <2>3 DEF RequestIsItsOwn, FlushedToTheEnd
  <2>8. \A n \in 1..last : owner[n] # a
    BY <2>2 DEF ReportEndsRun
  <2>9. OwnEventsKept'
    BY <1>1, <2>3, <2>8 DEF OwnEventsKept
  <2>10. ReportEndsRun'
    BY <1>1, <1>2, <1>5, <2>2, <2>3 DEF ReportEndsRun
  <2>11. QED
    BY <1>4, <2>4, <2>5, <2>6, <2>7, <2>9, <2>10
<1>10. QED
  <2>1. ASSUME NEW a \in Attempts
        PROVE  [NoRun EXCEPT !.job = attempts'[a].job, !.attempt = a] # NoRun
    BY NoneAssumption DEF NoRun
  <2>2. QED
    BY <1>6, <1>8, <1>9, <2>1

\* An emitted event is kept in the outbox under the run's attempt.
LEMMA EmitStep == RunnerInv /\ Emit => RunnerInv'
<1> SUFFICES ASSUME RunnerInv, Emit PROVE RunnerInv'
  OBVIOUS
<1> USE DEF RunnerInv
<1>1. /\ pc = "work" /\ pc' = "flush" /\ Running /\ Running'
      /\ last < MaxSequence
      /\ last' = last + 1 /\ pending' = pending \cup {last + 1}
      /\ owner' = [owner EXCEPT ![last + 1] = run.attempt]
      /\ run' = [run EXCEPT !.probing = FALSE]
      /\ UNCHANGED vars
  BY DEF Emit, Running, Queue!Put
<1>2. UNCHANGED <<jobs, inserts, attempts, logs, calls, reported, acked>>
  BY <1>1 DEF vars
<1>3. IInv'
  BY <1>1, ServerInv
<1>4. /\ last \in Nat /\ MaxSequence \in Nat /\ pending \subseteq 1..last
      /\ run \in RunRecord /\ owner \in [1..MaxSequence -> Attempts \cup {None}]
      /\ run.attempt \in Attempts
  BY <1>1, SequenceAssumption DEF RunnerTypeOK, RunRecord, RunHasItsAttempt
<1>5. /\ run' \in RunRecord
      /\ run'.job = run.job /\ run'.attempt = run.attempt
      /\ run'.lost = run.lost /\ run'.result = run.result
  BY <1>1, <1>4 DEF RunRecord
<1>6. last + 1 \in 1..MaxSequence /\ 1..last' = 1..last \cup {last + 1}
  BY <1>1, <1>4
<1>7. /\ owner' \in [1..MaxSequence -> Attempts \cup {None}]
      /\ owner'[last + 1] = run.attempt
      /\ \A n \in 1..last : owner'[n] = owner[n]
  BY <1>1, <1>4, <1>6
<1>8. RunnerTypeOK'
  <2>1. last' \in 0..MaxSequence /\ pending' \subseteq 1..last'
    BY <1>1, <1>4, <1>6
  <2>2. QED
    BY <1>1, <1>3, <1>5, <1>7, <2>1 DEF RunnerTypeOK, IInv, RunRecord, Places
<1>9. RunHasItsAttempt' /\ LostIsLost'
  BY <1>1, <1>2, <1>5 DEF RunHasItsAttempt, LostIsLost, Holds, ActiveAttempt
<1>10. QueueIsInterval'
  <2>1. PICK m \in 0..last : pending = (m + 1)..last
    BY DEF QueueIsInterval
  <2>2. m \in 0..last' /\ pending' = (m + 1)..last'
    BY <1>1, <1>4, <2>1
  <2>3. QED
    BY <2>2 DEF QueueIsInterval
<1>11. RequestIsItsOwn' /\ FlushedToTheEnd'
  BY <1>1 DEF RequestIsItsOwn, FlushedToTheEnd
<1>12. NoEventLost' /\ OwnEventsKept'
  BY <1>1, <1>2, <1>5, <1>6, <1>7 DEF NoEventLost, OwnEventsKept, Logged
<1>13. reported[run.attempt] = None
  BY <1>1, <1>4 DEF ReportEndsRun
<1>14. ReportedAfterItsEvents'
  BY <1>1, <1>2, <1>6, <1>7, <1>13 DEF ReportedAfterItsEvents, Logged
<1>15. ReportEndsRun'
  <2>1. attempts[run.attempt].job # None
    BY <1>1, NoneAssumption DEF RunHasItsAttempt
  <2>2. QED
    BY <1>1, <1>2, <1>5, <1>6, <1>7, <1>13, <2>1 DEF ReportEndsRun
<1>16. QED
  BY <1>3, <1>8, <1>9, <1>10, <1>11, <1>12, <1>14, <1>15

\* The request carries the first numbers of the outbox.
LEMMA SendStep == RunnerInv /\ Send => RunnerInv'
<1> SUFFICES ASSUME RunnerInv, Send PROVE RunnerInv'
  OBVIOUS
<1> USE DEF RunnerInv
<1>1. PICK r \in Requests :
        /\ BeginAppend(r, run.job, run.attempt, Earliest(Batch), Latest(Batch))
        /\ run' = [run EXCEPT !.request = r]
  BY DEF Send
<1>2. /\ pc = "flush" /\ pc' = "sent" /\ Running /\ Running' /\ pending # {}
      /\ UNCHANGED <<last, pending, owner>>
  BY DEF Send, Running, queue
<1>3. /\ UNCHANGED <<jobs, inserts, attempts, logs, reported, acked>>
      /\ calls \in [Requests -> Call]
      /\ calls' = [calls EXCEPT ![r] =
           [pc |-> "insert", job |-> run.job, attempt |-> run.attempt,
            first |-> Earliest(Batch), last |-> Latest(Batch),
            next |-> Earliest(Batch), status |-> None]]
  BY <1>1 DEF BeginAppend, IInv, TypeOK
<1>4. IInv'
  BY ServerStep, ServerInv DEF RunnerNext, WorkerCall
<1>5. /\ run' \in RunRecord
      /\ run'.job = run.job /\ run'.attempt = run.attempt
      /\ run'.lost = run.lost /\ run'.result = run.result /\ run'.request = r
  BY <1>1 DEF RunnerTypeOK, RunRecord
<1>6. Batch' = Batch
  BY <1>2 DEF Batch
<1>7. RunnerTypeOK'
  BY <1>2, <1>4, <1>5 DEF RunnerTypeOK, IInv, RunRecord, Places
<1>8. RunHasItsAttempt' /\ LostIsLost'
  BY <1>2, <1>3, <1>5 DEF RunHasItsAttempt, LostIsLost, Holds, ActiveAttempt
<1>9. QueueIsInterval' /\ NoEventLost' /\ ReportedAfterItsEvents' /\ OwnEventsKept'
  BY <1>2, <1>3, <1>5 DEF QueueIsInterval, NoEventLost, ReportedAfterItsEvents,
     OwnEventsKept, Logged
<1>10. RequestIsItsOwn' /\ FlushedToTheEnd'
  BY <1>2, <1>3, <1>5, <1>6 DEF RequestIsItsOwn, FlushedToTheEnd
<1>11. ReportEndsRun'
  BY <1>2, <1>3, <1>5 DEF ReportEndsRun
<1>12. QED
  BY <1>4, <1>7, <1>8, <1>9, <1>10, <1>11

\* What the worker drops is what the handler stored: the rows of its batch.
LEMMA AcknowledgedStep == RunnerInv /\ Acknowledged => RunnerInv'
<1> SUFFICES ASSUME RunnerInv, Acknowledged PROVE RunnerInv'
  OBVIOUS
<1> USE DEF RunnerInv
<1> DEFINE q == run.request
           c == calls[q]
<1>1. /\ pc = "sent" /\ pc' = "flush" /\ Running /\ Running'
      /\ AnswerAppend(q)
      /\ pending' = {k \in pending : k > c.last}
      /\ run' = [run EXCEPT !.request = None]
      /\ UNCHANGED <<last, owner>>
  BY DEF Acknowledged, Running, Queue!Remove
<1>2. q \in Requests /\ c.pc = "insert" /\ c.next > c.last
  BY <1>1 DEF RequestIsItsOwn, AnswerAppend
<1>3. /\ pending # {} /\ c.attempt = run.attempt
      /\ c.first = Earliest(Batch) /\ c.last = Latest(Batch)
  BY <1>1, <1>2 DEF RequestIsItsOwn
<1>4. PICK m \in 0..last : pending = (m + 1)..last
  BY DEF QueueIsInterval
<1>5. PICK b \in (m + 1)..last : Earliest(Batch) = m + 1 /\ Latest(Batch) = b
  BY <1>3, <1>4, BatchOfQueue
<1>6. m \in Int /\ b \in Int /\ last \in Int /\ 0 <= m /\ m < b /\ b <= last
  BY <1>5 DEF RunnerTypeOK
<1>7. \A n \in (m + 1)..b : Logged(run.attempt, n)
  <2>1. c.next \in Int /\ (m + 1)..b \subseteq c.first .. (c.next - 1)
    <3>1. c \in AppendCall
      BY <1>2, CallShape DEF IInv
    <3>2. c.next \in Int
      BY <3>1, SequenceAssumption DEF AppendCall
    <3>3. QED
      BY <1>2, <1>3, <1>5, <1>6, <3>2
  <2>2. \A n \in c.first .. (c.next - 1) :
          \E row \in logs : row.attempt = c.attempt /\ row.sequence = n
    BY <1>2 DEF IInv, BatchStoredSoFar
  <2>3. QED
    BY <1>3, <2>1, <2>2 DEF Logged
<1>8. UNCHANGED <<jobs, inserts, attempts, logs, reported>>
  BY <1>1 DEF AnswerAppend
<1>9. IInv'
  BY ServerStep, ServerInv DEF RunnerNext, WorkerCall
<1>10. /\ run' \in RunRecord
       /\ run'.job = run.job /\ run'.attempt = run.attempt
       /\ run'.lost = run.lost /\ run'.result = run.result
       /\ run.attempt \in Attempts
  BY <1>1 DEF RunnerTypeOK, RunRecord, RunHasItsAttempt
<1>11. pending' = (b + 1)..last
  BY <1>1, <1>3, <1>4, <1>5, <1>6
<1>12. RunnerTypeOK'
  BY <1>1, <1>9, <1>10 DEF RunnerTypeOK, IInv, RunRecord, Places
<1>13. RunHasItsAttempt' /\ LostIsLost'
  BY <1>1, <1>8, <1>10 DEF RunHasItsAttempt, LostIsLost, Holds, ActiveAttempt
<1>14. QueueIsInterval'
  BY <1>1, <1>6, <1>11 DEF QueueIsInterval
<1>15. ASSUME NEW n \in 1..last, n \in pending, n \notin pending'
       PROVE  Logged(run.attempt, n)
  BY <1>4, <1>6, <1>7, <1>11, <1>15
<1>16. NoEventLost' /\ OwnEventsKept' /\ ReportedAfterItsEvents'
  BY <1>1, <1>8, <1>10, <1>15 DEF NoEventLost, OwnEventsKept, ReportedAfterItsEvents, Logged
<1>17. RequestIsItsOwn' /\ FlushedToTheEnd'
  BY <1>1 DEF RequestIsItsOwn, FlushedToTheEnd
<1>18. ReportEndsRun'
  BY <1>1, <1>8, <1>10 DEF ReportEndsRun
<1>19. QED
  BY <1>9, <1>12, <1>13, <1>14, <1>16, <1>17, <1>18

\* With the outbox empty, all the run emitted is in its attempt's log.
LEMMA SendCompleteStep == RunnerInv /\ SendComplete => RunnerInv'
<1> SUFFICES ASSUME RunnerInv, SendComplete PROVE RunnerInv'
  OBVIOUS
<1> USE DEF RunnerInv
<1>1. PICK r \in Requests :
        /\ BeginComplete(r, run.job, run.attempt, run.result)
        /\ run' = [run EXCEPT !.request = r]
  BY DEF SendComplete
<1>2. /\ pc = "complete" /\ pc' = "completing" /\ Running /\ Running'
      /\ UNCHANGED <<last, pending, owner>>
  BY DEF SendComplete, Running, queue
<1>3. /\ UNCHANGED <<jobs, inserts, attempts, logs, acked>>
      /\ reported' = [reported EXCEPT ![run.attempt] = run.result]
      /\ reported \in [Attempts -> Reports \cup {None}]
  BY <1>1 DEF BeginComplete, IInv, TypeOK
<1>4. IInv'
  BY ServerStep, ServerInv DEF RunnerNext, WorkerCall
<1>5. /\ run' \in RunRecord
      /\ run'.job = run.job /\ run'.attempt = run.attempt
      /\ run'.lost = run.lost /\ run'.result = run.result /\ run'.request = r
      /\ run.attempt \in Attempts
  BY <1>1, <1>2 DEF RunnerTypeOK, RunRecord, RunHasItsAttempt
<1>6. pending = {} /\ run.result # None
  BY <1>2 DEF FlushedToTheEnd
<1>7. RunnerTypeOK'
  BY <1>2, <1>4, <1>5 DEF RunnerTypeOK, IInv, RunRecord, Places
<1>8. RunHasItsAttempt' /\ LostIsLost'
  BY <1>2, <1>3, <1>5 DEF RunHasItsAttempt, LostIsLost, Holds, ActiveAttempt
<1>9. QueueIsInterval' /\ NoEventLost' /\ OwnEventsKept'
  BY <1>2, <1>3, <1>5 DEF QueueIsInterval, NoEventLost, OwnEventsKept, Logged
<1>10. RequestIsItsOwn' /\ FlushedToTheEnd'
  BY <1>2, <1>5, <1>6 DEF RequestIsItsOwn, FlushedToTheEnd
<1>11. ReportedAfterItsEvents'
  BY <1>2, <1>3, <1>5, <1>6 DEF ReportedAfterItsEvents, OwnEventsKept, Logged
<1>12. ReportEndsRun'
  BY <1>2, <1>3, <1>5, NoneAssumption DEF ReportEndsRun, RunHasItsAttempt
<1>13. QED
  BY <1>4, <1>7, <1>8, <1>9, <1>10, <1>11, <1>12

LEMMA CompletedStep == RunnerInv /\ Completed => RunnerInv'
<1> SUFFICES ASSUME RunnerInv, Completed PROVE RunnerInv'
  OBVIOUS
<1> USE DEF RunnerInv
<1>1. /\ pc = "completing" /\ pc' = "idle" /\ run' = NoRun
      /\ FinishJob(run.request)
      /\ pending' = {n \in pending : n > last}
      /\ UNCHANGED <<last, owner>>
  BY DEF Completed, Leave
<1>2. pending = {} /\ pending' = {}
  BY <1>1 DEF FlushedToTheEnd
<1>3. UNCHANGED <<inserts, attempts, logs, reported, acked>>
  BY <1>1 DEF FinishJob
<1>4. IInv'
  BY ServerStep, ServerInv DEF RunnerNext, WorkerCall
<1>5. RunnerTypeOK'
  BY <1>1, <1>2, <1>4, NoRunType DEF RunnerTypeOK, IInv, RunRecord, Places
<1>6. RunHasItsAttempt' /\ LostIsLost' /\ OwnEventsKept'
  BY <1>1 DEF RunHasItsAttempt, LostIsLost, OwnEventsKept, Running, NoRun
<1>7. QueueIsInterval' /\ NoEventLost' /\ ReportedAfterItsEvents'
  BY <1>1, <1>2, <1>3 DEF QueueIsInterval, NoEventLost, ReportedAfterItsEvents, Logged
<1>8. RequestIsItsOwn' /\ FlushedToTheEnd'
  BY <1>1 DEF RequestIsItsOwn, FlushedToTheEnd, NoRun
<1>9. ReportEndsRun'
  BY <1>1, <1>3, NoneAssumption DEF ReportEndsRun, NoRun
<1>10. QED
  BY <1>4, <1>5, <1>6, <1>7, <1>8, <1>9

-----------------------------------------------------------------------------
(* The theorems.                                                           *)

LEMMA RunnerInvInit == RunnerInit => RunnerInv
<1> SUFFICES ASSUME RunnerInit PROVE RunnerInv
  OBVIOUS
<1>1. Init /\ last = 0 /\ pending = {} /\ pc = "idle" /\ run = NoRun
      /\ owner = [n \in 1..MaxSequence |-> None]
  BY DEF RunnerInit, Queue!Init
<1>2. IInv
  BY <1>1, TypeInit, RowInit, LogInit DEF IInv, RowInv, LogInv
<1>3. RunnerTypeOK
  BY <1>1, <1>2, NoRunType, SequenceAssumption DEF RunnerTypeOK, IInv, RunRecord, Places
<1>4. QueueIsInterval
  BY <1>1 DEF QueueIsInterval
<1>5. QED
  BY <1>1, <1>2, <1>3, <1>4, NoneAssumption
  DEF RunnerInv, RunHasItsAttempt, RequestIsItsOwn, FlushedToTheEnd, OwnEventsKept,
      ReportEndsRun, LostIsLost, NoEventLost, ReportedAfterItsEvents, Running, NoRun, Init

LEMMA RunnerInvStutter == RunnerInv /\ UNCHANGED runnerVars => RunnerInv'
<1> SUFFICES ASSUME RunnerInv, UNCHANGED runnerVars PROVE RunnerInv'
  OBVIOUS
<1>1. /\ UNCHANGED vars
      /\ UNCHANGED <<jobs, inserts, attempts, logs, calls, reported, acked>>
      /\ UNCHANGED <<last, pending, owner, pc, run>>
  BY DEF runnerVars, queue, vars
<1>2. IInv'
  BY <1>1, ServerInv DEF RunnerInv
<1>3. QED
  BY <1>1, <1>2 DEF RunnerInv, IInv, RunnerTypeOK, RunHasItsAttempt, QueueIsInterval,
     RequestIsItsOwn, FlushedToTheEnd, OwnEventsKept, ReportEndsRun, LostIsLost,
     NoEventLost, ReportedAfterItsEvents, Running, Holds, ActiveAttempt, Logged, Batch

\* The invariant of worker and server together, whatever calls are lost,
\* leases lapse and processes die.
THEOREM RunnerInvariance == RunnerSpec => []RunnerInv
<1>1. RunnerInv /\ [RunnerNext]_runnerVars => RunnerInv'
  BY LocalStep, OthersStep, RenewStep, ClaimStep, EmitStep, SendStep, AcknowledgedStep,
     SendCompleteStep, CompletedStep, RunnerInvStutter
  DEF RunnerNext, WorkerCall, Fault, Local
<1>2. QED
  BY <1>1, RunnerInvInit, PTL DEF RunnerSpec

\* No event a worker emitted is ever lost: it is in the outbox or a log row.
THEOREM EventsKept == RunnerSpec => []NoEventLost
<1>1. RunnerInv => NoEventLost
  BY DEF RunnerInv
<1>2. QED
  BY <1>1, RunnerInvariance, PTL

\* A result is reported only after the log has all events of its attempt.
THEOREM EventsBeforeReport == RunnerSpec => []ReportedAfterItsEvents
<1>1. RunnerInv => ReportedAfterItsEvents
  BY DEF RunnerInv
<1>2. QED
  BY <1>1, RunnerInvariance, PTL

\* A worker never abandons a job whose lease the server still honours.
THEOREM LostMeansLost == RunnerSpec => []LostIsLost
<1>1. RunnerInv => LostIsLost
  BY DEF RunnerInv
<1>2. QED
  BY <1>1, RunnerInvariance, PTL

\* The two halves of CancelledInTime, as predicates of one step.
HonoursCancellation ==
  pc # "complete" /\ pc' = "complete" /\ jobs[run.job].cancelRequested
    => run'.result = "cancelled"

ReportsItsResult ==
  \A a \in Attempts : reported'[a] # reported[a] =>
    pc = "complete" /\ a = run.attempt /\ reported'[a] = run.result

\* The last look at the cancellation is the only way to complete.
LEMMA HonourStep == RunnerInv /\ [RunnerNext]_runnerVars => HonoursCancellation
<1> SUFFICES ASSUME RunnerInv, RunnerNext \/ UNCHANGED runnerVars,
                    pc # "complete", pc' = "complete", jobs[run.job].cancelRequested
             PROVE  run'.result = "cancelled"
  BY DEF HonoursCancellation
<1>1. ASSUME Raise PROVE FALSE
  BY <1>1 DEF Raise, Exit
<1>2. Refreshed
  BY <1>1 DEF RunnerNext, WorkerCall, Fault, Admin, Serve, Lapse, Lose, ClaimJob,
     ClaimWasted, Emit, Probe, Return, Send, SendRefused, Acknowledged, Flushed,
     RenewNotDue, Renewed, RenewRefused, SendComplete, CompleteRefused, Completed,
     CallLost, RenewAnswerLost, TimeOut, Crash, Restart, Leave, Exit, runnerVars
<1>3. CancellationState(run.job, run.attempt)
  BY DEF CancellationState
<1>4. run \in RunRecord
  BY DEF RunnerInv, RunnerTypeOK, RunRecord
<1>5. run' = [run EXCEPT !.cancel = TRUE, !.result = "cancelled"]
  BY <1>2, <1>3 DEF Refreshed
<1>6. QED
  BY <1>4, <1>5 DEF RunRecord

\* SendComplete is the only step that reports.
LEMMA ReportStep == RunnerInv /\ [RunnerNext]_runnerVars => ReportsItsResult
<1> SUFFICES ASSUME RunnerInv, RunnerNext \/ UNCHANGED runnerVars
             PROVE  ReportsItsResult
  OBVIOUS
<1>1. ASSUME UNCHANGED reported PROVE ReportsItsResult
  BY <1>1 DEF ReportsItsResult
<1>2. CASE SendComplete
  <2>1. PICK r \in Requests : BeginComplete(r, run.job, run.attempt, run.result)
    BY <1>2 DEF SendComplete
  <2>2. /\ reported' = [reported EXCEPT ![run.attempt] = run.result]
        /\ reported \in [Attempts -> Reports \cup {None}]
    BY <2>1 DEF BeginComplete, RunnerInv, IInv, TypeOK
  <2>3. pc = "complete"
    BY <1>2 DEF SendComplete
  <2>4. QED
    BY <2>2, <2>3 DEF ReportsItsResult
<1>3. CASE Local
  <2>1. UNCHANGED vars
    BY <1>3, LocalShape
  <2>2. QED
    BY <1>1, <2>1 DEF vars
<1>4. CASE ClaimJob \/ ClaimWasted
  BY <1>1, <1>4 DEF ClaimJob, ClaimWasted, Claim
<1>5. CASE Emit \/ UNCHANGED runnerVars
  BY <1>1, <1>5 DEF Emit, runnerVars, vars
<1>6. CASE Send \/ Acknowledged \/ Completed
  BY <1>1, <1>6 DEF Send, Acknowledged, Completed, BeginAppend, AnswerAppend, FinishJob
<1>7. CASE Renewed \/ RenewAnswerLost
  BY <1>1, <1>7 DEF Renewed, RenewAnswerLost, Renew
<1>8. CASE Lapse \/ Lose \/ Admin \/ \E r \in Requests : Serve(r)
  BY <1>1, <1>8 DEF Lapse, Lose, Admin, Serve, Expire, Drop, Create, Retry, InsertJob,
     Cancel, InsertLog, AnswerAppend, FinishAttempt, FinishJob
<1>9. QED
  BY <1>2, <1>3, <1>4, <1>5, <1>6, <1>7, <1>8 DEF RunnerNext, WorkerCall, Fault, Local

\* A cancellation recorded before the last look at it is what gets reported.
THEOREM CancellationHonoured == RunnerSpec => CancelledInTime
<1>1. RunnerInv /\ [RunnerNext]_runnerVars =>
        [HonoursCancellation /\ ReportsItsResult]_runnerVars
  BY HonourStep, ReportStep
<1>2. [HonoursCancellation /\ ReportsItsResult]_runnerVars =>
        [/\ pc # "complete" /\ pc' = "complete" /\ jobs[run.job].cancelRequested
              => run'.result = "cancelled"
         /\ \A a \in Attempts : reported'[a] # reported[a] =>
              pc = "complete" /\ a = run.attempt /\ reported'[a] = run.result]_runnerVars
  BY DEF HonoursCancellation, ReportsItsResult
<1>3. QED
  BY <1>1, <1>2, RunnerInvariance, PTL DEF RunnerSpec, CancelledInTime

\* The worker is a client of the server that LeaseStore describes: all the
\* theorems about LeaseStore hold of the composition.
THEOREM RunnerUsesServer == RunnerSpec => Spec
<1>1. RunnerInit => Init
  BY DEF RunnerInit
<1>2. RunnerInv /\ [RunnerNext]_runnerVars => [Next]_vars
  BY ServerStep
<1>3. QED
  BY <1>1, <1>2, RunnerInvariance, PTL DEF RunnerSpec, Spec

\* In particular the jobs of the composed system go through the lifecycle an
\* administrator is shown.
THEOREM RunnerKeepsLifecycle == RunnerSpec => ImplementsLifecycle
BY RunnerUsesServer, Implementation, PTL

\* The worker uses its outbox as DurableQueue allows: Completed, whose answer
\* repeats last_sequence, drops nothing, as the last flush left nothing.
THEOREM RunnerUsesQueue == RunnerSpec => Queue!Spec
<1>1. RunnerInit => Queue!Init
  BY DEF RunnerInit
<1>2. RunnerInv /\ [RunnerNext]_runnerVars => [Queue!Next]_Queue!queueVars
  <2> SUFFICES ASSUME RunnerInv, RunnerNext \/ UNCHANGED runnerVars
               PROVE  [Queue!Next]_Queue!queueVars
    OBVIOUS
  <2>1. CASE Emit
    BY <2>1 DEF Emit, Queue!Next
  <2>2. CASE Acknowledged
    <3>1. PICK n \in pending : n = calls[run.request].last
      BY <2>2 DEF Acknowledged, Queue!Remove
    <3>2. Queue!Remove(n)
      BY <2>2, <3>1 DEF Acknowledged, Queue!Remove
    <3>3. QED
      BY <3>2 DEF Queue!Next
  <2>3. CASE Completed
    <3>1. pending = {}
      BY <2>3 DEF Completed, RunnerInv, FlushedToTheEnd
    <3>2. UNCHANGED <<last, pending>>
      BY <2>3, <3>1 DEF Completed
    <3>3. QED
      BY <3>2 DEF Queue!queueVars
  <2>4. CASE Local
    BY <2>4, LocalShape DEF queue, Queue!queueVars
  <2>5. CASE UNCHANGED queue
    BY <2>5 DEF queue, Queue!queueVars
  <2>6. QED
    BY <2>1, <2>2, <2>3, <2>4, <2>5 DEF RunnerNext, WorkerCall, Fault, Local,
       ClaimJob, ClaimWasted, Send, Renewed, RenewAnswerLost, SendComplete, Lapse, Lose,
       Admin, Serve, runnerVars, queue
<1>3. QED
  BY <1>1, <1>2, RunnerInvariance, PTL DEF RunnerSpec, Queue!Spec

-----------------------------------------------------------------------------
(* Without faults: NothingAbandoned, inductive relative to RunnerInv.      *)

LEMMA ClaimAbandonsNothing ==
  ASSUME RunnerInv, NothingAbandoned, Faults = {}, ClaimJob \/ ClaimWasted
  PROVE  NothingAbandoned'
<1>1. /\ pc = "idle" /\ run = NoRun /\ run.job = None /\ UNCHANGED calls
      /\ \A r \in Requests : calls[r].pc = "idle"
      /\ \A j \in Jobs : jobs[j].state = "leased" => jobs[j].config \in Unusable
  <2>1. pc = "idle" /\ UNCHANGED calls
    BY DEF ClaimJob, ClaimWasted, Claim
  <2>2. run = NoRun /\ run.job = None
    BY <2>1 DEF RunnerInv, RunHasItsAttempt, Running, NoRun
  <2>3. QED
    BY <2>1, <2>2, NoneAssumption DEF NothingAbandoned
<1>2. PICK j \in Jobs, a \in Attempts :
        /\ attempts[a].state = "absent"
        /\ jobs' = [jobs EXCEPT ![j].state = "leased"]
        /\ attempts' = [attempts EXCEPT ![a] = [state |-> "leased", job |-> j,
                                                worker |-> Self, live |-> TRUE]]
  BY DEF ClaimJob, ClaimWasted, Claim, Oldest, Claimable
<1>3. jobs \in [Jobs -> JobRow] /\ attempts \in [Attempts -> AttemptRow]
  BY DEF RunnerInv, IInv, TypeOK
<1>4. /\ \A k \in Jobs : jobs'[k].config = jobs[k].config
      /\ \A k \in Jobs \ {j} : jobs'[k].state = jobs[k].state
  BY <1>2, <1>3 DEF JobRow
<1>5. /\ attempts'[a].job = j /\ ActiveAttempt(j, a)'
      /\ \A b \in Attempts : Granted(b) => b = a
  BY <1>2, <1>3 DEF ActiveAttempt, ActiveStates, Granted
<1>6. CASE ClaimJob
  <2>1. PICK b \in Attempts :
          Granted(b) /\ run' = [NoRun EXCEPT !.job = attempts'[b].job, !.attempt = b]
    BY <1>6 DEF ClaimJob
  <2>2. run'.job = j /\ run'.attempt = a /\ pc' = "work"
    BY <1>5, <1>6, <2>1 DEF NoRun, ClaimJob
  <2>3. Holds'
    BY <1>5, <2>2 DEF Holds, ActiveAttempt
  <2>4. \A k \in Jobs : jobs'[k].state = "leased" /\ jobs'[k].config \notin Unusable => k = j
    BY <1>1, <1>4
  <2>5. QED
    BY <1>1, <2>2, <2>3, <2>4 DEF NothingAbandoned
<1>7. CASE ClaimWasted
  <2>1. PICK b \in Attempts : Granted(b) /\ jobs[attempts'[b].job].config \in Unusable
    BY <1>7 DEF ClaimWasted
  <2>2. jobs[j].config \in Unusable /\ pc' = "down" /\ Open' = {}
    BY <1>5, <1>7, <2>1 DEF ClaimWasted, Exit, Open
  <2>3. \A k \in Jobs : jobs'[k].state = "leased" => jobs'[k].config \in Unusable
    BY <1>1, <1>4, <2>2
  <2>4. QED
    BY <1>1, <2>2, <2>3 DEF NothingAbandoned
<1>8. QED
  BY <1>6, <1>7

\* With the lease held the run goes on, whatever its worker does by itself.
LEMMA LocalAbandonsNothing ==
  ASSUME RunnerInv, NothingAbandoned, Faults = {}, Local \/ Emit
  PROVE  NothingAbandoned'
<1>1. UNCHANGED <<jobs, attempts, calls>>
  BY LocalShape DEF Emit, vars
<1>2. CASE Restart
  <2>1. pc = "down" /\ pc' = "idle" /\ run' = run
    BY <1>2 DEF Restart
  <2>2. QED
    BY <1>1, <2>1 DEF NothingAbandoned, Open
<1>3. CASE ~Restart
  <2>1. ~CallLost /\ ~TimeOut /\ ~Crash
    BY DEF CallLost, TimeOut, Crash
  <2>2. /\ pc \in {"work", "flush", "renew", "refresh", "complete"} /\ Holds /\ ~run.lost
        /\ \A r \in Requests : calls[r].pc = "idle"
    <3>1. pc \in {"work", "flush", "renew", "refresh", "complete"}
      BY <1>3, <2>1 DEF Local, Emit, Probe, Return, SendRefused, Flushed, RenewNotDue,
         RenewRefused, Refreshed, CompleteRefused
    <3>2. QED
      BY <3>1 DEF NothingAbandoned, Open, RunnerInv, LostIsLost
  <2>3. Emit \/ Probe \/ Return \/ Flushed \/ RenewNotDue \/ Refreshed
    BY <1>3, <2>1, <2>2 DEF Local, SendRefused, RenewRefused, CompleteRefused
  <2>4. /\ pc' \in {"work", "flush", "renew", "refresh", "complete"}
        /\ run'.job = run.job /\ run'.attempt = run.attempt
    BY <2>2, <2>3 DEF Emit, Probe, Return, Flushed, RenewNotDue, Refreshed,
       RunnerInv, RunnerTypeOK
  <2>5. Holds'
    BY <1>1, <2>2, <2>4 DEF Holds, ActiveAttempt
  <2>6. QED
    BY <1>1, <2>2, <2>4, <2>5 DEF NothingAbandoned, Open
<1>4. QED
  BY <1>2, <1>3

\* The calls: a handler at work is the one the worker waits for.
LEMMA CallAbandonsNothing ==
  ASSUME RunnerInv, NothingAbandoned, Faults = {},
         Renewed \/ Send \/ Acknowledged \/ SendComplete
  PROVE  NothingAbandoned'
<1>1. /\ UNCHANGED jobs
      /\ calls \in [Requests -> Call] /\ attempts \in [Attempts -> AttemptRow]
      /\ run \in RunRecord
  BY DEF Renewed, Renew, Send, BeginAppend, Acknowledged, AnswerAppend, SendComplete,
     BeginComplete, RunnerInv, RunnerTypeOK, TypeOK, RunRecord
<1>2. Holds /\ run.attempt \in Attempts /\ pc \notin {"down", "idle"}
  BY DEF Renewed, Send, Acknowledged, SendComplete, NothingAbandoned, Open, RunnerInv,
     RunHasItsAttempt, Running
<1>3. run'.job = run.job /\ run'.attempt = run.attempt
  BY <1>1 DEF Renewed, Send, Acknowledged, SendComplete, RunRecord
<1>4. CASE Renewed
  <2>1. Holds'
    BY <1>1, <1>2, <1>4 DEF Renewed, Renew, Holds, ActiveAttempt, ActiveStates, AttemptRow
  <2>2. QED
    BY <1>1, <1>4, <2>1 DEF Renewed, Renew, NothingAbandoned, Open
<1>5. CASE Send
  <2>1. PICK r \in Requests :
          /\ calls' = [calls EXCEPT ![r] =
               [pc |-> "insert", job |-> run.job, attempt |-> run.attempt,
                first |-> Earliest(Batch), last |-> Latest(Batch),
                next |-> Earliest(Batch), status |-> None]]
          /\ run' = [run EXCEPT !.request = r]
    BY <1>5 DEF Send, BeginAppend
  <2>2. /\ calls'[r].pc = "insert" /\ run'.request = r
        /\ \A q \in Requests \ {r} : calls'[q] = calls[q]
    BY <1>1, <2>1 DEF RunRecord
  <2>3. Holds' /\ pc = "flush" /\ pc' = "sent"
    BY <1>2, <1>3, <1>5 DEF Send, BeginAppend, Holds, ActiveAttempt
  <2>4. QED
    BY <1>1, <1>3, <2>2, <2>3 DEF NothingAbandoned
<1>6. CASE Acknowledged
  <2>1. /\ \A q \in Requests : calls'[q].pc = "idle"
        /\ pc = "sent" /\ pc' = "flush" /\ UNCHANGED attempts
    BY <1>1, <1>6 DEF Acknowledged, AnswerAppend, IdleCall, NothingAbandoned
  <2>2. Holds'
    BY <1>2, <1>3, <2>1 DEF Holds, ActiveAttempt
  <2>3. QED
    BY <1>1, <1>3, <2>1, <2>2 DEF NothingAbandoned
<1>7. CASE SendComplete
  <2>1. PICK r \in Requests :
          /\ calls' = [calls EXCEPT ![r] =
               [pc |-> "attempt", job |-> run.job, attempt |-> run.attempt, first |-> 0,
                last |-> 0, next |-> 0, status |-> run.result]]
          /\ run' = [run EXCEPT !.request = r]
    BY <1>7 DEF SendComplete, BeginComplete
  <2>2. /\ calls'[r].pc = "attempt" /\ calls'[r].job = run.job /\ run'.request = r
        /\ \A q \in Requests \ {r} : calls'[q] = calls[q]
    BY <1>1, <2>1 DEF RunRecord
  <2>3. pc = "complete" /\ pc' = "completing"
    BY <1>7 DEF SendComplete
  <2>4. QED
    BY <1>1, <1>3, <2>2, <2>3 DEF NothingAbandoned
<1>8. QED
  BY <1>4, <1>5, <1>6, <1>7

\* The end of the run is the end of its job.
LEMMA CompletedAbandonsNothing ==
  ASSUME RunnerInv, NothingAbandoned, Faults = {}, Completed
  PROVE  NothingAbandoned'
<1> DEFINE c == calls[run.request]
<1>1. /\ pc = "completing" /\ pc' = "idle" /\ run' = NoRun /\ Open' = {}
      /\ c.pc = "job" /\ c.job = run.job /\ run.request \in Requests /\ run.job \in Jobs
      /\ jobs' = [jobs EXCEPT ![run.job].state = FinalState(c.status)]
      /\ calls' = [calls EXCEPT ![run.request] = IdleCall]
  BY DEF Completed, Leave, FinishJob, NothingAbandoned, Open, RunnerInv, RequestIsItsOwn,
     RunHasItsAttempt, Running
<1>2. calls \in [Requests -> Call] /\ jobs \in [Jobs -> JobRow]
  BY DEF RunnerInv, RunnerTypeOK, TypeOK
<1>3. FinalState(c.status) # "leased"
  BY <1>1, CallShape, FinalStateType
  DEF RunnerInv, RunnerTypeOK, CompleteCall, FinalStates
<1>4. /\ jobs'[run.job].state # "leased"
      /\ \A j \in Jobs \ {run.job} : jobs'[j] = jobs[j]
  BY <1>1, <1>2, <1>3 DEF JobRow
<1>5. \A r \in Requests : calls'[r].pc = "idle"
  BY <1>1, <1>2 DEF IdleCall, NothingAbandoned
<1>6. \A j \in Jobs : jobs'[j].state = "leased" => jobs'[j].config \in Unusable
  BY <1>4 DEF NothingAbandoned
<1>7. QED
  BY <1>1, <1>5, <1>6 DEF NothingAbandoned

\* Others touch neither a leased job nor, without faults, the run's lease.
LEMMA OthersAbandonNothing ==
  ASSUME RunnerInv, NothingAbandoned, Faults = {}, Admin \/ \E r \in Requests : Serve(r)
  PROVE  NothingAbandoned'
<1>1. UNCHANGED <<pc, run, Open>>
  BY DEF Admin, Serve, Open
<1>2. calls \in [Requests -> Call] /\ jobs \in [Jobs -> JobRow]
  BY DEF RunnerInv, RunnerTypeOK, TypeOK
<1>3. CASE Admin
  <2>1. UNCHANGED <<attempts, calls>>
    BY <1>3 DEF Admin, Create, Retry, InsertJob, Cancel
  <2>2. Holds' = Holds
    BY <1>1, <2>1 DEF Holds, ActiveAttempt
  <2>3. \A j \in Jobs : jobs'[j].state = "leased" =>
          jobs[j].state = "leased" /\ jobs'[j].config = jobs[j].config
    <3>1. ASSUME NEW i \in Jobs, NEW c, InsertJob(i, c)
          PROVE  \A j \in Jobs : jobs'[j].state = "leased" => jobs'[j] = jobs[j]
      BY <1>2, <3>1 DEF InsertJob
    <3>2. ASSUME NEW i \in Jobs, Cancel(i)
          PROVE  \A j \in Jobs : /\ jobs'[j].state = "leased" => jobs[j].state = "leased"
                                 /\ jobs'[j].config = jobs[j].config
      BY <1>2, <3>2 DEF Cancel, JobRow
    <3>3. CASE \E i \in Jobs : Cancel(i)
      BY <3>2, <3>3
    <3>4. CASE \E i \in Jobs, c \in Configs : InsertJob(i, c)
      BY <3>1, <3>4
    <3>5. CASE \E p \in Jobs : Retry(p)
      <4>1. PICK p \in Jobs, i \in Jobs : InsertJob(i, jobs[p].config)
        BY <3>5 DEF Retry
      <4>2. QED
        BY <1>2, <4>1 DEF InsertJob
    <3>6. QED
      BY <1>3, <3>3, <3>4, <3>5 DEF Admin, Create
  <2>4. QED
    BY <1>1, <2>1, <2>2, <2>3 DEF NothingAbandoned
<1>4. CASE \E r \in Requests : Serve(r)
  <2>1. PICK r \in Requests : Serve(r)
    BY <1>4
  <2>2. calls[r].pc # "idle" /\ r = run.request /\ pc \in {"sent", "completing"}
    BY <2>1 DEF Serve, InsertLog, FinishAttempt, AnswerAppend, FinishJob, NothingAbandoned
  <2>3. CASE InsertLog(r)
    <3>1. calls[r] \in AppendCall
      BY <2>3, CallShape DEF InsertLog, RunnerInv, RunnerTypeOK
    <3>2. /\ UNCHANGED <<jobs, attempts>>
          /\ calls[r].pc = "insert" /\ calls'[r].pc = "insert"
          /\ \A q \in Requests \ {r} : calls'[q] = calls[q]
      BY <1>2, <2>3, <3>1 DEF InsertLog, AppendCall
    <3>3. Holds' = Holds
      BY <1>1, <3>2 DEF Holds, ActiveAttempt
    <3>4. QED
      BY <1>1, <2>2, <3>2, <3>3 DEF NothingAbandoned
  <2>4. CASE FinishAttempt(r)
    <3>1. calls[r] \in CompleteCall
      BY <2>4, CallShape DEF FinishAttempt, RunnerInv, RunnerTypeOK
    <3>2. /\ UNCHANGED jobs
          /\ calls[r].pc = "attempt" /\ calls'[r].pc = "job" /\ calls'[r].job = calls[r].job
          /\ \A q \in Requests \ {r} : calls'[q] = calls[q]
      BY <1>2, <2>4, <3>1 DEF FinishAttempt, CompleteCall
    <3>3. pc = "completing"
      BY <2>2, <3>2 DEF NothingAbandoned
    <3>4. QED
      BY <1>1, <2>2, <3>2, <3>3 DEF NothingAbandoned
  <2>5. QED
    BY <2>1, <2>2, <2>3, <2>4 DEF Serve
<1>5. QED
  BY <1>3, <1>4

\* Without faults no job that was handed out is ever left to nobody.
THEOREM NobodyAbandons == RunnerSpec => []NothingAbandoned
<1>1. RunnerInit => NothingAbandoned
  BY DEF RunnerInit, Init, NothingAbandoned, IdleCall, Open
<1>2. RunnerInv /\ NothingAbandoned /\ [RunnerNext]_runnerVars => NothingAbandoned'
  <2> SUFFICES ASSUME RunnerInv, NothingAbandoned, RunnerNext \/ UNCHANGED runnerVars,
                      Faults = {}
               PROVE  NothingAbandoned'
    BY DEF NothingAbandoned
  <2>1. ~RenewAnswerLost /\ ~Lapse /\ ~Lose
    BY DEF RenewAnswerLost, Lapse, Lose
  <2>2. CASE UNCHANGED runnerVars
    BY <2>2 DEF runnerVars, vars, NothingAbandoned, Open, Holds, ActiveAttempt
  <2>3. QED
    BY <2>1, <2>2, ClaimAbandonsNothing, LocalAbandonsNothing, CallAbandonsNothing,
       CompletedAbandonsNothing, OthersAbandonNothing
    DEF RunnerNext, WorkerCall, Fault, Local
<1>3. QED
  BY <1>1, <1>2, RunnerInvariance, PTL DEF RunnerSpec
=============================================================================
