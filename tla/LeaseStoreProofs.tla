-------------------------- MODULE LeaseStoreProofs --------------------------
(***************************************************************************)
(* Proofs about LeaseStore, for any jobs, attempts, workers, handlers and  *)
(* sequence bound.  IInv is proved inductive in three groups: types, the   *)
(* rows of jobs and attempts with the complete handlers that write them,   *)
(* and the log rows with the append handlers.                              *)
(***************************************************************************)
EXTENDS LeaseStore, TLAPS

\* A reported status always maps to a state the schema knows.
LEMMA FinalStateType ==
  ASSUME NEW status \in Reports PROVE FinalState(status) \in FinalStates
BY DEF FinalState, FinalStates

LEMMA TypeInit == Init => TypeOK
BY DEF Init, TypeOK, JobRow, AttemptRow, Call, IdleCall

\* The program counter of a handler tells what it carries.
LEMMA CallShape ==
  ASSUME TypeOK, NEW r \in Requests
  PROVE  /\ calls[r].pc = "insert" => calls[r] \in AppendCall
         /\ calls[r].pc \in {"attempt", "job"} => calls[r] \in CompleteCall
         /\ calls[r].pc \in {"idle", "insert", "attempt", "job"}
BY DEF TypeOK, Call, IdleCall, AppendCall, CompleteCall

LEMMA TypeNext == TypeOK /\ [Next]_vars => TypeOK'
<1> SUFFICES ASSUME TypeOK, [Next]_vars PROVE TypeOK'
  OBVIOUS
<1> USE DEF TypeOK
<1>1. ASSUME NEW j \in Jobs, NEW c \in Configs, InsertJob(j, c) PROVE TypeOK'
  BY <1>1 DEF InsertJob, JobRow
<1>2. ASSUME NEW p \in Jobs, Retry(p) PROVE TypeOK'
  BY <1>2 DEF Retry, InsertJob, JobRow
<1>3. ASSUME NEW j \in Jobs, Cancel(j) PROVE TypeOK'
  <2> DEFINE s == IF jobs[j].state = "queued" THEN "cancelled" ELSE jobs[j].state
  <2>1. s \in {"absent", "queued", "leased"} \cup FinalStates
    BY DEF JobRow, FinalStates
  <2>2. jobs' = [jobs EXCEPT ![j].cancelRequested = TRUE, ![j].state = s]
    BY <1>3 DEF Cancel
  <2> HIDE DEF s
  <2>3. jobs' \in [Jobs -> JobRow]
    BY <2>1, <2>2 DEF JobRow
  <2>4. QED
    BY <1>3, <2>3 DEF Cancel
<1>4. ASSUME NEW w \in Workers, Claim(w) PROVE TypeOK'
  <2>1. PICK j \in Jobs, a \in Attempts :
          /\ jobs' = [jobs EXCEPT ![j].state = "leased"]
          /\ attempts' = [attempts EXCEPT ![a] =
                            [state |-> "leased", job |-> j, worker |-> w, live |-> TRUE]]
          /\ UNCHANGED <<inserts, logs, calls, reported, acked>>
    BY <1>4 DEF Claim, Oldest, Claimable
  <2>2. jobs' \in [Jobs -> JobRow]
    BY <2>1 DEF JobRow
  <2>3. attempts' \in [Attempts -> AttemptRow]
    BY <2>1 DEF AttemptRow, ActiveStates
  <2>4. QED
    BY <2>1, <2>2, <2>3
<1>5. ASSUME NEW j \in Jobs, NEW a \in Attempts, Renew(j, a) PROVE TypeOK'
  BY <1>5 DEF Renew, AttemptRow, ActiveStates
<1>6. ASSUME NEW r \in Requests, NEW j \in Jobs, NEW a \in Attempts,
             NEW first \in Sequences, NEW last \in Sequences,
             BeginAppend(r, j, a, first, last)
      PROVE TypeOK'
  BY <1>6, SequenceAssumption DEF BeginAppend, Call, AppendCall, Sequences
<1>7. ASSUME NEW r \in Requests, NEW j \in Jobs, NEW a \in Attempts,
             NEW s \in Reports, BeginComplete(r, j, a, s)
      PROVE TypeOK'
  BY <1>7 DEF BeginComplete, Call, CompleteCall
<1>8. ASSUME NEW r \in Requests, InsertLog(r) PROVE TypeOK'
  <2>1. calls[r] \in AppendCall
    BY <1>8, CallShape DEF InsertLog
  <2>2. calls' \in [Requests -> Call]
    BY <1>8, <2>1, SequenceAssumption DEF InsertLog, Call, AppendCall, Sequences
  <2>3. logs' \subseteq LogRow
    BY <1>8, <2>1, SequenceAssumption DEF InsertLog, AppendCall, LogRow, Sequences
  <2>4. QED
    BY <1>8, <2>2, <2>3 DEF InsertLog
<1>9. ASSUME NEW r \in Requests, AnswerAppend(r) PROVE TypeOK'
  <2>1. calls[r] \in AppendCall
    BY <1>9, CallShape DEF AnswerAppend
  <2>2. (calls[r].first .. calls[r].last) \subseteq Sequences
    BY <2>1, SequenceAssumption DEF AppendCall, Sequences
  <2>3. acked' \in [Attempts -> SUBSET Sequences]
    BY <1>9, <2>1, <2>2 DEF AnswerAppend
  <2>4. QED
    BY <1>9, <2>3 DEF AnswerAppend, Call
<1>10. ASSUME NEW r \in Requests, FinishAttempt(r) PROVE TypeOK'
  <2>1. calls[r] \in CompleteCall
    BY <1>10, CallShape DEF FinishAttempt
  <2>2. FinalState(calls[r].status) \in FinalStates
    BY <2>1, FinalStateType DEF CompleteCall
  <2>3. calls' \in [Requests -> Call]
    BY <1>10, <2>1 DEF FinishAttempt, Call, CompleteCall
  <2>4. attempts' \in [Attempts -> AttemptRow]
    BY <1>10, <2>2 DEF FinishAttempt, AttemptRow
  <2>5. QED
    BY <1>10, <2>3, <2>4 DEF FinishAttempt
<1>11. ASSUME NEW r \in Requests, FinishJob(r) PROVE TypeOK'
  <2>1. calls[r] \in CompleteCall
    BY <1>11, CallShape DEF FinishJob
  <2>2. FinalState(calls[r].status) \in FinalStates
    BY <2>1, FinalStateType DEF CompleteCall
  <2>3. jobs' \in [Jobs -> JobRow]
    BY <1>11, <2>2 DEF FinishJob, JobRow
  <2>4. QED
    BY <1>11, <2>3 DEF FinishJob, Call
<1>12. ASSUME NEW r \in Requests, Drop(r) PROVE TypeOK'
  BY <1>12 DEF Drop, Call
<1>13. ASSUME NEW a \in Attempts, Expire(a) PROVE TypeOK'
  BY <1>13 DEF Expire, AttemptRow
<1>14. CASE UNCHANGED vars
  BY <1>14 DEF vars
<1>15. QED
  BY <1>1, <1>2, <1>3, <1>4, <1>5, <1>6, <1>7, <1>8, <1>9, <1>10, <1>11,
     <1>12, <1>13, <1>14 DEF Next, Create, Handler

-----------------------------------------------------------------------------
(* Rows of jobs and attempts.  RowInv collects the parts of IInv that only *)
(* they and the complete handlers can disturb.                             *)

RowInv ==
  /\ OneAttemptPerJob
  /\ OpenAttemptOfLeasedJob
  /\ FinishedJobAgrees
  /\ QueuedIsClaimable
  /\ AbsentJobsUnmarked
  /\ AttemptsOfClaimedJobs
  /\ FinishedAsReported
  /\ CallsKeepTheirLease

LEMMA RowInit == Init => RowInv
BY NoneAssumption
DEF Init, RowInv, OneAttemptPerJob, OpenAttemptOfLeasedJob, FinishedJobAgrees,
    QueuedIsClaimable, AbsentJobsUnmarked, AttemptsOfClaimedJobs, FinishedAsReported,
    CallsKeepTheirLease, IdleCall, ActiveStates, FinalStates

\* Inserting a job: no attempt names it yet.
LEMMA InsertJobRow ==
  ASSUME TypeOK, RowInv, NEW j \in Jobs, NEW c \in Configs \cup {None}, InsertJob(j, c)
  PROVE  RowInv'
<1> USE DEF TypeOK, JobRow, RowInv, InsertJob
<1>1. \A a \in Attempts : attempts[a].job # j
  BY NoneAssumption DEF AttemptsOfClaimedJobs
<1>2. \A k \in Jobs : k # j => jobs'[k] = jobs[k]
  OBVIOUS
<1>3. OneAttemptPerJob'
  BY DEF OneAttemptPerJob
<1>4. OpenAttemptOfLeasedJob'
  BY <1>1, <1>2 DEF OpenAttemptOfLeasedJob, AttemptsOfClaimedJobs, ActiveStates
<1>5. FinishedJobAgrees'
  BY <1>1, <1>2 DEF FinishedJobAgrees, AttemptsOfClaimedJobs
<1>6. QueuedIsClaimable' /\ AbsentJobsUnmarked'
  BY <1>2 DEF QueuedIsClaimable, AbsentJobsUnmarked
<1>7. AttemptsOfClaimedJobs'
  BY <1>1, <1>2 DEF AttemptsOfClaimedJobs
<1>8. FinishedAsReported' /\ CallsKeepTheirLease'
  BY DEF FinishedAsReported, CallsKeepTheirLease
<1>9. QED
  BY <1>3, <1>4, <1>5, <1>6, <1>7, <1>8

\* Cancelling: a queued job has no attempt, any other keeps its state.
LEMMA CancelRow ==
  ASSUME TypeOK, RowInv, NEW j \in Jobs, Cancel(j)
  PROVE  RowInv'
<1> USE DEF TypeOK, JobRow, RowInv, Cancel
<1>1. \A a \in Attempts : attempts[a].job \in Jobs
        => jobs'[attempts[a].job].state = jobs[attempts[a].job].state
  BY NoneAssumption DEF AttemptsOfClaimedJobs
<1>2. OneAttemptPerJob'
  BY DEF OneAttemptPerJob
<1>3. OpenAttemptOfLeasedJob'
  BY <1>1 DEF OpenAttemptOfLeasedJob, AttemptsOfClaimedJobs, ActiveStates
<1>4. FinishedJobAgrees'
  BY <1>1 DEF FinishedJobAgrees, AttemptsOfClaimedJobs
<1>5. QueuedIsClaimable' /\ AbsentJobsUnmarked'
  BY DEF QueuedIsClaimable, AbsentJobsUnmarked
<1>6. AttemptsOfClaimedJobs'
  BY <1>1 DEF AttemptsOfClaimedJobs
<1>7. FinishedAsReported' /\ CallsKeepTheirLease'
  BY DEF FinishedAsReported, CallsKeepTheirLease
<1>8. QED
  BY <1>2, <1>3, <1>4, <1>5, <1>6, <1>7

\* Claiming: the job was queued, so the new attempt is its only one, and no
\* handler holds the new attempt's lease.
LEMMA ClaimRow ==
  ASSUME TypeOK, RowInv, NEW w \in Workers, Claim(w)
  PROVE  RowInv'
<1> USE DEF TypeOK, RowInv
<1>1. PICK j \in Jobs, a \in Attempts :
        /\ jobs[j].state = "queued"
        /\ attempts[a].state = "absent"
        /\ jobs' = [jobs EXCEPT ![j].state = "leased"]
        /\ attempts' = [attempts EXCEPT ![a] =
                          [state |-> "leased", job |-> j, worker |-> w, live |-> TRUE]]
        /\ UNCHANGED <<inserts, logs, calls, reported, acked>>
  BY DEF Claim, Oldest, Claimable
<1>2. \A b \in Attempts : attempts[b].job # j
  BY <1>1, NoneAssumption DEF AttemptsOfClaimedJobs
<1>3. \A k \in Jobs : k # j => jobs'[k] = jobs[k]
  BY <1>1
<1>4. \A b \in Attempts : b # a => attempts'[b] = attempts[b]
  BY <1>1
<1>5. /\ attempts'[a] = [state |-> "leased", job |-> j, worker |-> w, live |-> TRUE]
      /\ jobs'[j].state = "leased"
  BY <1>1 DEF JobRow
<1>6. OneAttemptPerJob'
  BY <1>2, <1>4, <1>5 DEF OneAttemptPerJob
<1>7. OpenAttemptOfLeasedJob'
  BY <1>2, <1>3, <1>4, <1>5 DEF OpenAttemptOfLeasedJob, AttemptsOfClaimedJobs, ActiveStates
<1>8. FinishedJobAgrees'
  BY <1>2, <1>3, <1>4, <1>5 DEF FinishedJobAgrees, AttemptsOfClaimedJobs, FinalStates
<1>9. QueuedIsClaimable' /\ AbsentJobsUnmarked'
  BY <1>3, <1>5 DEF QueuedIsClaimable, AbsentJobsUnmarked
<1>10. AttemptsOfClaimedJobs'
  BY <1>2, <1>3, <1>4, <1>5 DEF AttemptsOfClaimedJobs
<1>11. FinishedAsReported'
  BY <1>1, <1>4, <1>5 DEF FinishedAsReported, FinalStates
<1>12. CallsKeepTheirLease'
  <2> SUFFICES ASSUME NEW r \in Requests, calls[r].pc # "idle"
               PROVE  calls[r].attempt # a
    BY <1>1, <1>4, CallShape DEF CallsKeepTheirLease, AppendCall, CompleteCall
  <2>1. calls[r].job \in Jobs
    BY CallShape DEF AppendCall, CompleteCall
  <2>2. QED
    BY <1>1, <2>1, NoneAssumption DEF CallsKeepTheirLease, AttemptsOfClaimedJobs
<1>13. QED
  BY <1>6, <1>7, <1>8, <1>9, <1>10, <1>11, <1>12

\* Renewing: the attempt was open and stays open.
LEMMA RenewRow ==
  ASSUME TypeOK, RowInv, NEW j \in Jobs, NEW a \in Attempts, Renew(j, a)
  PROVE  RowInv'
<1> USE DEF TypeOK, RowInv, AttemptRow
<1>1. /\ attempts' = [attempts EXCEPT ![a].state = "running", ![a].live = TRUE]
      /\ attempts[a].job = j
      /\ attempts[a].state \in ActiveStates
      /\ UNCHANGED <<jobs, inserts, logs, calls, reported, acked>>
  BY DEF Renew, ActiveAttempt
<1>2. \A b \in Attempts : attempts'[b].job = attempts[b].job /\ attempts'[b].worker = attempts[b].worker
  BY <1>1
<1>3. \A b \in Attempts : b # a => attempts'[b] = attempts[b]
  BY <1>1
<1>4. attempts'[a].state = "running"
  BY <1>1
<1>5. OneAttemptPerJob'
  BY <1>2 DEF OneAttemptPerJob
<1>6. OpenAttemptOfLeasedJob'
  BY <1>1, <1>2, <1>3 DEF OpenAttemptOfLeasedJob
<1>7. FinishedJobAgrees'
  BY <1>1, <1>2, <1>3 DEF FinishedJobAgrees, OpenAttemptOfLeasedJob, FinalStates
<1>8. QueuedIsClaimable' /\ AbsentJobsUnmarked'
  BY <1>1 DEF QueuedIsClaimable, AbsentJobsUnmarked
<1>9. AttemptsOfClaimedJobs'
  BY <1>1, <1>2, <1>3, <1>4 DEF AttemptsOfClaimedJobs, ActiveStates
<1>10. FinishedAsReported'
  BY <1>1, <1>3, <1>4 DEF FinishedAsReported, FinalStates
<1>11. CallsKeepTheirLease'
  <2> SUFFICES ASSUME NEW r \in Requests, calls[r].pc # "idle"
               PROVE  /\ attempts'[calls[r].attempt].job = calls[r].job
                      /\ calls[r].pc \in {"attempt", "job"} =>
                           reported[calls[r].attempt] = calls[r].status
                      /\ calls[r].pc = "job" =>
                           attempts'[calls[r].attempt].state = FinalState(calls[r].status)
    BY <1>1 DEF CallsKeepTheirLease
  <2>1. calls[r].attempt \in Attempts
    BY CallShape DEF AppendCall, CompleteCall
  <2>2. ASSUME calls[r].pc = "job" PROVE calls[r].attempt # a
    <3>1. FinalState(calls[r].status) \in FinalStates
      BY <2>2, CallShape, FinalStateType DEF CompleteCall
    <3>2. QED
      BY <1>1, <2>2, <3>1 DEF CallsKeepTheirLease, ActiveStates, FinalStates
  <2>3. QED
    BY <1>2, <1>3, <2>1, <2>2 DEF CallsKeepTheirLease
<1>12. QED
  BY <1>5, <1>6, <1>7, <1>8, <1>9, <1>10, <1>11

\* The steps that leave jobs and attempts alone only have to carry the calls.
LEMMA CallRow ==
  ASSUME TypeOK, RowInv, UNCHANGED <<jobs, attempts>>,
         \A a \in Attempts : reported[a] # None => reported'[a] = reported[a],
         CallsKeepTheirLease'
  PROVE  RowInv'
BY DEF RowInv, OneAttemptPerJob, OpenAttemptOfLeasedJob, FinishedJobAgrees,
       QueuedIsClaimable, AbsentJobsUnmarked, AttemptsOfClaimedJobs, FinishedAsReported

\* Closing the attempt: the job cannot be finished yet unless it agrees.
LEMMA FinishAttemptRow ==
  ASSUME TypeOK, RowInv, NEW r \in Requests, FinishAttempt(r)
  PROVE  RowInv'
<1> DEFINE c == calls[r]
<1> DEFINE a == c.attempt
<1> USE DEF TypeOK, RowInv, AttemptRow
<1>1. /\ attempts' = [attempts EXCEPT ![a].state = FinalState(c.status)]
      /\ calls' = [calls EXCEPT ![r].pc = "job"]
      /\ c.pc = "attempt"
      /\ UNCHANGED <<jobs, inserts, logs, reported, acked>>
  BY DEF FinishAttempt
<1>2. a \in Attempts /\ c.job \in Jobs /\ c.status \in Reports
  BY <1>1, CallShape DEF CompleteCall
<1>3. attempts[a].job = c.job /\ reported[a] = c.status /\ c.status # None
  BY <1>1, <1>2, NoneAssumption DEF CallsKeepTheirLease
<1>4. \A b \in Attempts : /\ attempts'[b].job = attempts[b].job
                          /\ attempts'[b].worker = attempts[b].worker
                          /\ b # a => attempts'[b] = attempts[b]
  BY <1>1
<1>5. attempts'[a].state = FinalState(c.status) /\ FinalState(c.status) \in FinalStates
  BY <1>1, <1>2, FinalStateType
<1>6. OneAttemptPerJob'
  BY <1>4 DEF OneAttemptPerJob
<1>7. OpenAttemptOfLeasedJob'
  BY <1>1, <1>4, <1>5 DEF OpenAttemptOfLeasedJob, ActiveStates, FinalStates
<1>8. FinishedJobAgrees'
  <2>1. jobs[c.job].state \in FinalStates => jobs[c.job].state = FinalState(c.status)
    BY <1>2, <1>3, NoneAssumption DEF FinishedJobAgrees, FinishedAsReported
  <2>2. QED
    BY <1>1, <1>3, <1>4, <1>5, <2>1 DEF FinishedJobAgrees
<1>9. QueuedIsClaimable' /\ AbsentJobsUnmarked'
  BY <1>1 DEF QueuedIsClaimable, AbsentJobsUnmarked
<1>10. attempts[a].state # "absent"
  BY <1>2, <1>3, NoneAssumption DEF AttemptsOfClaimedJobs
<1>11. AttemptsOfClaimedJobs'
  BY <1>1, <1>2, <1>4, <1>5, <1>10 DEF AttemptsOfClaimedJobs, FinalStates
<1>12. FinishedAsReported'
  BY <1>1, <1>2, <1>3, <1>4, <1>5 DEF FinishedAsReported
<1>13. CallsKeepTheirLease'
  <2> SUFFICES ASSUME NEW q \in Requests
               PROVE  /\ calls'[q].pc # "idle" =>
                           attempts'[calls'[q].attempt].job = calls'[q].job
                      /\ calls'[q].pc \in {"attempt", "job"} =>
                           reported[calls'[q].attempt] = calls'[q].status
                      /\ calls'[q].pc = "job" =>
                           attempts'[calls'[q].attempt].state = FinalState(calls'[q].status)
    BY <1>1 DEF CallsKeepTheirLease
  <2>1. CASE q = r
    <3>1. /\ calls'[q].pc = "job" /\ calls'[q].attempt = a
          /\ calls'[q].job = c.job /\ calls'[q].status = c.status
      BY <1>1, <2>1
    <3>2. QED
      BY <1>2, <1>3, <1>4, <1>5, <3>1
  <2>2. CASE q # r
    <3>1. calls'[q] = calls[q]
      BY <1>1, <2>2
    <3>2. calls[q].pc # "idle" => calls[q].attempt \in Attempts
      BY CallShape DEF AppendCall, CompleteCall
    <3>3. QED
      BY <1>3, <1>4, <1>5, <3>1, <3>2 DEF CallsKeepTheirLease
  <2>3. QED
    BY <2>1, <2>2
<1>14. QED
  BY <1>6, <1>7, <1>8, <1>9, <1>11, <1>12, <1>13

\* Closing the job: its only attempt is closed already and agrees.
LEMMA FinishJobRow ==
  ASSUME TypeOK, RowInv, NEW r \in Requests, FinishJob(r)
  PROVE  RowInv'
<1> DEFINE c == calls[r]
<1> USE DEF TypeOK, RowInv, JobRow
<1>1. /\ jobs' = [jobs EXCEPT ![c.job].state = FinalState(c.status)]
      /\ calls' = [calls EXCEPT ![r] = IdleCall]
      /\ c.pc = "job"
      /\ UNCHANGED <<inserts, attempts, logs, reported, acked>>
  BY DEF FinishJob
<1>2. c.attempt \in Attempts /\ c.job \in Jobs /\ c.status \in Reports
  BY <1>1, CallShape DEF CompleteCall
<1>3. /\ attempts[c.attempt].job = c.job
      /\ attempts[c.attempt].state = FinalState(c.status)
  BY <1>1, <1>2 DEF CallsKeepTheirLease
<1>4. \A b \in Attempts : attempts[b].job = c.job => b = c.attempt
  BY <1>2, <1>3, NoneAssumption DEF OneAttemptPerJob
<1>5. FinalState(c.status) \in FinalStates
  BY <1>2, FinalStateType
<1>6. /\ \A k \in Jobs : k # c.job => jobs'[k] = jobs[k]
      /\ jobs'[c.job].state = FinalState(c.status)
  BY <1>1, <1>2
<1>7. OneAttemptPerJob'
  BY <1>1 DEF OneAttemptPerJob
<1>8. OpenAttemptOfLeasedJob'
  BY <1>1, <1>3, <1>4, <1>5, <1>6
  DEF OpenAttemptOfLeasedJob, AttemptsOfClaimedJobs, ActiveStates, FinalStates
<1>9. FinishedJobAgrees'
  BY <1>1, <1>3, <1>4, <1>6, NoneAssumption DEF FinishedJobAgrees, AttemptsOfClaimedJobs
<1>10. QueuedIsClaimable' /\ AbsentJobsUnmarked'
  BY <1>5, <1>6 DEF QueuedIsClaimable, AbsentJobsUnmarked, FinalStates
<1>11. AttemptsOfClaimedJobs'
  BY <1>1, <1>5, <1>6 DEF AttemptsOfClaimedJobs, FinalStates
<1>12. FinishedAsReported'
  BY <1>1 DEF FinishedAsReported
<1>13. CallsKeepTheirLease'
  BY <1>1 DEF CallsKeepTheirLease, IdleCall
<1>14. QED
  BY <1>7, <1>8, <1>9, <1>10, <1>11, <1>12, <1>13

\* Time passing only clears `live`.
LEMMA ExpireRow ==
  ASSUME TypeOK, RowInv, NEW a \in Attempts, Expire(a)
  PROVE  RowInv'
<1> USE DEF TypeOK, RowInv, AttemptRow
<1>1. /\ \A b \in Attempts : /\ attempts'[b].job = attempts[b].job
                             /\ attempts'[b].worker = attempts[b].worker
                             /\ attempts'[b].state = attempts[b].state
                             /\ attempts'[b].live => attempts[b].live
      /\ UNCHANGED <<jobs, inserts, logs, calls, reported, acked>>
  BY DEF Expire
<1>2. CallsKeepTheirLease'
  <2> SUFFICES ASSUME NEW r \in Requests, calls[r].pc # "idle"
               PROVE  calls[r].attempt \in Attempts
    BY <1>1 DEF CallsKeepTheirLease
  <2>1. QED
    BY CallShape DEF AppendCall, CompleteCall
<1>3. QED
  BY <1>1, <1>2 DEF OneAttemptPerJob, OpenAttemptOfLeasedJob, FinishedJobAgrees,
     QueuedIsClaimable, AbsentJobsUnmarked, AttemptsOfClaimedJobs, FinishedAsReported

LEMMA RowNext == TypeOK /\ RowInv /\ [Next]_vars => RowInv'
<1> SUFFICES ASSUME TypeOK, RowInv, [Next]_vars PROVE RowInv'
  OBVIOUS
<1>1. ASSUME NEW c \in Configs, Create(c) PROVE RowInv'
  BY <1>1, InsertJobRow DEF Create
<1>2. ASSUME NEW p \in Jobs, Retry(p) PROVE RowInv'
  <2>1. jobs[p].config \in Configs \cup {None}
    BY DEF TypeOK, JobRow
  <2>2. QED
    BY <1>2, <2>1, InsertJobRow DEF Retry
<1>3. ASSUME NEW j \in Jobs, Cancel(j) PROVE RowInv'
  BY <1>3, CancelRow
<1>4. ASSUME NEW w \in Workers, Claim(w) PROVE RowInv'
  BY <1>4, ClaimRow
<1>5. ASSUME NEW j \in Jobs, NEW a \in Attempts, Renew(j, a) PROVE RowInv'
  BY <1>5, RenewRow
<1>6. ASSUME NEW r \in Requests, NEW j \in Jobs, NEW a \in Attempts,
             NEW first \in Sequences, NEW last \in Sequences,
             BeginAppend(r, j, a, first, last)
      PROVE RowInv'
  <2>1. CallsKeepTheirLease'
    BY <1>6 DEF BeginAppend, ActiveAttempt, CallsKeepTheirLease, TypeOK, RowInv
  <2>2. QED
    BY <1>6, <2>1, CallRow DEF BeginAppend
<1>7. ASSUME NEW r \in Requests, NEW j \in Jobs, NEW a \in Attempts,
             NEW s \in Reports, BeginComplete(r, j, a, s)
      PROVE RowInv'
  <2>1. \A b \in Attempts : reported[b] # None => reported'[b] = reported[b]
    BY <1>7, NoneAssumption DEF BeginComplete, TypeOK
  <2>2. \A q \in Requests : calls[q].pc \in {"attempt", "job"}
          => calls[q].attempt \in Attempts /\ calls[q].status # None
    BY CallShape, NoneAssumption DEF CompleteCall
  <2>3. CallsKeepTheirLease'
    BY <1>7, <2>1, <2>2
    DEF BeginComplete, ActiveAttempt, CallsKeepTheirLease, TypeOK, RowInv
  <2>4. QED
    BY <1>7, <2>1, <2>3, CallRow DEF BeginComplete
<1>8. ASSUME NEW r \in Requests, InsertLog(r) PROVE RowInv'
  <2>1. CallsKeepTheirLease'
    <3>1. calls[r] \in AppendCall
      BY <1>8, CallShape DEF InsertLog
    <3>2. QED
      BY <1>8, <3>1 DEF InsertLog, CallsKeepTheirLease, TypeOK, RowInv, AppendCall
  <2>2. QED
    BY <1>8, <2>1, CallRow DEF InsertLog
<1>9. ASSUME NEW r \in Requests, AnswerAppend(r) \/ Drop(r) PROVE RowInv'
  <2>1. CallsKeepTheirLease'
    BY <1>9 DEF AnswerAppend, Drop, CallsKeepTheirLease, TypeOK, RowInv, IdleCall
  <2>2. QED
    BY <1>9, <2>1, CallRow DEF AnswerAppend, Drop
<1>10. ASSUME NEW r \in Requests, FinishAttempt(r) PROVE RowInv'
  BY <1>10, FinishAttemptRow
<1>11. ASSUME NEW r \in Requests, FinishJob(r) PROVE RowInv'
  BY <1>11, FinishJobRow
<1>12. ASSUME NEW a \in Attempts, Expire(a) PROVE RowInv'
  BY <1>12, ExpireRow
<1>13. CASE UNCHANGED vars
  BY <1>13, CallRow DEF vars, CallsKeepTheirLease, RowInv
<1>14. QED
  BY <1>1, <1>2, <1>3, <1>4, <1>5, <1>6, <1>7, <1>8, <1>9, <1>10, <1>11,
     <1>12, <1>13 DEF Next, Handler

-----------------------------------------------------------------------------
(* Log rows and acknowledgements.                                          *)

LogInv ==
  /\ AckedAreStored
  /\ LogsOfOwnJob
  /\ BatchStoredSoFar

\* An attempt keeps its job, and log rows are only ever added.
LEMMA RowsStay ==
  ASSUME TypeOK, RowInv, [Next]_vars
  PROVE  /\ \A a \in Attempts :
              attempts[a].job # None => attempts'[a].job = attempts[a].job
         /\ logs \subseteq logs'
<1> USE DEF TypeOK, AttemptRow
<1>1. ASSUME NEW w \in Workers, Claim(w), NEW a \in Attempts, attempts[a].job # None
      PROVE  attempts'[a].job = attempts[a].job
  BY <1>1 DEF Claim, RowInv, AttemptsOfClaimedJobs
<1>2. \A r \in Requests : InsertLog(r) => logs \subseteq logs'
  BY DEF InsertLog
<1>3. ASSUME NEW j \in Jobs, NEW b \in Attempts, Renew(j, b), NEW a \in Attempts
      PROVE  attempts'[a].job = attempts[a].job
  BY <1>3 DEF Renew
<1>4. ASSUME NEW r \in Requests, FinishAttempt(r), NEW a \in Attempts
      PROVE  attempts'[a].job = attempts[a].job
  BY <1>4 DEF FinishAttempt
<1>5. \A a \in Attempts :
        attempts[a].job # None => attempts'[a].job = attempts[a].job
  <2>1. \/ UNCHANGED attempts
        \/ \E w \in Workers : Claim(w)
        \/ \E j \in Jobs, b \in Attempts : Renew(j, b)
        \/ \E r \in Requests : FinishAttempt(r)
        \/ \E b \in Attempts : Expire(b)
    BY DEF Next, Handler, Create, Retry, InsertJob, Cancel, BeginAppend,
       BeginComplete, InsertLog, AnswerAppend, FinishJob, Drop, vars
  <2>2. ASSUME NEW b \in Attempts, Expire(b), NEW a \in Attempts
        PROVE  attempts'[a].job = attempts[a].job
    BY <2>2 DEF Expire
  <2>3. QED
    BY <1>1, <1>3, <1>4, <2>1, <2>2
<1>6. logs \subseteq logs'
  <2>1. UNCHANGED logs \/ \E r \in Requests : InsertLog(r)
    BY DEF Next, Handler, Create, Retry, InsertJob, Cancel, Claim, Renew, BeginAppend,
       BeginComplete, AnswerAppend, FinishAttempt, FinishJob, Drop, Expire, vars
  <2>2. QED
    BY <1>2, <2>1
<1>7. QED
  BY <1>5, <1>6

LEMMA LogInit == Init => LogInv
BY DEF Init, LogInv, AckedAreStored, LogsOfOwnJob, BatchStoredSoFar, IdleCall

\* One row: the handler's attempt and job belong together, and the row that
\* ON CONFLICT keeps is as good as the one it drops.
LEMMA InsertLogStep ==
  ASSUME IInv, NEW r \in Requests, InsertLog(r)
  PROVE  LogInv'
<1> DEFINE c == calls[r]
<1> USE DEF TypeOK, IInv
<1>1. /\ c \in AppendCall
      /\ c.next <= c.last
      /\ calls' = [calls EXCEPT ![r].next = c.next + 1]
      /\ UNCHANGED <<attempts, acked>>
  BY CallShape DEF InsertLog
<1>2. /\ logs \subseteq logs'
      /\ \E row \in logs' : row.attempt = c.attempt /\ row.sequence = c.next
      /\ \A row \in logs' \ logs : row.attempt = c.attempt /\ row.job = c.job
  <2> DEFINE new == [attempt |-> c.attempt, sequence |-> c.next, job |-> c.job]
  <2>1. /\ new.attempt = c.attempt
        /\ new.sequence = c.next
        /\ new.job = c.job
    OBVIOUS
  <2>2. \/ /\ logs' = logs
           /\ \E row \in logs : row.attempt = c.attempt /\ row.sequence = c.next
        \/ logs' = logs \cup {new}
    BY DEF InsertLog
  <2> HIDE DEF new
  <2>3. QED
    BY <2>1, <2>2
<1>3. AckedAreStored'
  BY <1>1, <1>2 DEF AckedAreStored
<1>4. LogsOfOwnJob'
  <2>1. attempts[c.attempt].job = c.job
    BY <1>1 DEF CallsKeepTheirLease, AppendCall
  <2>2. QED
    BY <1>1, <1>2, <2>1 DEF LogsOfOwnJob
<1>5. BatchStoredSoFar'
  <2> SUFFICES ASSUME NEW q \in Requests, calls'[q].pc = "insert",
                      NEW n \in calls'[q].first .. (calls'[q].next - 1)
               PROVE  \E row \in logs' : /\ row.attempt = calls'[q].attempt
                                         /\ row.sequence = n
    BY DEF BatchStoredSoFar
  <2>1. CASE q # r
    BY <1>1, <1>2, <2>1 DEF BatchStoredSoFar
  <2>2. CASE q = r
    <3>1. /\ calls'[q].first = c.first
          /\ calls'[q].next = c.next + 1
          /\ calls'[q].attempt = c.attempt
          /\ c.pc = "insert"
          /\ c.first \in Int /\ c.next \in Int
      BY <1>1, <2>2, SequenceAssumption DEF AppendCall, Sequences
    <3>2. n = c.next \/ n \in c.first .. (c.next - 1)
      BY <3>1
    <3>3. QED
      BY <1>2, <3>1, <3>2 DEF BatchStoredSoFar
  <2>3. QED
    BY <2>1, <2>2
<1>6. QED
  BY <1>3, <1>4, <1>5 DEF LogInv

\* The answer: the handler is past `last`, so all it acknowledges is there.
LEMMA AnswerAppendStep ==
  ASSUME IInv, NEW r \in Requests, AnswerAppend(r)
  PROVE  LogInv'
<1> DEFINE c == calls[r]
<1> USE DEF TypeOK, IInv
<1>1. /\ c \in AppendCall
      /\ c.next > c.last
      /\ c.pc = "insert"
      /\ acked' = [acked EXCEPT ![c.attempt] = @ \cup (c.first .. c.last)]
      /\ calls' = [calls EXCEPT ![r] = IdleCall]
      /\ UNCHANGED <<attempts, logs>>
  BY CallShape DEF AnswerAppend
<1>2. (c.first .. c.last) \subseteq (c.first .. (c.next - 1))
  BY <1>1, SequenceAssumption DEF AppendCall, Sequences
<1>3. AckedAreStored'
  BY <1>1, <1>2 DEF AckedAreStored, BatchStoredSoFar, AppendCall
<1>4. LogsOfOwnJob' /\ BatchStoredSoFar'
  BY <1>1 DEF LogsOfOwnJob, BatchStoredSoFar, IdleCall
<1>5. QED
  BY <1>3, <1>4 DEF LogInv

LEMMA LogNext == IInv /\ [Next]_vars => LogInv'
<1> SUFFICES ASSUME IInv, [Next]_vars PROVE LogInv'
  OBVIOUS
<1> USE DEF IInv
<1>1. RowInv
  BY DEF RowInv
<1>2. ASSUME NEW r \in Requests, InsertLog(r) PROVE LogInv'
  BY <1>2, InsertLogStep
<1>3. ASSUME NEW r \in Requests, AnswerAppend(r) PROVE LogInv'
  BY <1>3, AnswerAppendStep
<1>4. ASSUME NEW r \in Requests, NEW j \in Jobs, NEW a \in Attempts,
             NEW first \in Sequences, NEW last \in Sequences,
             BeginAppend(r, j, a, first, last)
      PROVE LogInv'
  <2>1. first .. (first - 1) = {}
    BY SequenceAssumption DEF Sequences
  <2>2. QED
    BY <1>4, <2>1 DEF BeginAppend, LogInv, AckedAreStored, LogsOfOwnJob,
       BatchStoredSoFar, TypeOK
<1>5. ASSUME UNCHANGED <<logs, acked>>,
             \A r \in Requests : calls'[r].pc = "insert" => calls'[r] = calls[r]
      PROVE LogInv'
  <2>1. AckedAreStored' /\ BatchStoredSoFar'
    BY <1>5 DEF AckedAreStored, BatchStoredSoFar
  <2>2. LogsOfOwnJob'
    BY <1>1, <1>5, RowsStay, NoneAssumption DEF LogsOfOwnJob, TypeOK, LogRow
  <2>3. QED
    BY <2>1, <2>2 DEF LogInv
<1>6. ASSUME NEW r \in Requests, NEW j \in Jobs, NEW a \in Attempts,
             NEW s \in Reports, BeginComplete(r, j, a, s)
      PROVE LogInv'
  BY <1>5, <1>6 DEF BeginComplete, TypeOK
<1>7. ASSUME NEW r \in Requests, FinishAttempt(r) \/ FinishJob(r) \/ Drop(r)
      PROVE LogInv'
  <2>1. calls'[r].pc \in {"idle", "job"}
    <3>1. FinishAttempt(r) => calls[r] \in CompleteCall
      BY CallShape DEF FinishAttempt
    <3>2. QED
      BY <1>7, <3>1 DEF FinishAttempt, FinishJob, Drop, TypeOK, IdleCall, CompleteCall
  <2>2. \A q \in Requests : q # r => calls'[q] = calls[q]
    BY <1>7 DEF FinishAttempt, FinishJob, Drop, TypeOK
  <2>3. UNCHANGED <<logs, acked>>
    BY <1>7 DEF FinishAttempt, FinishJob, Drop
  <2>4. QED
    BY <1>5, <2>1, <2>2, <2>3
<1>8. ASSUME UNCHANGED <<logs, acked, calls>> PROVE LogInv'
  BY <1>5, <1>8
<1>9. QED
  BY <1>2, <1>3, <1>4, <1>6, <1>7, <1>8 DEF Next, Handler, Create, Retry,
     InsertJob, Cancel, Claim, Renew, Expire, vars

-----------------------------------------------------------------------------
(* The theorems.                                                           *)

\* The inductive invariant holds of every instance: types, exclusivity of
\* the lease, agreement of job and attempt, and completeness of the log.
THEOREM Invariance == Spec => []IInv
<1>1. Init => IInv
  BY TypeInit, RowInit, LogInit DEF IInv, RowInv, LogInv
<1>2. IInv /\ [Next]_vars => IInv'
  BY TypeNext, RowNext, LogNext DEF IInv, RowInv, LogInv
<1>3. QED
  BY <1>1, <1>2, PTL DEF Spec

\* While a lease is open its job reads 'leased': no order of the statements
\* of complete leaves a finished job that a worker may still write to.
THEOREM OpenLeaseOpenJob == Spec => []OpenAttemptOfLeasedJob
<1>1. IInv => OpenAttemptOfLeasedJob
  BY DEF IInv
<1>2. QED
  BY <1>1, Invariance, PTL

\* A queued job carries no cancellation, a retried one neither: it is offered.
THEOREM QueuedOffered == Spec => []QueuedIsClaimable
<1>1. IInv => QueuedIsClaimable
  BY DEF IInv
<1>2. QED
  BY <1>1, Invariance, PTL

\* Whatever lease a handler looked at, it writes into the log of that job.
THEOREM LogsKeptApart == Spec => []LogsOfOwnJob
<1>1. IInv => LogsOfOwnJob
  BY DEF IInv
<1>2. QED
  BY <1>1, Invariance, PTL

\* However many workers poll and however leases lapse, no job is ever given
\* to two attempts.
THEOREM ExclusiveLease == Spec => []OneAttemptPerJob
<1>1. IInv => OneAttemptPerJob
  BY DEF IInv
<1>2. QED
  BY <1>1, Invariance, PTL

\* Whatever the order of the statements of complete handlers, a finished
\* job agrees with the attempt that ran it.
THEOREM FinishedAgreement == Spec => []FinishedJobAgrees
<1>1. IInv => FinishedJobAgrees
  BY DEF IInv
<1>2. QED
  BY <1>1, Invariance, PTL

\* No acknowledged event is missing from job_logs.
THEOREM AckedLogged == Spec => []AckedAreStored
<1>1. IInv => AckedAreStored
  BY DEF IInv
<1>2. QED
  BY <1>1, Invariance, PTL

-----------------------------------------------------------------------------
(* A lost lease and the abstract life of a job.                            *)

LEMMA LostStep ==
  ASSUME IInv, [Next]_vars, NEW a \in Attempts, NEW j \in Jobs,
         attempts[a].job = j, ~ActiveAttempt(j, a)
  PROVE  ~ActiveAttempt(j, a)'
<1> USE DEF IInv, TypeOK, AttemptRow, ActiveAttempt
<1>1. ASSUME NEW w \in Workers, Claim(w) PROVE attempts'[a] = attempts[a]
  BY <1>1, NoneAssumption DEF Claim, AttemptsOfClaimedJobs
<1>2. ASSUME NEW i \in Jobs, NEW b \in Attempts, Renew(i, b)
      PROVE  attempts'[a] = attempts[a]
  BY <1>2 DEF Renew
<1>3. ASSUME NEW r \in Requests, FinishAttempt(r)
      PROVE  attempts'[a] = attempts[a] \/ attempts'[a].state \notin ActiveStates
  <2>1. FinalState(calls[r].status) \in FinalStates
    BY <1>3, CallShape, FinalStateType DEF FinishAttempt, CompleteCall
  <2>2. QED
    BY <1>3, <2>1 DEF FinishAttempt, ActiveStates, FinalStates
<1>4. ASSUME NEW b \in Attempts, Expire(b)
      PROVE  attempts'[a] = attempts[a] \/ ~attempts'[a].live
  BY <1>4 DEF Expire
<1>5. \/ UNCHANGED attempts
      \/ \E w \in Workers : Claim(w)
      \/ \E i \in Jobs, b \in Attempts : Renew(i, b)
      \/ \E r \in Requests : FinishAttempt(r)
      \/ \E b \in Attempts : Expire(b)
  BY DEF Next, Handler, Create, Retry, InsertJob, Cancel, BeginAppend,
     BeginComplete, InsertLog, AnswerAppend, FinishJob, Drop, vars
<1>6. QED
  BY <1>1, <1>2, <1>3, <1>4, <1>5

\* A worker that is told "not accepted" once will never hold that lease
\* again, whatever renewals and completions are still in flight.
THEOREM LostLease == Spec => LostLeaseStaysLost
<1>1. IInv /\ [Next]_vars =>
        [\A a \in Attempts, j \in Jobs :
           attempts[a].job = j /\ ~ActiveAttempt(j, a) => ~ActiveAttempt(j, a)']_vars
  BY LostStep
<1>2. QED
  BY <1>1, Invariance, PTL DEF Spec, LostLeaseStaysLost

\* Mapping a job's row and its attempts to the abstract job.
phaseOf == [j \in Jobs |-> jobs[j].state]
askedOf == {j \in Jobs : jobs[j].cancelRequested}
ranByOf == [j \in Jobs |-> {w \in Workers :
              \E a \in Attempts : attempts[a].job = j /\ attempts[a].worker = w}]

LEMMA LifecycleInit == Init => Lifecycle!Init
BY NoneAssumption DEF Init, Lifecycle!Init

\* The steps that move no job and hand out nothing are stutters.
LEMMA StutterStep ==
  ASSUME UNCHANGED jobs,
         \A a \in Attempts : /\ attempts'[a].job = attempts[a].job
                             /\ attempts'[a].worker = attempts[a].worker
  PROVE  UNCHANGED <<phaseOf, askedOf, ranByOf>>
BY DEF phaseOf, askedOf, ranByOf

LEMMA SubmitStep ==
  ASSUME IInv, NEW j \in Jobs, NEW c \in Configs \cup {None}, InsertJob(j, c)
  PROVE  Lifecycle!Submit(j)
<1> USE DEF IInv, TypeOK, JobRow, InsertJob
<1>1. phaseOf[j] = "absent" /\ phaseOf' = [phaseOf EXCEPT ![j] = "queued"]
  BY DEF phaseOf
<1>2. askedOf' = askedOf
  BY DEF askedOf, AbsentJobsUnmarked
<1>3. ranByOf' = ranByOf
  BY DEF ranByOf
<1>4. QED
  BY <1>1, <1>2, <1>3 DEF Lifecycle!Submit, phaseOf, askedOf, ranByOf

LEMMA AskCancelStep ==
  ASSUME IInv, NEW j \in Jobs, Cancel(j)
  PROVE  Lifecycle!AskCancel(j)
<1> USE DEF IInv, TypeOK, JobRow, Cancel
<1>1. phaseOf[j] # "absent"
  BY DEF phaseOf
<1>2. phaseOf' = [phaseOf EXCEPT ![j] = IF @ = "queued" THEN "cancelled" ELSE @]
  BY DEF phaseOf
<1>3. askedOf' = askedOf \cup {j}
  BY DEF askedOf
<1>4. ranByOf' = ranByOf
  BY DEF ranByOf
<1>5. QED
  BY <1>1, <1>2, <1>3, <1>4 DEF Lifecycle!AskCancel, phaseOf, askedOf, ranByOf

LEMMA TakeStep ==
  ASSUME IInv, NEW w \in Workers, Claim(w)
  PROVE  \E j \in Jobs : Lifecycle!Take(j, w)
<1> USE DEF IInv, TypeOK, JobRow, AttemptRow
<1>1. PICK j \in Jobs, a \in Attempts :
        /\ jobs[j].state = "queued" /\ ~jobs[j].cancelRequested
        /\ attempts[a].state = "absent"
        /\ jobs' = [jobs EXCEPT ![j].state = "leased"]
        /\ attempts' = [attempts EXCEPT ![a] =
                          [state |-> "leased", job |-> j, worker |-> w, live |-> TRUE]]
  BY DEF Claim, Oldest, Claimable
<1>2. \A b \in Attempts : attempts[b].job # j
  BY <1>1, NoneAssumption DEF AttemptsOfClaimedJobs
<1>3. attempts[a].job = None
  BY <1>1 DEF AttemptsOfClaimedJobs
<1>4. phaseOf[j] = "queued" /\ j \notin askedOf /\ ranByOf[j] = {}
  BY <1>1, <1>2 DEF phaseOf, askedOf, ranByOf
<1>5. phaseOf' = [phaseOf EXCEPT ![j] = "leased"]
  BY <1>1 DEF phaseOf
<1>6. askedOf' = askedOf
  BY <1>1 DEF askedOf
<1>7. ranByOf' = [ranByOf EXCEPT ![j] = {w}]
  <2>1. \A b \in Attempts : b # a => attempts'[b] = attempts[b]
    BY <1>1
  <2>2. attempts'[a].job = j /\ attempts'[a].worker = w
    BY <1>1
  <2>3. ranByOf'[j] = {w}
    BY <1>2, <2>1, <2>2 DEF ranByOf
  <2>4. ASSUME NEW k \in Jobs, k # j PROVE ranByOf'[k] = ranByOf[k]
    <3>1. \A b \in Attempts, v \in Workers :
            (attempts'[b].job = k /\ attempts'[b].worker = v)
              <=> (attempts[b].job = k /\ attempts[b].worker = v)
      BY <1>3, <2>1, <2>2, <2>4, NoneAssumption
    <3>2. QED
      BY <3>1 DEF ranByOf
  <2>5. QED
    BY <2>3, <2>4 DEF ranByOf
<1>8. QED
  BY <1>4, <1>5, <1>6, <1>7 DEF Lifecycle!Take, phaseOf, askedOf, ranByOf

\* The job is 'leased', or another complete handler of the same lease has
\* finished it already, and with the same outcome.
LEMMA FinishStep ==
  ASSUME IInv, NEW r \in Requests, FinishJob(r)
  PROVE  \/ \E j \in Jobs, outcome \in FinalStates : Lifecycle!Finish(j, outcome)
         \/ UNCHANGED <<phaseOf, askedOf, ranByOf>>
<1> DEFINE c == calls[r]
<1> DEFINE outcome == FinalState(c.status)
<1> USE DEF IInv, TypeOK, JobRow
<1>1. /\ jobs' = [jobs EXCEPT ![c.job].state = outcome]
      /\ c.pc = "job"
      /\ UNCHANGED attempts
  BY DEF FinishJob
<1>2. c \in CompleteCall /\ c.attempt \in Attempts /\ c.job \in Jobs
  BY <1>1, CallShape DEF CompleteCall
<1>3. outcome \in FinalStates
  BY <1>2, FinalStateType DEF CompleteCall
<1>4. /\ attempts[c.attempt].job = c.job
      /\ attempts[c.attempt].state = outcome
  BY <1>1, <1>2 DEF CallsKeepTheirLease
<1>5. jobs[c.job].state \in {"leased"} \cup FinalStates
  BY <1>2, <1>3, <1>4 DEF AttemptsOfClaimedJobs, FinalStates
<1>6. /\ phaseOf' = [phaseOf EXCEPT ![c.job] = outcome]
      /\ askedOf' = askedOf
      /\ ranByOf' = ranByOf
  BY <1>1, <1>2 DEF phaseOf, askedOf, ranByOf
<1>7. CASE jobs[c.job].state = "leased"
  <2>1. PICK j \in Jobs, o \in FinalStates : j = c.job /\ o = outcome
    BY <1>2, <1>3
  <2>2. Lifecycle!Finish(j, o)
    BY <1>6, <1>7, <2>1 DEF Lifecycle!Finish, phaseOf, askedOf, ranByOf
  <2>3. QED
    BY <2>2
<1>8. CASE jobs[c.job].state \in FinalStates
  <2>1. jobs[c.job].state = outcome
    <3>1. attempts[c.attempt].job # None
      BY <1>2, <1>4, NoneAssumption
    <3>2. attempts[c.attempt].state = jobs[c.job].state
      BY <1>2, <1>4, <1>8, <3>1 DEF FinishedJobAgrees
    <3>3. QED
      BY <1>4, <3>2
  <2>2. phaseOf' = phaseOf
    BY <1>2, <1>6, <2>1 DEF phaseOf
  <2>3. QED
    BY <1>6, <2>2
<1>9. QED
  BY <1>5, <1>7, <1>8

LEMMA LifecycleNext ==
  ASSUME IInv, [Next]_vars
  PROVE  [Lifecycle!Next]_(Lifecycle!lifecycleVars)
<1> DEFINE Goal == [Lifecycle!Next]_(Lifecycle!lifecycleVars)
<1> USE DEF IInv, TypeOK, AttemptRow
<1>0. ASSUME UNCHANGED <<phaseOf, askedOf, ranByOf>> PROVE Goal
  BY <1>0 DEF Lifecycle!lifecycleVars, phaseOf, askedOf, ranByOf
<1>1. ASSUME NEW c \in Configs, Create(c) PROVE Goal
  BY <1>1, SubmitStep DEF Create, Lifecycle!Next
<1>2. ASSUME NEW p \in Jobs, Retry(p) PROVE Goal
  <2>1. jobs[p].config \in Configs \cup {None}
    BY DEF JobRow
  <2>2. QED
    BY <1>2, <2>1, SubmitStep DEF Retry, Lifecycle!Next
<1>3. ASSUME NEW j \in Jobs, Cancel(j) PROVE Goal
  BY <1>3, AskCancelStep DEF Lifecycle!Next
<1>4. ASSUME NEW w \in Workers, Claim(w) PROVE Goal
  BY <1>4, TakeStep DEF Lifecycle!Next
<1>5. ASSUME NEW r \in Requests, FinishJob(r) PROVE Goal
  <2>1. CASE UNCHANGED <<phaseOf, askedOf, ranByOf>>
    BY <2>1, <1>0
  <2>2. ASSUME NEW j \in Jobs, NEW outcome \in FinalStates,
               Lifecycle!Finish(j, outcome)
        PROVE  Goal
    BY <2>2 DEF Lifecycle!Next
  <2>3. QED
    BY <1>5, <2>1, <2>2, FinishStep
<1>6. ASSUME NEW j \in Jobs, NEW a \in Attempts, Renew(j, a) PROVE Goal
  BY <1>6, <1>0, StutterStep DEF Renew
<1>7. ASSUME NEW r \in Requests, FinishAttempt(r) PROVE Goal
  BY <1>7, <1>0, StutterStep DEF FinishAttempt
<1>8. ASSUME NEW a \in Attempts, Expire(a) PROVE Goal
  BY <1>8, <1>0, StutterStep DEF Expire
<1>9. ASSUME UNCHANGED <<jobs, attempts>> PROVE Goal
  BY <1>9, <1>0, StutterStep
<1>10. QED
  BY <1>1, <1>2, <1>3, <1>4, <1>5, <1>6, <1>7, <1>8, <1>9
  DEF Next, Handler, BeginAppend, BeginComplete, InsertLog, AnswerAppend, Drop, vars

\* The SQL handlers, with their leases, crashes and duplicated requests,
\* implement the abstract life of a job: handed out at most once, never
\* after a cancellation, finished at most once.
THEOREM Implementation == Spec => ImplementsLifecycle
<1>1. Init => Lifecycle!Init
  BY LifecycleInit
<1>2. IInv /\ [Next]_vars => [Lifecycle!Next]_(Lifecycle!lifecycleVars)
  BY LifecycleNext
<1>3. QED
  BY <1>1, <1>2, Invariance, PTL DEF Spec, ImplementsLifecycle, Lifecycle!Spec
=============================================================================
