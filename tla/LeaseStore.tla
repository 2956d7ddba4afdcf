----------------------------- MODULE LeaseStore -----------------------------
(***************************************************************************)
(* The control plane's job table and its leases, as Neon Postgres sees     *)
(* them: web/lib/services/jobs.ts (DatabaseAdminJobStore) and              *)
(* web/lib/services/leases.ts (DatabaseLeaseStore).                        *)
(*                                                                         *)
(* Every sql`...` template of those classes is one HTTP request to Neon    *)
(* and one transaction.  A handler made of a single statement is one       *)
(* action here; a handler made of several (appendUpdates, complete) is a   *)
(* process of its own in `calls`, which the other handlers interleave      *)
(* with and which Drop may kill between any two statements.                *)
(*                                                                         *)
(* A lease token is a fresh random value whose hash sits in one attempt    *)
(* row, so a token and its attempt are one value of Attempts.  Time is     *)
(* only ever read as lease_expires_at > now(): the column `live` is that   *)
(* comparison, and Expire is the passing of time.                          *)
(***************************************************************************)
EXTENDS Integers, FiniteSets

CONSTANTS
  Jobs,         \* job ids
  Attempts,     \* attempt ids, each with its lease token
  Workers,      \* registered workers
  Configs,      \* job configurations
  CanRun,       \* <<config, worker>>: the capabilities cover the config
  Requests,     \* multi-statement handlers that may be in flight at once
  MaxSequence,  \* bound on the sequence numbers a worker sends
  Reports,      \* the result statuses workers report
  None          \* the NULL of a column

ASSUME CapabilityAssumption == CanRun \subseteq Configs \X Workers
ASSUME SequenceAssumption == MaxSequence \in Nat
ASSUME ReportAssumption == Reports \subseteq {"succeeded", "partial", "failed", "cancelled"}
ASSUME NoneAssumption ==
  None \notin Jobs \cup Attempts \cup Workers \cup Configs \cup Reports

VARIABLES
  jobs,      \* table jobs
  inserts,   \* how many jobs were inserted: the clock behind created_at
  attempts,  \* table job_attempts
  logs,      \* table job_logs
  calls,     \* the multi-statement handlers in flight
  reported,  \* per attempt, the result status its worker reports
  acked      \* per attempt, the sequences its worker was told are stored

vars == <<jobs, inserts, attempts, logs, calls, reported, acked>>

Sequences == 1..MaxSequence
ActiveStates == {"leased", "running"}
FinalStates == {"succeeded", "failed", "cancelled"}

\* finalStateFromResult: the schema has no 'partial', so it is a failure.
FinalState(status) ==
  IF status \in {"succeeded", "cancelled"} THEN status ELSE "failed"

JobRow == [state: {"absent", "queued", "leased"} \cup FinalStates,
           cancelRequested: BOOLEAN,
           config: Configs \cup {None},
           createdAt: Nat]

AttemptRow == [state: {"absent"} \cup ActiveStates \cup FinalStates,
               job: Jobs \cup {None},
               worker: Workers \cup {None},
               live: BOOLEAN]

LogRow == [attempt: Attempts, sequence: Sequences, job: Jobs]

\* A handler between two of its statements: appendUpdates about to insert
\* `next`, or complete about to update job_attempts or jobs.
IdleCall == [pc |-> "idle", job |-> None, attempt |-> None,
             first |-> 0, last |-> 0, next |-> 0, status |-> None]

AppendCall == [pc: {"insert"}, job: Jobs, attempt: Attempts,
               first: Sequences, last: Sequences, next: 1..(MaxSequence + 1),
               status: {None}]

CompleteCall == [pc: {"attempt", "job"}, job: Jobs, attempt: Attempts,
                 first: {0}, last: {0}, next: {0}, status: Reports]

Call == {IdleCall} \cup AppendCall \cup CompleteCall

TypeOK ==
  /\ jobs \in [Jobs -> JobRow]
  /\ inserts \in Nat
  /\ attempts \in [Attempts -> AttemptRow]
  /\ logs \subseteq LogRow
  /\ calls \in [Requests -> Call]
  /\ reported \in [Attempts -> Reports \cup {None}]
  /\ acked \in [Attempts -> SUBSET Sequences]

Init ==
  /\ jobs = [j \in Jobs |-> [state |-> "absent", cancelRequested |-> FALSE,
                             config |-> None, createdAt |-> 0]]
  /\ inserts = 0
  /\ attempts = [a \in Attempts |-> [state |-> "absent", job |-> None,
                                     worker |-> None, live |-> FALSE]]
  /\ logs = {}
  /\ calls = [r \in Requests |-> IdleCall]
  /\ reported = [a \in Attempts |-> None]
  /\ acked = [a \in Attempts |-> {}]

\* ORDER BY created_at LIMIT 1, over the rows a WHERE clause kept.
Oldest(S) == {j \in S : \A k \in S : jobs[j].createdAt <= jobs[k].createdAt}

-----------------------------------------------------------------------------
(* Mistakes the properties must catch: each stands for one operation below *)
(* as a plausible bug would leave it, and is used by no other definition.  *)

\* INSERT ... SELECT *: the child inherits the parent's cancel_requested.
RetryCopyingFlag(parent) ==
  /\ jobs[parent].state # "absent"
  /\ \E j \in Jobs :
       /\ jobs[j].state = "absent"
       /\ jobs' = [jobs EXCEPT ![j] = [jobs[parent] EXCEPT
                     !.state = "queued", !.createdAt = inserts + 1]]
  /\ inserts' = inserts + 1
  /\ UNCHANGED <<attempts, logs, calls, reported, acked>>

\* Cancelling finishes a job its worker still runs.
CancelLeased(j) ==
  /\ jobs[j].state # "absent"
  /\ jobs' = [jobs EXCEPT
                ![j].cancelRequested = TRUE,
                ![j].state = IF @ \in {"queued", "leased"} THEN "cancelled" ELSE @]
  /\ UNCHANGED <<inserts, attempts, logs, calls, reported, acked>>

\* A leased job is offered again with no look at its lease.
ClaimableAgain(w) ==
  {j \in Jobs : /\ jobs[j].state \in {"queued", "leased"}
                /\ ~jobs[j].cancelRequested
                /\ <<jobs[j].config, w>> \in CanRun}

\* The oldest queued job is picked first and its capabilities tested after.
ClaimHeadOfLine(w) ==
  \E j \in Oldest({i \in Jobs : jobs[i].state = "queued"}), a \in Attempts :
    /\ <<jobs[j].config, w>> \in CanRun
    /\ attempts[a].state = "absent"
    /\ jobs' = [jobs EXCEPT ![j].state = "leased"]
    /\ attempts' = [attempts EXCEPT ![a] = [state |-> "leased", job |-> j,
                                            worker |-> w, live |-> TRUE]]
    /\ UNCHANGED <<inserts, logs, calls, reported, acked>>

\* Renewing an expired lease revives it.
RenewExpired(j, a) ==
  /\ attempts[a].job = j
  /\ attempts[a].state \in ActiveStates
  /\ attempts' = [attempts EXCEPT ![a].state = "running", ![a].live = TRUE]
  /\ UNCHANGED <<jobs, inserts, logs, calls, reported, acked>>

\* The reply leaves before the last row is in.
AnswerAppendEarly(r) ==
  LET c == calls[r]
  IN /\ c.pc = "insert"
     /\ c.next >= c.last
     /\ acked' = [acked EXCEPT ![c.attempt] = @ \cup (c.first .. c.last)]
     /\ calls' = [calls EXCEPT ![r] = IdleCall]
     /\ UNCHANGED <<jobs, inserts, attempts, logs, reported>>

\* The job is finished before, and without, its attempt.
BeginCompleteJobFirst(r, j, a, status) ==
  /\ calls[r].pc = "idle"
  /\ attempts[a].job = j /\ attempts[a].state \in ActiveStates /\ attempts[a].live
  /\ reported[a] \in {None, status}
  /\ reported' = [reported EXCEPT ![a] = status]
  /\ calls' = [calls EXCEPT ![r] =
                 [pc |-> "job", job |-> j, attempt |-> a, first |-> 0,
                  last |-> 0, next |-> 0, status |-> status]]
  /\ UNCHANGED <<jobs, inserts, attempts, logs, acked>>

\* The attempt counts a partial result as a success, the job does not.
FinishAttemptPartialSucceeds(r) ==
  LET c == calls[r]
  IN /\ c.pc = "attempt"
     /\ attempts' = [attempts EXCEPT ![c.attempt].state =
                       IF c.status = "partial" THEN "succeeded" ELSE c.status]
     /\ calls' = [calls EXCEPT ![r].pc = "job"]
     /\ UNCHANGED <<jobs, inserts, logs, reported, acked>>

-----------------------------------------------------------------------------
(* The administrator's operations: one statement each.                     *)

\* INSERT INTO jobs: queued, cancel_requested at its default, created now.
InsertJob(j, c) ==
  /\ jobs[j].state = "absent"
  /\ jobs' = [jobs EXCEPT ![j] = [state |-> "queued", cancelRequested |-> FALSE,
                                  config |-> c, createdAt |-> inserts + 1]]
  /\ inserts' = inserts + 1
  /\ UNCHANGED <<attempts, logs, calls, reported, acked>>

Create(c) == \E j \in Jobs : InsertJob(j, c)

\* A retry is accepted whatever state the parent is in.
Retry(parent) ==
  /\ jobs[parent].state # "absent"
  /\ \E j \in Jobs : InsertJob(j, jobs[parent].config)

\* A queued job is cancelled on the spot; any other only gets the flag.
Cancel(j) ==
  /\ jobs[j].state # "absent"
  /\ jobs' = [jobs EXCEPT
                ![j].cancelRequested = TRUE,
                ![j].state = IF @ = "queued" THEN "cancelled" ELSE @]
  /\ UNCHANGED <<inserts, attempts, logs, calls, reported, acked>>

-----------------------------------------------------------------------------
(* The worker's operations.                                                *)

Claimable(w) ==
  {j \in Jobs : /\ jobs[j].state = "queued"
                /\ ~jobs[j].cancelRequested
                /\ <<jobs[j].config, w>> \in CanRun}

\* The three CTEs of claim are one statement: row lock, UPDATE and INSERT.
Claim(w) ==
  \E j \in Oldest(Claimable(w)), a \in Attempts :
    /\ attempts[a].state = "absent"
    /\ jobs' = [jobs EXCEPT ![j].state = "leased"]
    /\ attempts' = [attempts EXCEPT ![a] = [state |-> "leased", job |-> j,
                                            worker |-> w, live |-> TRUE]]
    /\ UNCHANGED <<inserts, logs, calls, reported, acked>>

\* findActiveAttempt, and the WHERE clause of renew.
ActiveAttempt(j, a) ==
  /\ attempts[a].job = j
  /\ attempts[a].state \in ActiveStates
  /\ attempts[a].live

\* One UPDATE; the job's own state is not touched and stays 'leased'.
Renew(j, a) ==
  /\ ActiveAttempt(j, a)
  /\ attempts' = [attempts EXCEPT ![a].state = "running", ![a].live = TRUE]
  /\ UNCHANGED <<jobs, inserts, logs, calls, reported, acked>>

\* What cancellationState answers.  Its two reads are of values that only
\* ever go one way, so the answer is the one an atomic read would give.
CancellationState(j, a) == ActiveAttempt(j, a) => jobs[j].cancelRequested

\* appendUpdates: findActiveAttempt, then the inserts one by one.
BeginAppend(r, j, a, first, last) ==
  /\ calls[r].pc = "idle"
  /\ ActiveAttempt(j, a)
  /\ first <= last
  /\ calls' = [calls EXCEPT ![r] =
                 [pc |-> "insert", job |-> j, attempt |-> a, first |-> first,
                  last |-> last, next |-> first, status |-> None]]
  /\ UNCHANGED <<jobs, inserts, attempts, logs, reported, acked>>

\* ON CONFLICT (attempt_id, sequence) DO NOTHING.
InsertLog(r) ==
  LET c == calls[r]
      key(row) == row.attempt = c.attempt /\ row.sequence = c.next
  IN /\ c.pc = "insert"
     /\ c.next <= c.last
     /\ logs' = IF \E row \in logs : key(row) THEN logs
                ELSE logs \cup {[attempt |-> c.attempt, sequence |-> c.next,
                                 job |-> c.job]}
     /\ calls' = [calls EXCEPT ![r].next = c.next + 1]
     /\ UNCHANGED <<jobs, inserts, attempts, reported, acked>>

\* The reply: firstSequence + updates.length - 1 and everything below it.
AnswerAppend(r) ==
  LET c == calls[r]
  IN /\ c.pc = "insert"
     /\ c.next > c.last
     /\ acked' = [acked EXCEPT ![c.attempt] = @ \cup (c.first .. c.last)]
     /\ calls' = [calls EXCEPT ![r] = IdleCall]
     /\ UNCHANGED <<jobs, inserts, attempts, logs, reported>>

\* complete: findActiveAttempt, then one UPDATE per table.  The holder of a
\* lease reports one status; a duplicated request repeats it.
BeginComplete(r, j, a, status) ==
  /\ calls[r].pc = "idle"
  /\ ActiveAttempt(j, a)
  /\ reported[a] \in {None, status}
  /\ reported' = [reported EXCEPT ![a] = status]
  /\ calls' = [calls EXCEPT ![r] =
                 [pc |-> "attempt", job |-> j, attempt |-> a, first |-> 0,
                  last |-> 0, next |-> 0, status |-> status]]
  /\ UNCHANGED <<jobs, inserts, attempts, logs, acked>>

\* UPDATE job_attempts ... WHERE id = attempt.id: nothing is checked again.
FinishAttempt(r) ==
  LET c == calls[r]
  IN /\ c.pc = "attempt"
     /\ attempts' = [attempts EXCEPT ![c.attempt].state = FinalState(c.status)]
     /\ calls' = [calls EXCEPT ![r].pc = "job"]
     /\ UNCHANGED <<jobs, inserts, logs, reported, acked>>

\* UPDATE jobs ... WHERE id = jobId.
FinishJob(r) ==
  LET c == calls[r]
  IN /\ c.pc = "job"
     /\ jobs' = [jobs EXCEPT ![c.job].state = FinalState(c.status)]
     /\ calls' = [calls EXCEPT ![r] = IdleCall]
     /\ UNCHANGED <<inserts, attempts, logs, reported, acked>>

\* The handler dies between two statements: a function timeout, a lost
\* database connection, a redeployment.
Drop(r) ==
  /\ calls[r].pc # "idle"
  /\ calls' = [calls EXCEPT ![r] = IdleCall]
  /\ UNCHANGED <<jobs, inserts, attempts, logs, reported, acked>>

\* now() passes lease_expires_at.
Expire(a) ==
  /\ attempts[a].live
  /\ attempts' = [attempts EXCEPT ![a].live = FALSE]
  /\ UNCHANGED <<jobs, inserts, logs, calls, reported, acked>>

-----------------------------------------------------------------------------

Handler(r) ==
  \/ InsertLog(r)
  \/ AnswerAppend(r)
  \/ FinishAttempt(r)
  \/ FinishJob(r)

Next ==
  \/ \E c \in Configs : Create(c)
  \/ \E j \in Jobs : Retry(j) \/ Cancel(j)
  \/ \E w \in Workers : Claim(w)
  \/ \E j \in Jobs, a \in Attempts : Renew(j, a)
  \/ \E r \in Requests, j \in Jobs, a \in Attempts, first, last \in Sequences :
       BeginAppend(r, j, a, first, last)
  \/ \E r \in Requests, j \in Jobs, a \in Attempts, s \in Reports :
       BeginComplete(r, j, a, s)
  \/ \E r \in Requests : Handler(r) \/ Drop(r)
  \/ \E a \in Attempts : Expire(a)

Spec == Init /\ [][Next]_vars

\* Workers keep polling, a handler that is not killed runs on, time passes.
Fairness ==
  /\ \A w \in Workers : WF_vars(Claim(w))
  /\ \A r \in Requests : WF_vars(Handler(r))
  /\ \A a \in Attempts : WF_vars(Expire(a))

FairSpec == Spec /\ Fairness

-----------------------------------------------------------------------------
(* Properties.                                                             *)

\* The lease is exclusive for good: a job never has two attempts, so two
\* workers never run it, even after the first lease lapsed (claim).
OneAttemptPerJob ==
  \A a, b \in Attempts :
    attempts[a].job # None /\ attempts[a].job = attempts[b].job => a = b

\* While an attempt is open its job still reads 'leased': complete closes
\* the attempt before the job, so a crash between never leaves a finished
\* job whose worker could still renew and write.
OpenAttemptOfLeasedJob ==
  \A a \in Attempts :
    attempts[a].state \in ActiveStates => jobs[attempts[a].job].state = "leased"

\* A finished job that ever ran agrees with its attempt, whatever the
\* duplicated or interleaved complete handlers did.
FinishedJobAgrees ==
  \A a \in Attempts :
    (attempts[a].job # None /\ jobs[attempts[a].job].state \in FinalStates)
      => attempts[a].state = jobs[attempts[a].job].state

\* No job waits for ever by construction: claim skips rows with
\* cancel_requested, so a queued row must never carry the flag.
QueuedIsClaimable ==
  \A j \in Jobs : jobs[j].state = "queued" => ~jobs[j].cancelRequested

\* Whatever the worker was told is stored is stored: it deletes its own
\* copy of an event on the strength of this answer (Outbox.acknowledge).
AckedAreStored ==
  \A a \in Attempts : \A n \in acked[a] :
    \E row \in logs : row.attempt = a /\ row.sequence = n

\* A log row names the job of its attempt: the log page of a job never
\* shows what a handler holding another job's lease wrote.
LogsOfOwnJob == \A row \in logs : attempts[row.attempt].job = row.job

\* A lease once lost, by time or by completion, is lost for good: renew
\* never revives it, which is what a worker told "not accepted" relies on.
LostLeaseStaysLost ==
  [][\A a \in Attempts, j \in Jobs :
       attempts[a].job = j /\ ~ActiveAttempt(j, a) => ~ActiveAttempt(j, a)']_vars

\* The control plane keeps the promise of JobLifecycle.
Lifecycle == INSTANCE JobLifecycle WITH
  Outcomes <- FinalStates,
  phase <- [j \in Jobs |-> jobs[j].state],
  cancelAsked <- {j \in Jobs : jobs[j].cancelRequested},
  ranBy <- [j \in Jobs |-> {w \in Workers :
              \E a \in Attempts : attempts[a].job = j /\ attempts[a].worker = w}]

ImplementsLifecycle == Lifecycle!Spec

-----------------------------------------------------------------------------
(* The inductive invariant behind the properties above.                    *)

\* An attempt row is written once, for a job that has left the queue.
AttemptsOfClaimedJobs ==
  \A a \in Attempts :
    IF attempts[a].state = "absent"
    THEN attempts[a].job = None /\ ~attempts[a].live
    ELSE /\ attempts[a].job \in Jobs
         /\ attempts[a].worker \in Workers
         /\ jobs[attempts[a].job].state \notin {"absent", "queued"}

\* A row that was not inserted yet carries no flag.
AbsentJobsUnmarked ==
  \A j \in Jobs : jobs[j].state = "absent" => ~jobs[j].cancelRequested

\* A finished attempt carries the status its worker reported.
FinishedAsReported ==
  \A a \in Attempts :
    attempts[a].state \in FinalStates =>
      reported[a] # None /\ attempts[a].state = FinalState(reported[a])

\* What a handler in flight still knows when its next statement runs.
CallsKeepTheirLease ==
  \A r \in Requests :
    LET c == calls[r] IN
    /\ c.pc # "idle" => attempts[c.attempt].job = c.job
    /\ c.pc \in {"attempt", "job"} => reported[c.attempt] = c.status
    /\ c.pc = "job" => attempts[c.attempt].state = FinalState(c.status)

\* An append handler at `next` has stored everything before it.
BatchStoredSoFar ==
  \A r \in Requests :
    LET c == calls[r] IN
    c.pc = "insert" =>
      \A n \in c.first .. (c.next - 1) :
        \E row \in logs : row.attempt = c.attempt /\ row.sequence = n

IInv ==
  /\ TypeOK
  /\ OneAttemptPerJob
  /\ OpenAttemptOfLeasedJob
  /\ FinishedJobAgrees
  /\ QueuedIsClaimable
  /\ AckedAreStored
  /\ LogsOfOwnJob
  /\ AbsentJobsUnmarked
  /\ AttemptsOfClaimedJobs
  /\ FinishedAsReported
  /\ CallsKeepTheirLease
  /\ BatchStoredSoFar

-----------------------------------------------------------------------------
(* What the documents say and the code does not do: each is refuted by a   *)
(* run of its own.                                                         *)

\* "Completion transitions attempt and job in one transaction"
\* (docs/superpowers/plans/2026-06-26-web-neon-implementation.md:347).
AttemptAndJobFinishTogether ==
  \A a \in Attempts :
    attempts[a].state \in FinalStates
      => jobs[attempts[a].job].state \in FinalStates

\* "Expired attempts become stale and jobs retryable" (the same line): no
\* statement of the code ever moves an attempt on because its time is up.
ExpiredAttemptIsClosed ==
  \A a \in Attempts :
    (attempts[a].state \in ActiveStates /\ ~attempts[a].live)
      ~> attempts[a].state \notin ActiveStates
=============================================================================
