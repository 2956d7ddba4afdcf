---------------------------- MODULE WorkerRunner ----------------------------
(***************************************************************************)
(* One local worker against the control plane: worker/runner.py over       *)
(* LeaseStore (the server's tables and handlers) and DurableQueue (the     *)
(* outbox, which the Outbox module implements).                            *)
(*                                                                         *)
(* Every call of worker/client.py is one step: it is answered, or it       *)
(* raises because the request or the response was lost.  appendUpdates and *)
(* complete are handlers of several statements, so for these the worker    *)
(* waits, and may give up while the handler runs on.  The client retries   *)
(* nothing.  Inside the pipeline an exception makes the result FAILED;     *)
(* after it the exception leaves run_forever and the process exits.        *)
(***************************************************************************)
EXTENDS LeaseStore

CONSTANTS
  Self,        \* the worker modelled
  Unusable,    \* configurations the server accepts and the worker raises on
  BatchSize,   \* pending_batch's max_records
  Faults       \* what goes wrong: "calls" fail, the "process" dies, a "lease" lapses

ASSUME SelfAssumption == Self \in Workers
ASSUME UnusableAssumption == Unusable \subseteq Configs
ASSUME BatchAssumption == BatchSize \in Nat \ {0}
ASSUME ResultAssumption == {"failed", "cancelled"} \subseteq Reports
ASSUME FaultsAssumption == Faults \subseteq {"calls", "process", "lease"}

VARIABLES
  last, pending,   \* the outbox
  owner,           \* per sequence number, the attempt that emitted the event
  pc,              \* where run_forever is
  run              \* the locals of _run_claimed_job

queue == <<last, pending, owner>>
runnerVars == <<vars, queue, pc, run>>

Queue == INSTANCE DurableQueue

\* "work" is the pipeline between two of its callbacks.
Places == {"down", "idle", "work", "flush", "sent", "renew", "refresh",
           "complete", "completing"}

\* _LeaseState, the result once the pipeline is over, whether the callback
\* under way is should_cancel, whether it has answered True, and the handler
\* the worker waits for.
NoRun == [job |-> None, attempt |-> None, lost |-> FALSE, cancel |-> FALSE,
          result |-> None, probing |-> FALSE, stopping |-> FALSE, request |-> None]

RunnerTypeOK ==
  /\ TypeOK
  /\ last \in 0..MaxSequence
  /\ pending \subseteq 1..last
  /\ owner \in [1..MaxSequence -> Attempts \cup {None}]
  /\ pc \in Places
  /\ run \in [job: Jobs \cup {None}, attempt: Attempts \cup {None},
              lost: BOOLEAN, cancel: BOOLEAN, result: Reports \cup {None},
              probing: BOOLEAN, stopping: BOOLEAN, request: Requests \cup {None}]

RunnerInit ==
  /\ Init
  /\ Queue!Init
  /\ owner = [n \in 1..MaxSequence |-> None]
  /\ pc = "idle"
  /\ run = NoRun

-----------------------------------------------------------------------------
(* Helpers.                                                                *)

Holds == ActiveAttempt(run.job, run.attempt)

Batch == {n \in pending : Cardinality({k \in pending : k < n}) < BatchSize}
Earliest(S) == CHOOSE n \in S : \A k \in S : n <= k
Latest(S) == CHOOSE n \in S : \A k \in S : n >= k

Logged(a, n) == \E row \in logs : row.attempt = a /\ row.sequence = n

Leave == pc' = "idle" /\ run' = NoRun
Exit == pc' = "down" /\ run' = NoRun

\* A mistake: a failed call is taken for an empty answer.
RaiseSwallowed ==
  IF run.result = None THEN pc' = "flush" /\ run' = [run EXCEPT !.result = "failed", !.request = None]
  ELSE pc' = "complete" /\ run' = [run EXCEPT !.request = None]

\* An exception: caught around the pipeline only.
Raise ==
  IF run.result = None
  THEN pc' = "flush" /\ run' = [run EXCEPT !.result = "failed", !.request = None]
  ELSE Exit

-----------------------------------------------------------------------------
(* run_once: claim, and what may go wrong before the pipeline starts.      *)

\* The row that claim turned from absent to leased.
Granted(a) == attempts[a].state = "absent" /\ attempts'[a].state = "leased"

ClaimJob ==
  /\ pc = "idle"
  /\ Claim(Self)
  /\ \E a \in Attempts :
       /\ Granted(a)
       /\ jobs[attempts'[a].job].config \notin Unusable
       /\ run' = [NoRun EXCEPT !.job = attempts'[a].job, !.attempt = a]
  /\ pc' = "work"
  /\ UNCHANGED queue

\* The response is lost, or _to_translation_job raises outside the try.
ClaimWasted ==
  /\ pc = "idle"
  /\ Claim(Self)
  /\ \E a \in Attempts :
       Granted(a) /\ ("calls" \in Faults \/ jobs[attempts'[a].job].config \in Unusable)
  /\ Exit
  /\ UNCHANGED queue

-----------------------------------------------------------------------------
(* The pipeline's callbacks.  With the lease lost emit does nothing and    *)
(* should_cancel answers True at once.                                     *)

Emit ==
  /\ pc = "work"
  /\ ~run.lost
  /\ last < MaxSequence
  /\ Queue!Put
  /\ owner' = [owner EXCEPT ![last + 1] = run.attempt]
  /\ pc' = "flush"
  /\ run' = [run EXCEPT !.probing = FALSE]
  /\ UNCHANGED vars

Probe ==
  /\ pc = "work"
  /\ ~run.stopping
  /\ IF run.lost
     THEN pc' = "work" /\ run' = [run EXCEPT !.stopping = TRUE]
     ELSE pc' = "renew" /\ run' = [run EXCEPT !.probing = TRUE]
  /\ UNCHANGED <<vars, queue>>

\* A mistake: a run that was told to stop is over without a report.
ReturnQuietly ==
  /\ pc = "work"
  /\ \E status \in Reports :
       /\ (status = "cancelled") = run.stopping
       /\ IF run.lost \/ run.stopping
          THEN Leave
          ELSE pc' = "flush" /\ run' = [run EXCEPT !.result = status]
  /\ UNCHANGED <<vars, queue>>

\* Told to stop, the pipeline returns CANCELLED; else any other status.
Return ==
  /\ pc = "work"
  /\ \E status \in Reports :
       /\ (status = "cancelled") = run.stopping
       /\ IF run.lost
          THEN Leave
          ELSE pc' = "flush" /\ run' = [run EXCEPT !.result = status]
  /\ UNCHANGED <<vars, queue>>

-----------------------------------------------------------------------------
(* _flush_outbox.                                                          *)

\* A mistake: the batch is acknowledged when it is sent.
SendAndForget ==
  /\ pc = "flush"
  /\ pending # {}
  /\ \E r \in Requests :
       /\ BeginAppend(r, run.job, run.attempt, Earliest(Batch), Latest(Batch))
       /\ run' = [run EXCEPT !.request = r]
       /\ Queue!Remove(Latest(Batch))
  /\ pc' = "sent"
  /\ UNCHANGED owner

Send ==
  /\ pc = "flush"
  /\ pending # {}
  /\ \E r \in Requests :
       /\ BeginAppend(r, run.job, run.attempt, Earliest(Batch), Latest(Batch))
       /\ run' = [run EXCEPT !.request = r]
  /\ pc' = "sent"
  /\ UNCHANGED queue

\* 409: findActiveAttempt finds nothing.
SendRefused ==
  /\ pc = "flush"
  /\ pending # {}
  /\ ~Holds
  /\ Raise
  /\ UNCHANGED <<vars, queue>>

\* A mistake: the answer is taken for the last sequence not yet stored.
AcknowledgedLess ==
  /\ pc = "sent"
  /\ AnswerAppend(run.request)
  /\ pending' = {n \in pending : n >= calls[run.request].last}
  /\ pc' = "flush"
  /\ run' = [run EXCEPT !.request = None]
  /\ UNCHANGED <<last, owner>>

Acknowledged ==
  /\ pc = "sent"
  /\ AnswerAppend(run.request)
  /\ Queue!Remove(calls[run.request].last)
  /\ pc' = "flush"
  /\ run' = [run EXCEPT !.request = None]
  /\ UNCHANGED owner

\* A mistake: one batch per flush.
FlushedOnce ==
  /\ pc = "flush"
  /\ (run.result # None \/ pending = {})
  /\ pc' = IF run.result = None THEN "renew" ELSE "refresh"
  /\ UNCHANGED <<vars, queue, run>>

\* The outbox is empty.  After emit the lease is renewed; the flush after
\* the pipeline goes on to the last look at the cancellation.
Flushed ==
  /\ pc = "flush"
  /\ pending = {}
  /\ pc' = IF run.result = None THEN "renew" ELSE "refresh"
  /\ UNCHANGED <<vars, queue, run>>

-----------------------------------------------------------------------------
(* _renew_if_due and _refresh_cancellation.                                *)

RenewNotDue ==
  /\ pc = "renew"
  /\ pc' = "refresh"
  /\ UNCHANGED <<vars, queue, run>>

Renewed ==
  /\ pc = "renew"
  /\ Renew(run.job, run.attempt)
  /\ pc' = "refresh"
  /\ UNCHANGED <<queue, run>>

\* A mistake: a renewal whose answer is lost counts as a lost lease.
RenewUnanswered ==
  /\ pc = "renew"
  /\ ~Holds \/ "calls" \in Faults
  /\ pc' = "work"
  /\ run' = [run EXCEPT !.lost = TRUE, !.cancel = TRUE,
                        !.stopping = @ \/ run.probing]
  /\ UNCHANGED <<vars, queue>>

\* Not accepted: the lease is lost, and a probe answers True.
RenewRefused ==
  /\ pc = "renew"
  /\ ~Holds
  /\ pc' = "work"
  /\ run' = [run EXCEPT !.lost = TRUE, !.cancel = TRUE,
                        !.stopping = @ \/ run.probing]
  /\ UNCHANGED <<vars, queue>>

\* A mistake: the result is not looked at again after the pipeline.
RefreshedInPipelineOnly ==
  /\ pc = "refresh"
  /\ LET cancelled == run.cancel \/ CancellationState(run.job, run.attempt) IN
     IF run.result = None
     THEN /\ pc' = "work"
          /\ run' = [run EXCEPT !.cancel = cancelled,
                                !.stopping = @ \/ (run.probing /\ cancelled)]
     ELSE pc' = "complete" /\ UNCHANGED run
  /\ UNCHANGED <<vars, queue>>

Refreshed ==
  /\ pc = "refresh"
  /\ LET cancelled == run.cancel \/ CancellationState(run.job, run.attempt) IN
     IF run.result = None
     THEN /\ pc' = "work"
          /\ run' = [run EXCEPT !.cancel = cancelled,
                                !.stopping = @ \/ (run.probing /\ cancelled)]
     ELSE /\ pc' = "complete"
          /\ run' = [run EXCEPT !.cancel = cancelled,
                                !.result = IF cancelled THEN "cancelled" ELSE @]
  /\ UNCHANGED <<vars, queue>>

-----------------------------------------------------------------------------
(* complete.                                                               *)

SendComplete ==
  /\ pc = "complete"
  /\ \E r \in Requests :
       /\ BeginComplete(r, run.job, run.attempt, run.result)
       /\ run' = [run EXCEPT !.request = r]
  /\ pc' = "completing"
  /\ UNCHANGED queue

CompleteRefused ==
  /\ pc = "complete"
  /\ ~Holds
  /\ Raise
  /\ UNCHANGED <<vars, queue>>

\* The answer repeats last_sequence, and everything up to it is dropped.
Completed ==
  /\ pc = "completing"
  /\ FinishJob(run.request)
  /\ pending' = {n \in pending : n > last}
  /\ Leave
  /\ UNCHANGED <<last, owner>>

-----------------------------------------------------------------------------
(* Faults: a request is lost, a response is lost or late, the process dies *)
(* and is started again.                                                   *)

CallLost ==
  /\ "calls" \in Faults
  /\ pc \in {"renew", "refresh", "complete"} \/ (pc = "flush" /\ pending # {})
  /\ Raise
  /\ UNCHANGED <<vars, queue>>

RenewAnswerLost ==
  /\ "calls" \in Faults
  /\ pc = "renew"
  /\ Renew(run.job, run.attempt)
  /\ Raise
  /\ UNCHANGED queue

TimeOut ==
  /\ "calls" \in Faults
  /\ pc \in {"sent", "completing"}
  /\ Raise
  /\ UNCHANGED <<vars, queue>>

Crash ==
  /\ "process" \in Faults
  /\ pc # "down"
  /\ Exit
  /\ UNCHANGED <<vars, queue>>

Restart ==
  /\ pc = "down"
  /\ pc' = "idle"
  /\ UNCHANGED <<vars, queue, run>>

Lapse ==
  /\ "lease" \in Faults
  /\ \E a \in Attempts : Expire(a)
  /\ UNCHANGED <<queue, pc, run>>

Lose ==
  /\ "calls" \in Faults
  /\ \E r \in Requests : Drop(r)
  /\ UNCHANGED <<queue, pc, run>>

-----------------------------------------------------------------------------

Admin ==
  /\ \/ \E c \in Configs : Create(c)
     \/ \E j \in Jobs : Retry(j) \/ Cancel(j)
  /\ UNCHANGED <<queue, pc, run>>

\* The server's own statements; the last one of a handler the worker waits
\* for is Acknowledged or Completed.
Serve(r) ==
  /\ \/ InsertLog(r)
     \/ FinishAttempt(r)
     \/ r # run.request /\ (AnswerAppend(r) \/ FinishJob(r))
  /\ UNCHANGED <<queue, pc, run>>

WorkerCall ==
  \/ Send \/ SendRefused \/ Acknowledged \/ Flushed
  \/ RenewNotDue \/ Renewed \/ RenewRefused \/ Refreshed
  \/ SendComplete \/ CompleteRefused \/ Completed

Fault == CallLost \/ RenewAnswerLost \/ TimeOut \/ Crash \/ Lapse \/ Lose

RunnerNext ==
  \/ ClaimJob \/ ClaimWasted
  \/ Emit \/ Probe \/ Return
  \/ WorkerCall
  \/ Fault
  \/ Restart
  \/ Admin
  \/ \E r \in Requests : Serve(r)

RunnerSpec == RunnerInit /\ [][RunnerNext]_runnerVars

\* The worker polls, its calls are answered or fail, and the pipeline ends
\* (its loops over files and languages are finite).  A process that ended is
\* started again by its operator or by nobody.
RunnerFairness ==
  /\ WF_runnerVars(ClaimJob \/ ClaimWasted)
  /\ SF_runnerVars(Return)
  /\ WF_runnerVars(WorkerCall)
  /\ \A r \in Requests : WF_runnerVars(Serve(r))

FairRunnerSpec == RunnerSpec /\ RunnerFairness

\* The same with an operator who always starts it again.
SupervisedRunnerSpec == FairRunnerSpec /\ WF_runnerVars(Restart)

-----------------------------------------------------------------------------
(* Properties.                                                             *)

\* A worker gives a job up only when the server has: `lost` comes from the
\* answer to a renewal, and a lease once gone never comes back.
LostIsLost == run.lost => ~Holds

\* Every event a worker ever emitted is in its outbox or in a log, through
\* lost calls, timeouts with the handler still running, and crashes.
NoEventLost ==
  \A n \in 1..last : n \in pending \/ \E a \in Attempts : Logged(a, n)

\* When an attempt reports its result, the log of that attempt already has
\* all its events: the last flush is complete before complete is sent.
ReportedAfterItsEvents ==
  \A a \in Attempts : reported[a] # None =>
    \A n \in 1..last : owner[n] = a => Logged(a, n)

\* A cancellation the server recorded before the worker's last look at it is
\* honoured, however late it came and whatever failed: no run goes on to
\* complete with another result, and what it goes on with is reported.
CancelledInTime ==
  [][/\ pc # "complete" /\ pc' = "complete" /\ jobs[run.job].cancelRequested
          => run'.result = "cancelled"
     /\ \A a \in Attempts : reported'[a] # reported[a] =>
          pc = "complete" /\ a = run.attempt /\ reported'[a] = run.result]_runnerVars

\* The log of an attempt is written in the order of the events, at its end
\* and without gaps, whichever handlers run late or twice, and is complete
\* and closed when the result is reported: what the page that asks for the
\* rows after the last one it has seen relies on.
Open == IF pc \in {"down", "idle"} THEN {} ELSE {run.attempt}

Log == INSTANCE ProgressLog WITH
  emitted <- last,
  by <- owner,
  open <- Open,
  shown <- {<<row.attempt, row.sequence>> : row \in logs},
  closed <- {a \in Attempts : reported[a] # None}

ImplementsLog == Log!Spec

\* What ClaimedIsFinished rests on: without faults a job that was handed out
\* with a usable configuration is in the hands of its worker, which has the
\* lease or has reported, waits only for a handler that is at work on this
\* job, and leaves no other handler behind.
NothingAbandoned ==
  Faults = {} =>
    /\ \A j \in Jobs :
         jobs[j].state = "leased" /\ jobs[j].config \notin Unusable => run.job = j
    /\ Open # {} /\ pc # "completing" => Holds
    /\ \A r \in Requests :
         calls[r].pc # "idle" => pc \in {"sent", "completing"} /\ r = run.request
    /\ pc = "sent" => calls[run.request].pc = "insert"
    /\ pc = "completing" => /\ calls[run.request].pc \in {"attempt", "job"}
                            /\ calls[run.request].job = run.job

\* Without faults every job handed out whose configuration the worker can use
\* is finished.
ClaimedIsFinished ==
  \A j \in Jobs :
    (jobs[j].state = "leased" /\ jobs[j].config \notin Unusable)
      ~> jobs[j].state \in FinalStates

\* No head-of-line blocking: without faults a queued job that the worker can
\* run is claimed or cancelled, however many older jobs it cannot match.  The
\* one thing that keeps it waiting is a job that was matched and could not be
\* used: that one ends the process, and nothing else does.
QueuedIsServed ==
  \A j \in Jobs :
    (jobs[j].state = "queued" /\ <<jobs[j].config, Self>> \in CanRun)
      ~> \/ jobs[j].state # "queued"
         \/ /\ pc = "down"
            /\ \E k \in Jobs : jobs[k].state = "leased" /\ jobs[k].config \in Unusable

-----------------------------------------------------------------------------
(* The inductive invariant behind the properties above.                    *)

Running == pc \notin {"down", "idle"}

\* Between claim and the end of the run the worker has a row of its own.
RunHasItsAttempt ==
  IF Running
  THEN /\ run.attempt \in Attempts
       /\ run.job \in Jobs
       /\ attempts[run.attempt].job = run.job
  ELSE run = NoRun

\* The numbers in the outbox have no gap: a batch is its first number and
\* its length, which is all the request says of it.
QueueIsInterval == \E m \in 0..last : pending = (m + 1)..last

\* The handler the worker waits for is its own, unless it was dropped.
RequestIsItsOwn ==
  LET c == calls[run.request] IN
  /\ pc \in {"sent", "completing"} => run.request \in Requests
  /\ pc = "sent" =>
       /\ pending # {}
       /\ c.pc # "idle" =>
            /\ c.pc = "insert"
            /\ c.attempt = run.attempt
            /\ c.first = Earliest(Batch)
            /\ c.last = Latest(Batch)

\* After the last flush the outbox stays empty.
FlushedToTheEnd ==
  /\ run.result # None /\ pc \notin {"flush", "sent"} => pending = {}
  /\ pc \in {"complete", "completing"} => run.result # None

\* What the run emitted and no longer keeps is in the log of its attempt.
OwnEventsKept ==
  Running => \A n \in 1..last :
    owner[n] = run.attempt => n \in pending \/ Logged(run.attempt, n)

\* Only an attempt that was handed out emits and reports, and reporting is
\* the last thing its run does.
ReportEndsRun ==
  \A a \in Attempts :
    /\ attempts[a].job = None =>
         reported[a] = None /\ \A n \in 1..last : owner[n] # a
    /\ reported[a] # None /\ run.attempt = a => pc = "completing"

\* The first number that is not acknowledged.
Front == CHOOSE m \in 1..(last + 1) : pending = m..last

\* Between what is logged of an attempt and the number x none is missing.
Reaches(a, x) ==
  \A k, n \in Sequences :
    /\ Logged(a, k)
    /\ (k <= n /\ n < x) \/ (x <= n /\ n <= k)
    => Logged(a, n)

\* What an append handler still has to insert fits the end of its log, and
\* the handlers of one attempt fit each other: what one's batch begins
\* before another's was stored in between.
HandlersFit ==
  \A r \in Requests :
    LET c == calls[r] IN
    c.pc = "insert" =>
      /\ c.first <= c.next /\ c.last <= last
      /\ Reaches(c.attempt, c.first)
      /\ \A q \in Requests :
           calls[q].pc = "insert" /\ calls[q].attempt = c.attempt =>
             \A n \in c.first..(calls[q].first - 1) : Logged(c.attempt, n)
      /\ \A n \in c.first..c.last : owner[n] \in Open => owner[n] = c.attempt
      /\ c.attempt \in Open =>
           c.first <= Front /\ \A n \in c.first..(Front - 1) : Logged(c.attempt, n)
      /\ reported[c.attempt] # None => \A n \in c.first..c.last : Logged(c.attempt, n)

\* The log of the run in progress goes on where the outbox begins.
LogFits == HandlersFit /\ \A a \in Open : Reaches(a, Front)

RunnerInv ==
  /\ IInv
  /\ RunnerTypeOK
  /\ RunHasItsAttempt
  /\ QueueIsInterval
  /\ RequestIsItsOwn
  /\ FlushedToTheEnd
  /\ OwnEventsKept
  /\ ReportEndsRun
  /\ LostIsLost
  /\ NoEventLost
  /\ ReportedAfterItsEvents

-----------------------------------------------------------------------------
(* What the documents say and the code does not do.                        *)

\* "Web API failures do not lose local pipeline state; the worker retries
\* progress delivery and final completion" (docs/superpowers/specs/
\* 2026-06-26-deterministic-translation-web-worker-design.md:455): a result
\* the pipeline returned reaches the control plane when only calls fail, at
\* least if somebody always starts the worker again.
CompletionIsRetried ==
  \A j \in Jobs :
    (run.job = j /\ run.result # None) ~> jobs[j].state \in FinalStates
=============================================================================
