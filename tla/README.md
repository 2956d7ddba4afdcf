# Verification of the GitBook translation platform

This directory holds TLA+ models of the translation platform of this
repository, the TLC configurations that check them on small instances, and
TLAPS proofs of their main properties for every instance. Paths below are
relative to the repository (`web/...`, `src/gitbook_translator/...`,
`docs/...`).

1. [The system](#1-the-system)
2. [The modules](#2-the-modules)
3. [The runs](#3-the-runs)
4. [The proofs](#4-the-proofs)
5. [Where the code and its documents differ](#5-where-the-code-and-its-documents-differ)
6. [What is not modelled](#6-what-is-not-modelled)
7. [What could follow](#7-what-could-follow)

## 1. The system

An administrator submits translation jobs to a web control plane (Next.js
route handlers on Vercel, Neon Postgres over HTTP). Workers, one process on
somebody's machine each, poll the control plane, lease one job at a time, run
the translation pipeline locally and report progress and the result. The two
sides share nothing but the worker HTTP API.

```
 admin browser --HTTP--> admin routes --+                      +--> GitHub (fetch)
                                        |                      |
                       jobs, job_attempts, job_logs      pipeline --> provider (LLM)
                                        |                      |  --> output files
 worker process --HTTP--> worker routes +                 WorkerRunner
   WorkerRunner --append--> Outbox (two files) --flush--> worker routes
```

### Inventory

| component | source | state it keeps | operations |
| --- | --- | --- | --- |
| job table and leases | `web/lib/services/jobs.ts`, `leases.ts`, `web/migrations/0001_initial.sql` | tables `jobs`, `job_attempts`, `job_logs` | create, cancel, retry; claim, renew, appendUpdates, cancellationState, complete |
| worker outbox | `src/gitbook_translator/worker/outbox.py` | `outbox.jsonl`, `outbox.jsonl.state` | append, pending_batch, acknowledge, compact |
| worker runner | `src/gitbook_translator/worker/runner.py` | the lease under way (`_LeaseState`), worker id, last heartbeat | run_once, and the pipeline callbacks emit and should_cancel |
| worker HTTP client | `src/gitbook_translator/worker/client.py` | none | one HTTP request per call, 30 s time-out, no retry |
| command line | `src/gitbook_translator/cli.py` | none | translate, worker |
| translation pipeline | `src/gitbook_translator/pipeline.py` | the results and candidates of one run | fetch, load dictionaries, translate, verify, save |
| Markdown, verification, paths, config | `markdown.py`, `verification.py`, `paths.py`, `config.py` | none (pure) | segment and reconstruct; compare; resolve; validate |
| cache and storage | `cache.py`, `storage.py` | the cache file, output files | lookup, record_success, atomic_write_text |
| GitHub source and publisher | `github_client.py` | remote branch | fetch, publish |
| providers, dictionaries | `providers/`, `dictionaries.py` | none | translate, review; load |
| worker configuration | `worker/config.py`, `worker/models.py` | none after the start | load a TOML file, find the languages of each dictionary set, build capabilities |
| workers registry | `web/lib/services/workers.ts` | table `workers` | upsert by name, heartbeat by id |
| capability matching | `web/lib/services/capabilities.ts`, the WHERE of claim | none | is this worker able to run this job |
| admin authentication | `web/lib/auth/*` | tables `admin_sessions`, `admin_login_attempts` | log in, log out, throttle, CSRF |
| in-memory stores | second halves of the three services | maps in one process | the same operations, for tests |
| migrations | `web/scripts/migrate.ts` | table `schema_migrations` | apply each file once |
| pages, progress redaction, schemas | `web/app`, `web/components`, `web/lib/schemas`, `progress.ts` | none | render, redact, parse |

### Interactions and what is hard about them

* **Every SQL template is one HTTP request and one transaction.** `claim` is a
  single statement with three CTEs and a row lock; `renew` and the
  administrator's operations are single statements; `appendUpdates` is a
  SELECT followed by one INSERT per event, and `complete` a SELECT and two
  UPDATEs. Other handlers run between those statements, and a function
  time-out, a lost connection or a redeployment ends a handler between them.
* **Time enters only as `lease_expires_at > now()`.** Nothing runs when a
  lease lapses; the comparison just starts to fail.
* **The worker's calls may fail in three ways**: the request is lost, the
  answer is lost, or the answer is late and the handler is still at work when
  the worker has gone on. Nothing is retried inside the client.
* **One outbox serves every job of a worker**, numbers its events across jobs
  and restarts, and is flushed under whatever lease is current.
* **An exception in a callback** runs through the pipeline, makes the result
  FAILED, and is followed by one more flush with the same server and lease;
  an exception outside the pipeline ends the process.
* **The worker renews only from callbacks**, so a long provider call lets the
  lease lapse under a worker that believes it holds it.
* **Files are read at different times**: the TOML file, the environment and the
  names of the dictionaries when a worker starts, the dictionaries themselves
  in each run, the cache file when a cache is made and never again.
* **The same rules are written several times**, in SQL, in TypeScript and in
  Python, and a job passes through all of them.

What makes each component correct:

* *Job table and leases*: a job runs at most once and by one worker; a job and
  its attempt never disagree; a finished job stays finished; a lost lease is
  lost for good; whatever is acknowledged is stored; a queued job is always
  claimable, and served.
* *Outbox*: an event is kept until the control plane has it, numbers are never
  used twice, and two files with crashes between their writes look like one
  queue.
* *Runner*: no event disappears whatever fails; a result never overtakes the
  events of its attempt; the worker stops only when the server really took
  the lease away; a cancellation seen in time is honoured; without faults
  every claimed job ends.
* *Pipeline*: every file and language is accounted for once; one failure does
  not change what becomes of another item; the status tells the truth; every
  run ends.
* *Cache*: no entry vouches for an output that was not saved; what a process
  just wrote is never taken for another version; entries are lost only between
  processes that run together.
* *Markdown*: every character of the source is in exactly one part; markup is
  never sent, all other text is; an incomplete answer is never accepted.
* *Configuration, matching and registry*: matching is enough for a run to have
  what it needs; the matchers agree; the registry shows what a worker can do.

## 2. The modules

| module | what it is |
| --- | --- |
| `JobLifecycle` | abstract: a job waits, is handed out at most once, ends once |
| `LeaseStore` | the control plane, statement by statement; implements `JobLifecycle` |
| `DurableQueue` | abstract: a numbered queue that survives restarts |
| `Outbox` | the worker's two files, write by write; implements `DurableQueue` |
| `ProgressLog` | abstract: the log of a run, as the one who reads it page by page sees it |
| `WorkerRunner` | one worker against the control plane: `LeaseStore` extended, with a `DurableQueue` for the outbox; implements `ProgressLog` |
| `Pipeline` | one run of the translation pipeline, stage by stage |
| `TranslationCache` | several processes with a fingerprint cache over one file |
| `Markdown` | one file in one language: cut up, answered for, put together, verified |
| `Contract` | configurations, capabilities, registry, and what becomes of a claimed configuration |
| `MCLeaseStore`, `MCOutbox`, `MCWorkerRunner`, `MCPipeline`, `MCTranslationCache`, `MCMarkdown`, `MCContract` | small instances for TLC |
| `LeaseStoreProofs`, `OutboxProofs`, `WorkerRunnerProofs`, `WorkerLogProofs`, `PipelineProofs`, `TranslationCacheProofs`, `MarkdownProofs`, `ContractProofs` | the theorems |

How they fit together: `WorkerRunner` composes `LeaseStore` and `DurableQueue`
and takes the pipeline as its callbacks; `ProgressLog` is what the two sides
promise together, with no queue, batch or handler left to see; `Pipeline`
takes what happens to one file in one language as a fate, which is what
`Markdown` details; `TranslationCache` details the saving; `Contract` details which configurations
`LeaseStore`'s `CanRun` relates to a worker and which are `WorkerRunner`'s
`Unusable`.

### LeaseStore

`jobs`, `attempts` and `logs` are the three tables; a row not inserted yet is
in state `"absent"`. `inserts` counts job insertions and is the clock behind
`created_at`. `live` is the truth of `lease_expires_at > now()` and `Expire`
the passing of time. `calls` holds the handlers of several statements that are
in flight: `BeginAppend`, `InsertLog` (once per event) and `AnswerAppend` are
`appendUpdates`; `BeginComplete`, `FinishAttempt` and `FinishJob` are
`complete`; `Drop` kills one between two statements. `reported` and `acked`
record what workers said and were told. `Create`, `Cancel` and `Retry` are the
administrator's statements, `Claim`, `Renew` and `CancellationState` the
worker's single ones.

Choices worth knowing:

* A lease token is random and its hash is in one attempt row, so a token and
  its attempt are one value.
* The capability clauses of claim's WHERE are the constant relation `CanRun`.
* `renew` sets the attempt to `running` but no statement ever writes
  `jobs.state = 'running'`, although the schema allows it: a job is `leased`
  until it is finished.
* `cancellationState` does two reads. Both values only ever go one way, so its
  answer is the one an atomic read would give at the later of the two, and it
  is an operator rather than two actions.
* The holder of a lease reports one status (`reported`); the runner does so,
  and `RunnerUsesServer` shows it for `WorkerRunner`.

Operators headed *a mistake* are variants no other definition uses: each is
one operation as a plausible bug would leave it, used to test that a property
notices.

### Outbox

A record is its sequence number; since `append` numbers upwards and writes at
the end, the order of the lines is the order of the numbers and the file is a
set. `_atomic_write_text` (temporary file, rename) is one step; `acknowledge`
is two (`Acknowledge` writes the state file, `Compact` the events), with a
crash possible between. `append` opens the file in place, so a full disk can
cut it short (`AppendCutShort`): with the whole line but its newline written,
`tail` is `"open"`; with less, `"garbage"`, after which `_records` raises and
every method with it. Power loss is not modelled: nothing is fsynced, so a
machine that loses power may also lose what was renamed.

`Send` is the request of one batch, `Answered` the answer of a control plane
that has stored all of it, and `SendFails` everything else that may come of
it, with any part of the batch stored, as `appendUpdates` inserts row by row.
`delivered` is what was stored while the worker waited; a handler that is
still at work afterwards can only add to it (`WorkerRunner` has those).

### WorkerRunner

`pc` is where `run_forever` is, `run` the locals of `_run_claimed_job`.
Between two callbacks the pipeline is at `"work"`; `Emit` and `Probe` are the
two callbacks it may make and `Return` its end. `emit` appends, then flushes
(`Send`, `Acknowledged`, until `Flushed`), renews if due and asks for the
cancellation; `should_cancel` does the last two. After the pipeline the runner
flushes, asks once more and completes. `Raise` is what an exception does: a
FAILED result inside the pipeline, the end of the process after it. A call
whose handler is a single statement is one step, answered or not (`Renewed`,
`RenewAnswerLost`, `CallLost`); for `appendUpdates` and `complete` the worker
waits (`"sent"`, `"completing"`) while `Serve` runs the handler, and may give
up (`TimeOut`) while the handler runs on. `Unusable` holds the configurations
the server hands out and the worker rejects with an exception before the
pipeline starts, which `ClaimWasted` takes to the end of the process. What
starts a process again (`Restart`) is outside this repository: it may happen,
and no property relies on it.

`ProgressLog` takes `owner` for `by`, the rows of all logs for `shown`, the
attempts that have reported for `closed`, and the attempt of the run for
`open`. `logs` in `jobs.ts` reads the rows after the last id it was asked
for; as a row is its attempt and its number here, what the page relies on is
that a row comes in only above all others of its attempt, right after the one
before it, and that none comes in after the report. A job has one attempt, so
the log of an attempt is the log of a job.

`NothingAbandoned` is the safety half of `ClaimedIsFinished`: while no fault
happens, nothing is in such a place that nobody would go on with it.

Registering and heartbeats touch only the `workers` table, which claiming does
not read; their failure ends the process, which is `Crash` at `"idle"`.

### Pipeline

What the outside world will do is fixed in the initial state and otherwise
arbitrary: `reachable`, the files that can be fetched, `readable`, the
languages whose dictionary loads, and `fate`, the stage at which the work on a
file and language goes wrong. This is how isolation becomes a property: what
happens to an item is compared with its own fate. A language is its place in
`job.languages`, because the list may hold a tag twice; `tag` maps places to
tags, `loaded` is the `dictionaries` mapping and `saved` holds the output
files, both keyed by tag as in the code.

`stage` follows the seven stages. `Validate` and `Fetch` (with
`GitHubSource.fetch`) come first; `LoadDictionary`, `Translate`, `Verify` and
`Save` each handle one item of their loop, `todo` is what the loop has yet to
reach, `passed` what the next loop is over; `Complete` aggregates the status.
The loops take items in any order, of which the code's is one. `Stop` is a
True from `should_cancel` at any place it is asked. `Escape` is an exception
from what stands outside every `try`, `FailMutely` one whose text is empty, so
that building the issue raises in turn (section 5). `resolve_output_path` is
part of `Escape` when it refuses and the injective `Output` when it does not.

`WorkerRunner` sees this module as `"work"`: `Stop` follows a probe that
answered True and is the only way to `"cancelled"`, which is the guard of its
`Return`; an exception is its `Raise`, or a FAILED `Return`; and
`PipelineEnds` is what its strong fairness of `Return` rests on.

### TranslationCache

`file` is the cache file, `output` what stands at each output path, named by
the fingerprint of its translation. An instance of the class is a process:
`Open` reads the file once, `SaveOutput` and `Record` are the two renames of
`save_output_and_record`, `Close` is a death at any point, between the renames
too, and `RecordFails` an exception while the file is written, after which
memory holds an entry the file does not. `Remove` deletes an output.
`made`, `author` and `alone` observe and guard nothing. Fingerprints share
keys and paths as the constants `KeyOf` and `PathOf` say; two branches with
the same output root share a path and not a key. `atomic_write_text` is the
only part the pipeline calls; nothing outside the tests calls the rest yet.

### Markdown

A source is the class of each character (text, newline, other whitespace) and
the set of intervals that the seven patterns match, which may overlap in any
way. `Merge` is a round of `_merge_intervals`, `Protect`
and `AppendText` a round of `parse_markdown`'s loop and its tail: `uncut` is
what the `for` has yet to reach, `Chunk` is `_append_text_part`, which cuts at
blank lines, `AppendPart` is `_append_single_text_part`, which moves the
whitespace around a paragraph out of what is sent. `Answer` is one item of the
response as `validate_segment_response` sees it, in any order and with any id,
one that no segment has (`Unknown`) and one it has seen before included;
`BadAnswer` is a response or an item of another form, and `EndOfAnswer` looks
for what is missing. What the provider says of a segment is left out, and so is
what `Verify` thinks of it: the verdict of `verify_translation` depends on the
words and is a free choice.
The lists `merged` and `parts` are sets, since both grow in the order of their
starts. `Chunk`, `Break` and `AppendText` describe what `re.split` returns
rather than how it scans; `OneWayToCut` says that the description fits one
next part and no more, so that the model cuts as the code does and a
segment's id depends on the source alone.

### Contract

A worker process goes through `phase`: `Start` is `run_worker` up to the loop,
with all that makes it end instead left out of `Loadable`; `Register` and
`Heartbeat` write the row of the worker's name; `Claim` takes a job that its
own `Capabilities` match; `Convert` is `_to_translation_job`, and `Refuse` the
exception that ends the process there; `LoadDictionaries` is the pipeline's
dictionary stage. `EditSettings` and `EditDisk` are the operator's. A string
is the set of rules it breaks: `SchemaFlaws`, `UrlFlaws`, `BranchFlaws` and
`ModelFlaws` are the rules of `jobV1Schema`, `normalize_repository_url`,
`validate_branch` and `WorkerJobConfig`, and what one side checks and the
other does not is the difference of the sets. A dictionary file is its
language tag and whether its name is in lower case. Leases are not repeated
here: a claimed job leaves `queue`, and is offered again only as a retry,
which is `Submit` of the same configuration.

## 3. The runs

| run | instance | checks | distinct states |
| --- | --- | --- | --- |
| `lease_safety` | 2 jobs, 2 attempts, 2 handlers, statuses succeeded and partial | exclusivity, agreement of the tables, logs, refinement of `JobLifecycle` | 287,751 |
| `outbox_faults` | 7 events, batches of 2, crashes and cut-short appends | survival, delivery, numbering, refinement of `DurableQueue` | 18,925 |
| `worker_faults` | 2 jobs, 3 events, batches of 2, 2 handlers, every fault | no event lost, results after events, no false `lost`, acknowledged is stored, cancellations honoured, refinement of `ProgressLog` | 964,502 |
| `worker_live` | 2 jobs, 3 configurations: runnable, matched but unusable, not matched; 3 events, no fault | nothing is abandoned, claimed is finished, queued is served | 63,289 |
| `pipeline` | 2 files, 2 languages with one tag or two, every combination of failures, one item with mute exceptions | accounting, isolation, status, termination | 566,944 |
| `cache` | 2 processes, 4 fingerprints over 2 keys and 2 paths | saved before recorded, own work is fresh, losses need company | 109,036 |
| `markdown` | 5 characters of 3 classes, every pair of matches and an empty one | parts add up, markup is not sent, segments are paragraphs, one way to cut, one answer each | 398,996 |
| `contract` | 2 processes of one name, 4 TOML files, 4 directories, 5 jobs, one edit | matchers agree, matching is enough, providers, dictionaries, registry | 769,216 |
| `lease_one_transaction`, `lease_expired_closed`, `worker_completion_lost`, `pipeline_mute` | 1 or 2 jobs, or the instance of `pipeline` | one documented statement each, violated: section 5 | |

Why the bounds are enough to be interesting:

* Two jobs with two attempts give every conflict of two claims, a retry beside
  its parent, and events of one job left in the outbox when the next is
  claimed. Two handlers give a resent batch running beside its first delivery
  and two completions at once.
* Three events in batches of two give a flush of more than one call and a
  batch of more than one row, so a batch can be half inserted. In
  `lease_safety` one sequence number is enough: the properties there relate
  rows of different attempts, and a batch in progress is what `worker_faults`
  is for.
* `worker_faults` uses the statuses failed and cancelled only: the runner
  treats every status but cancelled alike.
* Seven events in the outbox give three batches and a compaction of an empty,
  a partial and a whole file, before and after a restart.
* Two files and two languages give a failure beside, above and below another
  item in both loops, and a language listed twice. All 16,384 worlds are
  initial states.
* Two versions of one source, the same one moved to another root, and the same
  path written for another branch are the ways two fingerprints can share a
  key, a path, neither or both; two processes suffice for every lost entry.
* Five characters hold two paragraphs with a blank line between, or a word
  with whitespace on both sides of a match, and two matches overlap, nest,
  touch or stand apart in every way; the empty one is in the middle.
* One edit is enough for a process to run on what is no longer there, as the
  state before the edit is arbitrary. The four TOML files are one with two
  providers, one without an output root, one that the server refuses and one
  that does not start; the jobs are two that match differently, one that asks
  for a provider in a role it does not have, and one each with a rule only the
  worker or only the form has.
* Runs whose table of attempts fills up simply stop claiming. The attempts
  equal the jobs because an attempt row is never followed by another for the
  same job (`OneAttemptPerJob`, which is proved).

A run names an invariant by itself only where it says most; what else a module
states (`QueuedIsClaimable`, `LogsOfOwnJob`, `EntriesWereSaved` and the like)
is a conjunct of the inductive invariant `IInv`, `RunnerInv`, `PInv`,
`CacheInv`, `MInv` or `ContractInv` that its run checks.

Symmetry (jobs, attempts and handlers are interchangeable: nothing orders
them but `created_at`, a number) is used in `lease_safety` and `worker_faults`; in `cache` the processes and the
two versions, in `contract` the processes are interchangeable. These runs check
invariants, action properties and a refinement without fairness; symmetry is
used nowhere else. Deadlock is checked in every run but those of `Pipeline` and
`Markdown`, which are meant to stop (that they stop nowhere else is
`PipelineEnds` for the one; for the other, that there is always a next part
until the source is cut up is `OneWayToCut`, and what follows is a list of
items that ends), and of `Contract`, where every process may
end and the operator run out of edits: the administrator can always retry or
cancel, and the outbox and the cache can always be closed and opened.

### Fairness

`FairRunnerSpec`, used by `worker_live`:

* weak fairness of `ClaimJob \/ ClaimWasted`: `run_forever` polls for ever,
  and which of the two happens is not the worker's choice;
* weak fairness of the worker's calls and of each handler's statements: a call
  is answered or fails within its time-out, and a handler that is not killed
  runs to its end;
* strong fairness of `Return`: the pipeline's loops run over finite lists of
  files and languages, so between callbacks it comes to its end however often
  it makes one. Weak fairness would not do, as `Return` is disabled during
  every callback.

There is none of `Restart`: `cli.py` ends with exit status 1 on any exception,
and nothing in the repository starts a worker again. Without faults only one
thing ends it, a job that it matched and cannot set up (`ClaimWasted`), and
from then on nothing is claimed until somebody starts it; so `QueuedIsServed` promises that a queued job
the worker can run leaves the queue *or* such a job has taken the process down.
What it excludes is every other way to be passed over for ever, behind older
jobs that the worker does not match above all. `SupervisedRunnerSpec` adds weak
fairness of `Restart` and is used by the refutation `worker_completion_lost`
only, which is the stronger for it: even an operator who always starts the
worker again does not bring the completion back.

`FairPipelineSpec`: weak fairness of `Advance`, since every call the pipeline
makes (HTTP with a time-out, files, pure functions) returns or raises. `Stop`
and `Escape` have none.

There is no fairness on `Emit`, `Probe` or any fault. `FairSpec` of
`LeaseStore` asks for claims, handlers and the passing of time, and serves
only to make the refutation of `ExpiredAttemptIsClosed` meaningful: even if
all of those happen, an expired attempt stays as it is.

`ClaimedIsFinished` holds without faults, and of usable configurations, only,
and this is the code's doing: a
lost claim answer, an unusable configuration, a crash, a lapsed lease or a
failed completion each leave a job leased for good (section 5).

## 4. The proofs

All theorems hold for arbitrary finite or infinite sets of jobs, attempts,
workers, handlers, files, languages, cache instances and configurations, any
capability relation, any source length and set of matches, any bound on
sequence numbers and any batch size, under the named assumptions on the
constants (a bound is a natural number, a batch holds at least one record, `None` is nobody's id).

**LeaseStoreProofs.** `Invariance` proves `IInv`. The properties alone are not
inductive; what is added is what a handler may still rely on after it has
looked at the lease: its attempt still belongs to its job and still reports
its status (`CallsKeepTheirLease`), an attempt row was written for a job that
has left the queue (`AttemptsOfClaimedJobs`), a finished attempt carries the
reported status (`FinishedAsReported`), and everything below an append
handler's cursor is stored (`BatchStoredSoFar`). From these `FinishJob` can
only write the state its attempt already has. Corollaries: `ExclusiveLease`,
`FinishedAgreement`, `AckedLogged`, `OpenLeaseOpenJob`, `QueuedOffered`,
`LogsKeptApart`; the action property `LostLease`; and
`Implementation`, the refinement of `JobLifecycle`, where a second completion
is a stutter because the job already holds the same outcome.

**OutboxProofs.** The argument is that the pending numbers are an interval
(`PendingContiguous`): its end is `last_sequence`, a batch is an initial
segment, and the maximum of a batch is its end, which needs the cardinality
of an interval and no induction. `Invariance`, `Delivered`, `Survival`,
`Growth` and `Implementation` (the refinement of `DurableQueue`, torn lines
included) follow.

**WorkerRunnerProofs.** `RunnerUsesServer` shows that every step of the
composed system is a step of `LeaseStore` or leaves its tables alone, so all
of `LeaseStore`'s theorems hold of the composed system. `RunnerInvariance`
proves `RunnerInv`: again the pending numbers are an interval, the handler
waited for is about exactly the batch that is pending, and the run's own
events are pending or logged under its own attempt, until the last flush
empties the outbox. Corollaries: `EventsKept`, `EventsBeforeReport`,
`LostMeansLost`; and the action property `CancellationHonoured`: the last look
at the cancellation is the only way to the completion, and nothing but the
completion reports. `RunnerUsesQueue` is the other half of
`RunnerUsesServer`: the worker moves the outbox by the steps of
`DurableQueue` only, which are those that `Outbox` is proved to implement; and
`RunnerKeepsLifecycle` carries the refinement of `JobLifecycle` over to the
composed system. `NobodyAbandons` proves `NothingAbandoned` for `Faults = {}`;
it is inductive together with `RunnerInv`, and says more than the liveness
property needs at first sight: that no other handler is at work and that the
one waited for is about the run's own job are what a step of that handler, and
a claim, need.

**WorkerLogProofs.** `LogImplementation` is the refinement of `ProgressLog`:
`ClaimJob` is a `Start`, `Emit` an `Emit`, the insertion of a row a `Show`,
`SendComplete` a `Close`, and what ends a run or the process a `Leave`;
everything else is a stutter, a row that is inserted a second time included.
`Close` is allowed by `ReportedAfterItsEvents`. That a row is a `Show` is the
hard part, because several handlers of one attempt may be at work, one that the
worker gave up on among them, each with a batch of its own and at a different
place in it. `LogFits` is the invariant that makes it inductive, relative to
`RunnerInv`: every handler's batch begins no later than where the log of its
attempt ends, what one batch begins before another was stored in between, the
outbox of the run in progress begins where its log ends, and a handler of an
attempt that has reported has nothing left to insert. It is proved
(`LogFitsAlways`) and was checked by TLC on the instance of `worker_faults`;
it is not among the properties of that run, where it would cost a fifth of the
time and say nothing that `ImplementsLog` does not.

**PipelineProofs.** The results at any moment are determined by the world and
by which items the loops are through with. `PipelineInvariance` proves this as
`PInv` (`ResultsSoFar`: a result is there if and only if it is due), one lemma
per kind of step; at the end all items are through, so `Accounting`,
`Isolation` and `Honesty` speak of the world alone. Without the "only if" half
the bookkeeping would not be inductive: a failed item could still be a
candidate.

**TranslationCacheProofs.** `CacheInv` says of every instance what it may
still assume of the file: while it is `alone` its memory has all the file
has, an entry names a fingerprint of its own key that was saved, and what an
open instance wrote last at a path is still there. `SavedBeforeRecorded` and
`OwnWork` are its conjuncts, `LossTakesTwo` the action property.

**MarkdownProofs.** `MInv` says that the merged intervals are apart and cover
exactly the matches looked at, that the parts lie in a row from the beginning
of the source to `position`, and that no merged interval is cut by the
position. `NothingLostOrLeaked` and `SegmentsOfParagraphs` follow for every
length and every set of matches. `CuttingGoesOn` proves `OneWayToCut` from it:
the next interval, the longest break and the nearest break are the least or
greatest members of sets of positions, so each exists and is unique. For
`OneItemPerSegment` `MInv` keeps that, until something is refused, `answered`
is finite and has as many members as items were looked at: an item that is not
refused adds a member.

**ContractProofs.** `ContractInv` carries what a process knew when it started
to where it matters: a claimed configuration was matched by the capabilities
that the process still holds, so `Convert` can fail over a flaw only, and a
flaw of a claimed job is none of the form's. `MatchingIsEnough`, `RowsAreCurrent`,
`RunsHaveProviders` and `FailuresWereFound` follow; `OneMatch` needs only the
types.

Only model-checked: `ClaimedIsFinished`, `QueuedIsServed` and `PipelineEnds`,
since liveness under fairness is out of the prover's reach. Of the first,
`NothingAbandoned` is proved: that there is always a way on. That the ways come
to an end stays with TLC, as does each run's refutation.
No proof needs an assumption about the code beyond the constants' own.

## 5. Where the code and its documents differ

Shown by a run (the sentence is quoted in `PROJECT.json`):

* `complete` is not one transaction (`lease_one_transaction`). A handler that
  dies after closing the attempt leaves the job leased, and the lease can
  neither be renewed nor completed again.
* Expired attempts do not become stale, and their jobs do not become retryable
  (`lease_expired_closed`): no statement does either.
* A failed completion is not retried, and the result is kept nowhere
  (`worker_completion_lost`).
* A failure without a text is not isolated (`pipeline_mute`): the issue that
  should record it needs a message of at least one character, so recording it
  raises and the run ends, whatever else was to be translated. Files already
  saved stay on the disk and are reported nowhere.

Contained in the models, without a run of their own:

* The design lists `partial` among the states of a job, and `running` on the
  way to each of them
  (`docs/superpowers/specs/2026-06-26-deterministic-translation-web-worker-design.md:345-351`).
  A job whose result is partial is recorded as failed (`FinalState`), and no
  statement writes `running` into a job. The result itself, kept with the
  attempt, still says partial.
* Updates do not need an unexpired lease
  (`docs/superpowers/plans/2026-06-26-web-neon-implementation.md:347`), only
  one that had not expired when the batch began (`BeginAppend`, `InsertLog`).
* The outbox is not flushed before a claim
  (`docs/superpowers/plans/2026-06-26-local-worker-implementation.md:215`).
  Left-over events of an earlier job are sent under the next job's lease and
  end up in that job's log, which is why `NoEventLost` says *a* log.
* An append cut short by a full disk makes the whole outbox unreadable
  (`Outbox`: nothing moves once `tail` is garbage).
* A rule that only the worker has ends the process over a job that the form
  accepted, and the job stays leased; retried, it ends the next worker that
  matches it (`Refuse`). These rules are: exactly `owner/repo` in the URL,
  without credentials or query; no control character, no segment ending in
  `.` or `.lock`, no blank branch; no `limits`, which `jobV1Schema` offers and
  `WorkerJobConfig` forbids. `RefusedOverRulesOnly` says that this is all. The
  design says that "Validation errors prevent job creation or claim" (`:447`).
* `dictionary_EN.json` is found and published as `en`, and then not opened,
  since `load_dictionary` looks for `dictionary_en.json` (`Loads`). A
  dictionary removed or broken after the start is still published.
* A tag that `languageTagSchema` does not accept, such as that of
  `dictionary_zh-hans.json`, has the whole registration refused, which ends
  the worker (`RegisterRefused`). So does a model named by its path.
* An unknown kind of provider passes every check, is published and matched,
  and fails each run at `create_provider`.
* `pushStrategy` and `cacheRoot` are accepted and dropped: no claim matches a
  cache root, and no run publishes.
* The design promises cached translations
  (`docs/superpowers/specs/2026-06-26-deterministic-translation-web-worker-design.md:88`,
  `:279`); the pipeline never consults the cache. If it did, a hit could be
  stale: another branch with the same output root, or another process, may
  have written the output since the entry was recorded, and a crash between
  the renames leaves the new output under the old entry. `OwnWorkIsFresh` is
  what is left to hold.
* An empty or blank translation of a segment is accepted by
  `validate_segment_response`, and the verifier does not look for one (in
  `Markdown` an item is its id); and every segment is sent, not only those with
  Japanese text (the same document, `:84` and `:82`).
* A term of the dictionary that occurs only in protected markup has to be in
  the output translated, where it cannot be: such a file always fails.

## 6. What is not modelled

* **Text and wording**: redaction, issue messages, what the regular expressions
  of `markdown.py` and `verification.py` match, and the string rules of
  `paths.py`. Strings are classes of characters or sets of broken rules.
* **I/O**: HTTP headers, authentication of requests (a refused request changes
  nothing), GitHub and provider traffic, rendering.
* **Power loss**, and the lines `str.splitlines` would split inside an event
  (U+2028, U+0085: JSON written with `ensure_ascii=False` keeps them, so an
  event that contains one breaks the outbox like a torn line does).
* **Clocks**: a lease may lapse at any moment and a renewal be due at any
  moment. The worker renews every 20 s (by default) within a lease of 60 s,
  but from callbacks only, and one provider call may take longer.
* **Two processes on one outbox**: the path depends on the cache root alone.
* **The admin login, sessions and throttle, the migrations, the in-memory
  stores of the end-to-end tests, the publisher**: no job, lease or run
  depends on them; the publisher has no caller but its tests.

`PROJECT.json` lists every component with its status and every hazard with the
properties that cover it.

## 7. What could follow

1. A clock for the leases: lease length, renewal period and longest gap
   between callbacks as constants, and the condition under which no lease is
   lost, proved (in `WorkerRunner`, or in a module of its own with its proofs
   beside those of `LeaseStore`).
2. The login throttle under concurrent requests, and the expiry of sessions.
3. The in-memory stores against `JobLifecycle` (expected to differ where a
   completion meets a cancellation), and the migrations under crashes.
4. `Outbox` in the place of `DurableQueue` in the composed system, with two
   processes on one file.
