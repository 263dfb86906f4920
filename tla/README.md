# A TLA+ development of AutoWork

AutoWork is a newsroom for cyber-threat intelligence: a FastAPI backend
(`src/backend/src/cti_app`), PostgreSQL, a Dramatiq/Redis worker pool, a React
frontend and a few sidecars. An analyst selects subjects, the system researches
them with language models and external providers (VirusTotal, Shodan, sample
repositories), produces sections, and an edition is composed, reviewed and
published. Almost everything that is slow runs as an asynchronous job; almost
everything that leaves the system must leave it once, because it costs quota,
discloses what is being investigated, or cannot be undone.

Two engines, the **job engine** and the **external-effect coordinator**, are
what the rest of the program trusts to be right when processes die, messages are
delivered twice, acknowledgements are lost and analysts press buttons in the
middle. On top of them stand four protocols with state of their own: the
**budget** of an investigation, the **production batch**, the **model
submission** with its reconciliation, and the **publication of an edition**. These
six, and the passive reads that join the coordinator and the budget, are modelled.

Paths below are relative to `src/backend/src/cti_app/` unless they start with
`src/`.

## 1. Inventory

| Component | State | Operations that change it | What is hard |
|---|---|---|---|
| **Asynchronous jobs** `domain/jobs.py`, `application/jobs.py`, `infrastructure/database/repositories/jobs.py`, `workers/tasks.py`, `workers/scheduler.py` | `jobs` rows (status, attempt, `next_retry_at`, `cancel_requested_at`, heartbeat), `job_events`, the Redis queue, worker threads | submit, cancel, retry, resume after a human, execute, touch progress, succeed, fail, schedule a retry, recover abandoned jobs | delivery is at least once; a stalled worker comes back after its job was recovered; commit and send are two steps; cancellation races the handler's end; pause of a batch |
| **External-effect coordinator** `application/external_effects.py`, `domain/external_effects.py`, `infrastructure/database/repositories/external_effects.py` | claims and uses per effect key, process-local permits and send capabilities, attempt rows of acquisitions, retrohunts and model runs | consume, enter handoff, use the capability, complete, seal as not submitted, seal for review, replay, reuse, release | crash or cancellation between two transactions; a commit whose acknowledgement is lost; a permit that outlives its authority; a replay that finds the first call in flight |
| **VirusTotal passive reads** `infrastructure/virustotal.py`, `application/virustotal.py`, `application/investigation_vt_tools.py` | pages read, the retry slot, sends and reuses counted | dispatch a page, retry once, count, end with or without a proof of no send | whether "nothing was sent" is proved when only the last of several sends was refused |
| **Investigation governance and budget** `domain/investigation.py`, `application/investigation_service.py`, `application/investigation_governance.py` | envelope (rights, limits, version), reservations in two persisted copies, tool invocations, the attempt number of the current Bridge turn | reserve, adjust, commit, release, restore, revoke, extend, resume, reconcile | every operation saves the whole budget from a copy it read earlier; two copies written by different transactions; late results after a reconciliation |
| **Production batches, runs, stages** `application/subject_production.py`, `production_jobs.py`, `production_workflow.py`, `production_review_recovery.py`, `api/production.py`, `domain/production.py` | batch status, ordered items, runs with status, stage and pipeline generation, stage jobs | create, start, pause, resume, cancel, retry, resume a cancelled run, restart, chain, hand over, recover | a handler is five transactions and a request several; a lost worker or a second request falls between any two |
| **Edition composition, review, publication** `application/edition_composition.py`, `edition_review.py`, `edition_publication.py`, `edition_rendering.py`, `editions.py` | the edition's version, its composition and the events of the commands, review decisions, manifests, releases, renders, the jobs of both | compose, decide, accept and freeze, assure a job, assemble in two phases, render, retry a render, archive | commands repeated after a lost answer; a release decided without a lock and written later; several callers that repair the same job |
| **Selection and discovery** `application/selection.py`, `application/discovery/` | candidate sets, merge runs | discover, merge cumulatively, recover, select | a merge interrupted between planning and application |
| **Model gateway, submissions, reconciliation** `application/model_gateway.py`, `production_reconciliation.py`, `production_reconciliation_resolver.py`, `domain/model_runs.py` | ModelRun rows, the Bridge's submissions by idempotency key, the run's reconciliation identity, probe jobs | claim, post, settle, retry a verified failure, probe, adopt, release, declare lost, import, reemit | answers that arrive after a timeout; what is known of one submission applied to another; adoption in two transactions |
| **Model conversations** `application/model_conversations.py` | conversations, turns | submit, poll, resume | as above, for turns |
| **Collection** `application/collection.py`, `http_collection.py`, `collection_review.py` | sources, attempts | fetch, review | mostly network and parsing |
| **Retrohunt and sample acquisition** `application/retrohunt.py`, `sample_acquisition.py`, `acquisition_orchestrator.py` | attempt and dispatch rows, archives | start, poll, download | long polls, ambiguous submissions |
| **OSINT policy, advisor, rules, operator tools** | policy data, tool calls | decide, invoke | policy data |
| **Rendering, exports, figures** | none of its own | render | pure data processing |
| **API, frontend, sidecars, infrastructure, scripts** | sessions, UI state | requests | I/O |

**Interactions.** The API writes a job row, commits, then sends its id to the
queue. A worker locks the row, claims the job and runs its handler; the handler
re-reads the row whenever it touches progress, calls the model gateway and the
tools of an investigation, and its end is written in another transaction. A
scheduler asks a worker, periodically, to recover jobs whose heartbeat is older
than a cutoff. A production batch owns jobs: pausing it stops their claims, their
retries and their recovery. A tool of an investigation reserves budget, then
sends each request through `ExternalEffectCoordinator.send_one`; the coordinator
locks the envelope, the invocation, the reservation and the claim in each of its
transactions, hands over outside any transaction, and marks the invocation for
review when the outcome is in doubt. A VirusTotal tool makes several such calls.
A stage of a production run calls the gateway, which posts to the Bridge; when the
answer is uncertain the run stops for review with the identity of the submission,
and probes, analysts and declarations of loss settle it from there. Accepting an
edition freezes what its composition, its reviews and the documents of production
are at that moment; jobs of the engine turn the frozen manifest into a release and
its PDF, unless one of the three has moved on.

**What makes each part correct.** Jobs: no execution escapes the attempt counter, no
claim is refused for ever, outcomes are final, cancellation wins, a pause holds, nothing
is stranded, and everything settles. Coordinator: an effect leaves at most once, its
durable record is true, an ambiguous effect stops automation, the sender pays. Reads: a
refund is only given for what provably was not sent, and the sends stay within the
reservation. Budget: what is charged never exceeds what was granted, a settlement is
final, what reached a provider stays charged, and no closed invocation keeps a
reservation. Production: the first pass runs one article at a time and in order, a
closed batch is quiet, a cancelled run stays cancelled, and the batch comes to an end.
Submissions: the prompt is never in the provider's hands twice, an answer on file is
kept and is the one the run continues on. Editions: what is released is what was
accepted last and nobody has excluded since, one job at a time works for it, and a
repeated command is answered once and for all.

`PROJECT.json` lists the hazards at the lines where they bite.

## 2. Modules

| Module | Role |
|---|---|
| `Jobs` | the job engine: rows, journal, queue, workers, pause and resume, recovery |
| `JobLifecycle` | abstract: the life one job may have |
| `JobsMC`, `JobsProofs` | instances; inductive invariant, refinement and theorems |
| `ExternalEffects` | the coordinator: claims, uses, invocations, envelope, calls of `send_one` |
| `OnceOnly` | abstract: the life of one effect key |
| `EffectsMC`, `EffectsProofs` | instance; inductive invariant, refinement and theorems |
| `PassiveReads` | VirusTotal tool calls composed with the coordinator (extends `ExternalEffects`) |
| `ReadsMC`, `ReadsProofs` | instance and proofs of the composition |
| `InvestigationBudget` | the budget of one investigation, its two copies and everything that changes them |
| `BudgetMC`, `BudgetProofs` | instance; inductive invariant and theorems |
| `ProductionBatch` | one production batch: runs, chain of stage jobs, analysts' requests |
| `ProductionMC`, `ProductionProofs` | instances; inductive invariant and theorems |
| `ModelSubmission` | the model call of a stage and the reconciliation of its submission |
| `SubmissionMC`, `SubmissionProofs` | instances; three inductive invariants and the theorems they give |
| `EditionPublication` | one edition: composition, review, acceptance, assembly, release, render |
| `EditionMC`, `EditionProofs` | instance; inductive invariant and theorems |
| `SetLemmas` | lemmas on the largest of a set of numbers and on sums over finite sets |

### Jobs

The variables are the persisted row of every job (`jobs`), its journal with two
history counters (`started`, `refunded`), the batch's pause flag, the messages in
Redis (`queue`), the messages a process has committed to send and not yet sent
(`owed`), the workers' program counters, and the resume request in progress
(`resumer`). Operators named after the methods of `Job` (`Start`, `ScheduleRetry`,
`RecoverAbandoned`, ...) compute the new row; actions are the transactions of
`JobService` and `JobExecutionContext` plus the environment (delivery, the clock,
the death of a worker). Where the code commits and then calls `dispatch`, there
are two steps, with a possible death between them when `LossyDispatch` is set.

Timestamps are abstracted to what is tested of them: a retry is `none`, `future`
or `due`, a heartbeat is expired or not. `MaxAttempts`, `DurableKinds` and
`ResumableKinds` are constants: the model takes the recovery list
(`DURABLE_RESUME_JOB_KINDS` in `workers/tasks.py`) and the registry's flag as two
sets, because the code does. Redis (delivery at least once, in any order) is
external and modelled from how `infrastructure/jobs.py` uses it.

Not in the module: progress percentages, diagnostics, other Dramatiq actors.

### ExternalEffects

One transaction is one action; between two transactions, and while the transport
runs, a call may be overtaken by the others, be cancelled, or die with its
process (`Crash`). A call's record holds its program counter, the envelope version
its authority names, the claim state it saw, whether its permit is still fresh,
whether its capability is live and used, and its outcome. `sends` counts what the
transport was allowed to emit; it is not read by any action. Commits whose
acknowledgement is lost are actions of their own (`...Unacknowledged`), which
leave the row written and take the call down the error path of the code.

The state of an invocation is its row, its reservation and, for acquisitions,
retrohunts and model runs, the attempt row the coordinator checks and marks.
What the investigation does to those rows meanwhile (revocation and extension,
stop and resume, the end of the tool call, reconciliation) is `InvestigationStep`.

Abstractions, and why they are sound for the properties:

* the checks of `consume` on data that does not change during a call (registered
  family and scope, credentials, disclosure, source references, digests) are one
  nondeterministic refusal: more refusals than the code has, never fewer;
* the amounts of the budget are left out; a reservation is reserved, released or
  committed. Because every save of the budget rewrites the reservation rows from
  the envelope's own copy, `SaveBudget` sets one to any value: the coordinator's
  guarantees may not depend on them. `InvestigationBudget` has the amounts;
* a model submission without an investigation is represented with an invocation
  of its own;
* attempt rows that other code settles (dispatch and retrohunt pollers) only move
  by the coordinator's own writes here.

### PassiveReads

A tool call asks for pages in order; each page is one call of `send_one`, with one
retry in the whole tool call. The module extends the coordinator's: a reader
starts calls with `Begin` and waits for their outcome, and all the coordinator's
steps, revocation and the calls of other tools interleave. At its end it decides
whether it can prove that nothing was sent, which returns the whole reservation.
`CallOf` is injective: the occurrence in the effect key differs between pages and
attempts, while two tool calls may well share keys.

### InvestigationBudget

The canonical budget lives in the envelope and is saved by compare-and-swap on its
version; `rows` are the normalised copy that `_save_budget_snapshot` rewrites and
the coordinator reads. Each operation (a Bridge turn attempt, a passive read, an
advisor consultation, another external tool, a local tool) is a coroutine whose
record holds the envelope it read last. A read on which a later transaction relies
is an action of its own, so that everything may happen in between; each loop that
re-reads after a conflict has its three tries. Around them: the loss of a worker
and the re-entry of its job, `resume`, the marking of an invocation for review and
its reconciliation, the operator's own reconciliation (which saves one copy), and
the G2 decisions that extend or revoke. Amounts are numbers; an operation is
charged to one dimension. What the investigation computes is left out.

### ProductionBatch

A stage handler of `production_jobs.py` is the sequence of its transactions: claim
and fence, execution, judgement of the outcome, application (success, review,
failure), chaining to the next stage or hand-over of the batch to the next
article. A request of `api/production.py` commits and then dispatches, in up to
four steps, and may die between two. `StartNext`, `Wrote` and the operators named
after the methods of the batch and of the run compute the rows; an automatic
recovery re-queues an eligible article once. The content of a stage is one step
with an outcome. The delivery of a queued job is taken from `Jobs`. An article
whose generation has reached `MaxGeneration` counts as not eligible for another.

### ModelSubmission

One stage, its ModelRuns by generation, and what the Bridge holds for each
idempotency key (`<<ModelRun, attempt>>`). An execution claims an attempt, posts,
waits, settles the ModelRun, retries after a verified terminal failure, and
records on the production run either the answer or the identity of the submission
to reconcile. A probe reads the run, asks the Bridge, then adopts, releases or
gives up in further transactions; analysts ask for a probe, declare a loss, or
import an answer (`visible_recovery` and `manual_import` are both `operator`). The
Bridge may answer at any time, prove that it never will, or stall. The batch is
reduced to whether it lets the run continue; `TurnBatch` changes it.

### EditionPublication

One edition with a run for each of its articles. A document is named by the
generation of its run and its version (`Pins`); `verified` are those that still
stand, and a retry, a repair or an analyst's opinion changes them. `Mutate` is one
composition command under the lock of the edition, in the order of `_mutate`:
archived, key already used, version, references. A client keeps the command it
composed (`commands`) and may repeat it at any time. `Accept` resolves the inputs,
resumes the newest manifest or freezes another, and then, outside the transaction,
assures its job as `_ensure_queued_job` does: it reads the newest job, submits,
retries or succeeds it by deterministic keys, in at most three turns, and dispatches;
each call is a step, so analysts, recoveries and other callers fall between. The
jobs of a manifest, or of its release, are the sequence of those keys (`jobs`).
`Phase1` decides without a lock, `Phase2` decides again with it. A message may be
refused by Redis, and a handler or a process may fail anywhere.

Abstractions: positions are the version of the composition; the client's own
exclusion decisions, open repairs and the version the analyst saw are refusals
only and left out; a run is `ready`, `running` or `failed`, where `failed` is
every other end; a running job may be cancelled at any step, which is earlier than
the engine's; the render is one step, so the lease of the Typst runner is not
modelled; manifests of the first format are not accepted any more and left out.

## 3. Model checking

| Run | Instance | Shows |
|---|---|---|
| `jobs_zombie` | one durable production job of 2 attempts, 2 workers, 2 messages, 2 expiries while a worker executes, 2 refunds, fairness | attempt accounting, claimability, a sole executor until a heartbeat expires, nothing stranded, cancellation, pause; every job settles |
| `jobs_two_kinds` | a durable job of 1 attempt and a non-durable one of 2, 2 workers, lost dispatches | the engine implements `JobLifecycle` under a recovery that takes both at once |
| `jobs_worker_loss` (violation) | one resumable job that is not in the recovery list | a lost worker fails it |
| `effects_shared` | a read, its replay under one invocation and the same read of another invocation, or a model attempt; one change of the envelope | once only, true claims, barriers, ambiguity contained, the sender pays, refinement of `OnceOnly` |
| `reads_pages` | a tool call of two pages with two attempts each, or of one page that another invocation races for; fairness | proofs of no send, sends within the reservation; a send in doubt closes its invocation, although a first attempt leaves it running; every tool call ends |
| `budget` | two turn attempts, a read, an advisor, an external and a local tool, limit 1, two of them at a time | no overcommitment, final settlements, tools funded and charged, nothing stranded |
| `production_requests` | two articles, one stage, two analysts | the first pass is in order, closed batches are quiet, cancelled runs stay so |
| `production_alone` | two articles, two stages of 2 attempts, one request, fairness | the batch settles |
| `production_blocked` (violation) | the same with one stage and a lost worker | the batch stays blocked |
| `submissions` | two workers, two reconcilers, two generations of one ModelRun, two attempts, two lost workers, one lost request, one lapsed lease, one cancellation | one unresolved submission in a first generation; archived answers are kept and are what a run continues on |
| `submission_released` (violation) | a Bridge that calls a failure retryable without its proof, two generations | a prompt is submitted again while its first submission may still be answered |
| `edition` | two articles, two commands, two requests, two workers; 2 attempts, generations, documents, versions of the edition, decisions, manifests and jobs of each; one loss | a release is of what was accepted last and not excluded since; one live job per input; repeated commands are answered |

**Bounds.** `MaxMessages` bounds the copies of one message in Redis: two already
give a delivery during an execution and one after it. `MaxExpirations` bounds the
expiries of a job *while some worker executes it*: two let the second worker lose
the job as well. `MaxRefunds` bounds the attempts given back to a job, which
nothing in the code bounds. `MaxVersion` bounds the envelope's version, which
starts at 1: at 2 it changes once under the calls; at 1, in the reads, nothing
saves the envelope, and a stale authority is one of the refusals.
`MaxRequests` of the reads is the number of pages; two tell "this page was
refused" from "nothing was sent". The families other than reads, and changes of
the envelope during a tool call, are left to the theorems.

Six MC modules explore a union of small instances instead of one large one: the state
constraint `Scenario` says which. `EffectsMC`: the first call with its replay or with
the other invocation's, or the model attempt alone. `ReadsMC`: two pages alone, or one
page with another invocation. `BudgetMC`: two operations at a time; the second turn
attempt only with the first; the external tool with the read or the local tool; a G2
decision after the first approval only around the read and the external tool.
`ProductionMC`: two requests at once, restarts included; or three one after the other
with at most one new generation; or two around one lost worker and one lost API process.
`SubmissionMC`: the first generation with losses, cancellation, batch changes and two
reconciliations of one submission (two such events while one reconciliation runs at a
time, one while two do); a second execution of a job whose lease lapsed; two generations
with a cancellation and a loss; two generations of a stalling Bridge. `EditionMC`: two
commands of any kind before acceptance, with one change of a document, a decision or the
edition after the first; a command or another change once the edition was accepted,
against assemblies nothing else disturbs, for two manifests; two processes that assure,
cancel, retry or lose a worker, on an edition nobody changes. Some of the combinations
they leave out are the ones of section 5, where the property fails. With liveness a
constraint is used in `reads_pages` only: what it prunes there is the beginning of the
other invocation's call and going on to a second page beside it, never the only fair
step of a tool call.

Symmetry is used in safety runs only. Deadlock is not checked where a system whose
work is done, or whose bounds are exhausted, really stops; in the runs of the
coordinator an invocation can always be stopped or resumed.

**Fairness.** `Jobs!Fairness` assumes that Dramatiq delivers a queued message, a handler
ends (every actor has a time limit), a process that committed sends its message, the
clock makes retries due, the scheduler asks for recovery again and again, and the
heartbeat of a job that no worker executes expires. Nothing is assumed of analysts, of
crashes, or of the stall of a live worker. `PassiveReads!FairReadSpec` assumes only that
the task of a tool call runs again, in its loop and in the call it awaits, which covers
the transport because each one has a timeout. `ProductionBatch!Fairness` assumes that a
queued stage job is taken and its handler goes on (what `jobs_zombie` shows of the
engine) and that a request which began is served; `ModelSubmission!FairSpec`, which only
section 5 uses, the same of executions, requests under way and scheduled probes.
Analysts, the Bridge, pauses and losses are never obliged. No liveness is stated of
editions: a job lost between freeze and dispatch waits for the next acceptance, which
nobody is obliged to ask for.

## 4. Proofs

All theorems, but for the hypotheses that two of `SubmissionProofs` and two of
`BudgetProofs` name, hold for any sets of jobs, workers, calls, keys, invocations,
readers, callers, reconcilers, articles, clients, turns and tools, and for every
value of the bounds, from `JobsAssumption`, `EffectsAssumption`,
`ReadersAssumption`, `SubmissionAssumption`, `BudgetAssumption`,
`ProductionAssumption` and `PublicationAssumption` alone (types and positive
bounds; turns and tools are finitely many, so that a sum of charges exists; the
articles of a batch are a sequence without repetition). TLC evaluates these
assumptions on every instance, and checked each inductive invariant on the
instances of section 3 before it was proved.

**`JobsProofs`.** `AttemptAccounting` alone is not inductive: `recover_abandoned`
gives an attempt back with `max(0, attempt - 1)`, which balances only if the
running job has spent one; and a queued job stays claimable only if a refund
follows a claim. `IInv` therefore ties, per job, status, attempt, claims and
refunds (`Sound`). Each action is shown to be a step of `JobLifecycle` for every
job or a stutter (`LifeMoves`), and `Sound` is proved once, over the few abstract
steps. Proved: `TypeCorrect`, `AttemptsAreAccounted`, `QueuedJobsAreClaimable`,
`OutcomesAreFinal`, `CancellationIsRespected`, `EngineImplementsLifecycle`.

Three more arguments of the engine are in the same module. *One executor*: a second
delivery is refused only because the row is running, so `SoleInv` adds to
`SoleExecutor` that the row of a job under execution is running as long as none of
its heartbeats expired under an execution, and that its heartbeat is not expired
either, which keeps recovery away (`OneExecutorPerJob`). *The pause*: each write to
a row is shown to hold it back (`HeldBack`) or to ask `JobBatchIsPaused` first,
late workers included (`PausedBatchesHold`). *Messages*: `NoStrandedJob` is
inductive beside `IInv`; who takes the last message of a queued job away leaves
the duty to send another to a process whose next step keeps it
(`QueuedJobsAreCarried`, under `~LossyDispatch`, which the property states).

**`EffectsProofs`.** That a key is emitted at most once follows from no single
guard. `EInv` says, for each call, what its program counter knows of the claim it
is about (`CallsSound`: from the handoff on, and for ever once it used its
capability, it is the call whose nonce the claim carries), for each key that it
was emitted once if the call named by its nonce used the capability and never
otherwise (`KeysSound`), where
an ambiguous claim leaves the invocation and the attempt (`ToolsSound`), and which
use rows a claim implies (`UsesSound`). Proved: `EffectsAreEmittedOnce`,
`ClaimsAreTruthful`, `AmbiguityStaysContained`, `SendersPayTheirSend`,
`SealsAreBarriers`, `CoordinatorImplementsOnceOnly`, `EffectTypes`.

**`ReadsProofs`.** `ReadsAreCoordinated` shows that the composition only ever
takes steps of the coordinator, so `EInv` holds in it and its refinement carries
over. `RInv` adds the bounds of the reader, that each page read counts at most one
reuse, that only the call a tool call waits for is under way (`OneCallAtATime`),
and, because no call of an ended tool call can still send, that a proof of no send
stays true (`ProofHolds`). Proved: `PreSendProofsAreTrue`, `ReadersTypeCorrect`,
`ReadsAreCoordinated`. `SendsArePaid` (`SendsWithinReservation`) counts attempts;
its invariant `PacedInv` says which can have been sent: first attempts up to the
current page, and a second attempt of one page at most, after which the shared
retry slot is spent.

**`SubmissionProofs`.** That a run continues on the archived bytes is not
inductive: the run takes its text from a probe or a request that read it
transactions ago. `SInv` adds to the types that an answer is on file only of a
ModelRun that succeeded (`ModelsSound`: nothing that acts on a running or reviewed
ModelRun can then touch it), that the identity of the run names a submission that
was made (`IdentitySound`), and that a probe about to resume the run holds the
bytes on file (`ReconsSound`). That the retry of an older generation finds an
existing ModelRun needs the largest of a set of generations, which is shown to
exist by well-foundedness (`MaxOfBounded` of `SetLemmas`). Proved: `SubmissionTypes`,
`ResumesOnTheArchive`, `AnswersAreKept` (also an action property: whatever a late
call, a stale probe or a declared loss says).

That at most one submission of a prompt may still be answered
(`OneUnresolvedSubmission`) is not a theorem of `Spec`: section 5 lists how the code
breaks it, in later generations, after a lapsed lease, or on the Bridge's word alone.
Two theorems say what is left. `Careful` turns that list into seven properties of a
step, each with the line that lets it fail: an execution submits, and records its
result, only in the running generation it was started for (`ClaimsCurrent`,
`RecordsCurrent`); a review without identity leaves nothing unsettled (`ReviewsNamed`);
a handler changes the attempt it submitted itself (`TouchesOwn`); a failure is final on
the Bridge's proof (`FailuresFinal`); a release is of the submission that was asked
about (`ReleasesProbed`); a cancelled run resumes with nothing unsettled
(`ResumesQuiet`).

*`OneSubmissionIfChecked`*, `Spec /\ [][Careful]_vars => []OneUnresolvedSubmission`:
these seven are all the causes. Crashes, lapsed leases, cancellations, retries,
declared losses and adopted answers, in any number and order, add no other. The
argument (`CInv`): a key is `Dead` when nothing will be answered under it any more, a
ModelRun is `Live` when its last submission may still be; every key but the last of
one live ModelRun is dead (`DeadAs`, `OneLive`), and what the run does next keeps it
so, because the run knows of that ModelRun: it is the one its generation continues
while it runs, and the one its identity names, or a retry continues, when it does not
(`LiveAs`). Most of the proof is that stale knowledge cannot contradict this:
executions of older generations still hold the key they found (`TargetsAs`), one
execution holds each submission (`SendersAs`), and what a probe was told stays true
(`ProbesAs`). No check is redundant: without any one of them TLC finds a
counterexample. TLC checked `CInv` beside `Careful` on instances with losses, lapses,
cancellations and both values of `ReusesModelRun` before it was proved.

*`FirstGenerationIsSafe`*, `~StalledRetryable => (Spec =>
[]FirstGenerationSubmitsOnce)`: until the run is first reopened, and as long as no job
is delivered again while it still executes, the code keeps the property by itself, with
no assumption on the steps: lost workers and their redeliveries, lost probes and
requests, any number of probes, declarations and adoptions at once, cancellations,
paused batches, refused and stalled submissions, on every instance where the Bridge
calls no failure retryable without its proof. `FirstInv` says why. Everything belongs to
the first ModelRun (`FirstOnly`) and, as long as no answer is on file: executions come
one at a time, and what one sends is the last submission of that ModelRun
(`SoloExecution`); nothing can be answered any more under the submissions before it
(`KeysAs`, shared with `CInv`); and the run waits for that last submission once, so that
every probe, however old, asks about that one (`WaitsOnce`). What a release or a
redelivered job then submits again replaces a submission the Bridge has closed. Once an
answer is on file its ModelRun never submits again (`AnswersAreKept`). Both hypotheses
are needed, and so is the first generation: section 5 has an instance without each.

**`BudgetProofs`.** Everything rests on the compare-and-swap: a copy whose version is
the current one *is* the envelope (`CopiesSound`). Older copies may be written to the
rows, and the rows may lag, but in one direction only: a reservation never vanishes, and
once settled stays settled (`CopiesSound`, `RowsSound`, `UseSound`). `ToolsSound` says
what a tool at each point knows of its own reservation: none before its admission; the
amount of its authority, as long as the envelope is the one it admitted into; and that
it sent nothing if it is about to release. What a step does to the canonical budget is
then a move of one reservation (`Moves`), or a change of limits (`BudgetStep`). That the
sum of charges moves with one reservation is proved in `SetLemmas` from the recursion of
`SumFunctionOnSet`, by well-foundedness. Proved: `BudgetIsTyped`,
`SentToolsStayCharged`, `ClosedToolsHoldNothing`, `SendsAreFunded`, `SettledStays`,
`NothingOvercommits`. `FundedSend` is stated of tools: of Bridge turns the code does not
keep it. Two theorems say what Bridge turns would keep, so that the rows of section 5 on
`FundedSend` and `TurnsStayCharged` name every cause of what they do not. Under
`MirrorsCurrent` (a settlement repeats rows only from the envelope as it is,
`investigation_service.py:4621`) the rows of turns repeat the envelope (`TurnRows`), and
every send, of a turn or a tool, is funded (`EverySendIsFunded`). If moreover
`StopsUnsent` (a run that enters an attempt again ends no sent turn as stopped,
`:1164`), a sent turn stays charged (`SentTurnsStayCharged`): an attempt is superseded
only when nothing was sent for it, so a sent turn is of the current attempt and its
reservation is active or committed (`TurnsSound`). `OneKeyPerAttempt` is the code's own:
the budget key of a turn carries its attempt (`bridge_budget_operation_key`). Neither
check is redundant, TLC finds `TurnsStayCharged` violated without either; with both it
checked `TurnRows` and `TurnsSound` on two turns beside a read or an advisor, and on two
turns with a decision, before they were proved.

**`ProductionProofs`.** Handlers, hand-overs and requests write runs in separate
transactions, from jobs and clients that may be old. `ProdInv` is about the runs
the items point at: they exist as soon as the batch does (`RunsExist`), a closed
batch leaves none of them active (`ClosedBatchIsQuiet`, inductive with the rest),
first runs are started in editorial order (`StartedInOrder`), and none of them is
active once the recovery began (`LaterPhasesFollow`). Two transactions need an
argument of their own, the creation of the batch and the start of the next run; all
others end runs, open a generation, or replace a run (`RowsSettle`). Proved:
`ProductionTypes`, `ClosedBatchesAreQuiet`, `FirstPassIsInOrder`,
`CancelledRunsStay`. The proof of a stronger statement, that a batch never runs two
articles, fails where the code does (`OneActiveRun`, section 5): the order is a
property of the first pass, not of the generations and replacements analysts ask for.

**`EditionProofs`.** Two arguments. A job that was cancelled, or failed with no
attempt left, never changes again, so a caller that saw it so, however long ago,
may append its successor, and only the last job of a chain can be live
(`ChainsSound`, `ProcsSound`). And what a manifest froze only moves forward:
versions of the edition and the composition grow, and decisions are never taken
back; so a manifest that was replaced, or whose articles were excluded since, never
matches the edition again (`ManifestSound`). Proved: `EditionTypes`,
`OneJobAtATime`, `ReleasesAreAsReviewed`, `RepeatsAreAnswered`.

**Only model-checked.** Liveness (`EveryJobSettles`, `EveryReadEnds`,
`BatchSettles`) is beyond the prover. Every other property of a passing run is a
theorem, `FirstGenerationSubmitsOnce` under the hypothesis that `SubmissionProofs` names.

## 5. Where the code does not do what is said of it

Three disagreements have a run. `jobs_worker_loss`: `production_jobs.py:995`
registers a kind as surviving the loss of its worker, and the recovery list lacks
it. `production_blocked`: `production_jobs.py:596` promises that an ended article
does not block the queue; the run ends in one transaction and the batch advances
in another, which a lost worker skips for good. `submission_released`:
`docs/model_gateway.md:383` says that only a confirmed `verified_no_answer` releases
a submission and that a failure without that proof authorises no new POST;
`production_reconciliation_resolver.py:114` also releases one the Bridge merely calls
retryable.

The following were found with the same modules. Each is a property of the module
checked on a small instance (every bound not named is 0 or the smallest the
assumptions allow); TLC gives the behaviour in seconds.

| Property | Instance | What happens |
|---|---|---|
| `Jobs!JournalIsComplete` | one job, one worker | `wait_for_human` (`application/jobs.py:257`) commits without an event; `docs/async_jobs.md:27` says every transition is recorded |
| `Jobs!EveryJobSettles` | `LossyDispatch`, one job, one worker, fairness | a job whose message is lost between commit and send stays queued (`workers/tasks.py:174`): recovery looks for running jobs |
| `InvestigationBudget!TurnsStayCharged` | one turn, `MaxRuns` 2, `MaxDecisions` 1 | re-entered after a lost worker, a stopped or revoked turn that was sent is released as never submitted (`investigation_service.py:1164`) |
| `InvestigationBudget!NonSubmissionReleased` | one turn, `MaxRuns` 1 | `_complete_bridge_reservation` releases a confirmed non-submission on a copy it does not save (`:4554`) |
| `InvestigationBudget!MirrorAgreesAtRest` | one advisor | the operator's reconciliation saves the envelope and not the rows (`api/investigation.py:4942`) |
| `InvestigationBudget!FundedSend`, stated of `Ops` | a turn and a read, `MaxRuns` 2, `MaxLimit` 2 | a read that settles on an old envelope makes the row of a released turn active again, and the resumed turn is sent on it (`investigation_service.py:4621`) |
| `ProductionBatch!NoOrphanRun` | two articles, two stages, one analyst, three requests | a hand-over that lost its fence cancels the job of the handler that won (`production_jobs.py:275`) |
| `ProductionBatch!BatchSettles` | one article, two analysts, two requests | cancelled between creation and first dispatch, the batch can neither start nor finish (`subject_production.py:1239`) |
| `ProductionBatch!OneActiveRun` | two articles, two analysts, three requests, one restart, one new generation | a restart checks the siblings when it creates the replacement, not when it starts it (`subject_production.py:404`) |
| `ProductionBatch!OutcomeIsOwn` | one article, two requests, one new generation | a late outcome ends the generation an analyst has just opened (`production_jobs.py:844`) |
| `ProductionBatch!SoleStageExecutor` | one article, two analysts, three requests, one new generation | a handler past its fence executes the generation it reads next (`production_workflow.py:907`) |
| `ModelSubmission!OneUnresolvedSubmission` | two reconcilers, three generations | what the Bridge said of one submission releases another: `_release` closes whatever submission the run holds by then (`production_reconciliation_resolver.py:249`); `docs/model_gateway.md:384` speaks of "l'identité exacte interrogée" |
| the same | one cancellation, one new generation | a run cancelled with a submission in flight resumes with another (`domain/production.py:1068`) |
| the same | `BridgeStalls`, one lost worker, one new generation | a submission without final answer becomes an ordinary failure on redelivery (`model_gateway.py:1275`) |
| the same | one lost worker, one new generation | a stage job delivered again after its run stopped for review submits beside the analyst's retry (`production_jobs.py:685`) |
| the same | two workers, one lapsed lease, `ReusesModelRun`, one new generation | a handler without lease reopens an attempt that is no longer its own (`model_gateway.py:1501`) |
| the same | two workers, one lapsed lease, two new generations | a handler past its fence records its failure on the next generation, whose retry submits beside it (`production_jobs.py:844`) |
| `ModelSubmission!Reconcilable` | one lost request | an adoption interrupted between its transactions can never be repeated (`production_reconciliation.py:533`) |
| `ModelSubmission!AutomaticAnswerIsUsed` | one lost probe, fairness | a probe lost before its dispatch leaves the run RUNNING without a job (`production_jobs.py:502`) |

The rows of `OneUnresolvedSubmission`, with `submission_released`, are all its causes: a
behaviour in which no step takes one of them keeps it, by `OneSubmissionIfChecked`
(section 4).

## 6. Plan

1. `CumulativeMerge`: planning, application and recovery of a merge.
2. A composition of `InvestigationBudget` with `ExternalEffects`, in place of
   `SaveBudget`, and of `ProductionBatch` with `ModelSubmission`.
3. Model conversations, acquisition and retrohunt pollers, which settle the
   attempt rows of `ExternalEffects`; the Typst runner's lease under a render.
4. Proofs: an abstract specification of a budget that `InvestigationBudget`
   implements, and of a release for `EditionPublication`.

## 7. Not modelled

Of the parts that are modelled: conversations, background and `resume` modes,
policy-blocked runs and backends other than the Bridge; pacing, artifacts,
checkpoints and publication routes of production; progress and diagnostics of
jobs; the content of the investigation loop; previews, downloads and files of
editions, and the creation of production batches from a composition.

The cumulative merge, conversations, retrohunt and acquisition have protocols worth
modelling and are in the plan. Rendering, figures,
exports, parsing of reports, prompts, scoring, repair and enrichment of texts, HTTP
and the user interface are data processing or I/O without a protocol of their own;
they are most of the repository's lines, which is why the modelled lines are a
small share of them. Canonicalisation and digests of effect requests are taken as
an injective key. Authentication of users and the deployment are out of scope.
