-------------------------- MODULE ModelSubmission ---------------------------
(***************************************************************************)
(* One model call of a production run: the ModelRun the gateway persists,  *)
(* the provider submissions it makes through the Bridge, and the use cases *)
(* that settle a submission whose answer is uncertain: the read-only probe *)
(* (scheduled or asked for), the declaration of loss and the adoption of   *)
(* an answer by an analyst.                                                *)
(*                                                                         *)
(* One transaction is one action; everything else runs in between.  The    *)
(* Bridge is external: it keeps one submission per idempotency key, may    *)
(* answer at any time, and may promise that a key will never be answered   *)
(* (verified_no_answer).  The run has a single stage, which ends it.       *)
(***************************************************************************)
EXTENDS Integers, FiniteSetsExt

CONSTANTS
    Callers,          \* executions of the stage job
    Reconcilers,      \* probes and API requests under way
    ReusesModelRun,   \* the stage looks for the ModelRun of an earlier generation
    BridgeStalls,     \* the Bridge may stop without a final answer
    StalledRetryable, \* the Bridge may call a failure retryable without its proof
    Retries,          \* _BRIDGE_TERMINAL_FAILURE_RETRIES
    ReemissionLimit,  \* VERIFIED_REEMISSION_LIMIT
    ProbeAttempts,    \* PRODUCTION_RECONCILIATION_RESUME_MAX_ATTEMPTS
    MaxGeneration,    \* bound: pipeline generations
    MaxAttempt,       \* bound: submissions of a ModelRun
    MaxCrashes,       \* bound: executions lost
    MaxDrops,         \* bound: probes and requests lost
    MaxLapses,        \* bound: jobs delivered again while still executed
    MaxCancels,       \* bound: cancellations
    MaxTurns          \* bound: changes of the batch by others

ASSUME SubmissionAssumption ==
    /\ {ReusesModelRun, BridgeStalls, StalledRetryable} \subseteq BOOLEAN
    /\ Retries \in Nat /\ ReemissionLimit \in Nat /\ ProbeAttempts \in Nat \ {0}
    /\ MaxGeneration \in Nat /\ MaxAttempt \in Nat \ {0}
    /\ MaxCrashes \in Nat /\ MaxDrops \in Nat /\ MaxLapses \in Nat
    /\ MaxCancels \in Nat /\ MaxTurns \in Nat

Generations == 0..MaxGeneration
Models == Generations           \* a ModelRun is named after its first generation
Keys == Models \X (1..MaxAttempt)       \* bridge_request_id, <<ModelRun, attempt>>
NoKey == <<0, 0>>
Probes == 0..(ProbeAttempts - 1)
JobKeys == {"stage", "resume"} \X Generations

VARIABLES
    model,      \* the ModelRun rows
    bridge,     \* what the Bridge holds for each key
    run,        \* the ProductionRun, with its reconciliation identity
    batch,      \* whether its batch lets the run continue
    jobs,       \* its stage and resume jobs
    probe,      \* its reconciliation probe jobs, by attempt
    call,       \* the executions of the stage
    recon,      \* the probes and requests
    lost,       \* keys an analyst declared lost
    used        \* how often each bounded event happened

vars == <<model, bridge, run, batch, jobs, probe, call, recon, lost, used>>

-----------------------------------------------------------------------------
(* Types.                                                                  *)

Text == [by : {"none", "bridge", "analyst"}, key : Models \X (0..MaxAttempt)]
NoText == [by |-> "none", key |-> NoKey]
AnswerTo(k) == [by |-> "bridge", key |-> k]

ModelRun == [status : {"absent", "running", "needs_review", "succeeded", "failed"},
             sub : {"not_submitted", "unknown", "obtained", "no_answer"},
             attempt : 0..MaxAttempt, out : Text,
             code : {"none", "reconcile", "no_final", "abandoned", "failed"}]
NewModel == [status |-> "absent", sub |-> "not_submitted", attempt |-> 0,
             out |-> NoText, code |-> "none"]

Provenances == {"none", "automatic", "operator"}
Identity == [on : BOOLEAN, key : Keys \union {NoKey}, out : Text, prov : Provenances]
NoIdentity == [on |-> FALSE, key |-> NoKey, out |-> NoText, prov |-> "none"]

ProductionRun == [status : {"running", "needs_review", "ready", "cancelled"},
                  gen : Generations, id : Identity, reemitted : 0..ReemissionLimit,
                  code : {"none", "reconcile", "unavailable", "lost", "other"}]

CallPcs == {"idle", "claim", "invoke", "wait", "settle", "apply", "record", "follow"}
Results == {"none", "completed", "terminal", "unknown", "stopped", "pre", "rejected",
            "answer", "reconcile", "transient", "failed"}
Execution == [pc : CallPcs, job : {"stage", "resume"}, gen : Generations,
              key : Models \X (0..MaxAttempt), retries : 0..Retries, res : Results,
              leased : BOOLEAN]
IdleCall == [pc |-> "idle", job |-> "stage", gen |-> 0, key |-> NoKey, retries |-> 0,
             res |-> "none", leased |-> TRUE]

ReconPcs == {"idle", "retrieve", "adopt", "resume", "release", "declare", "undecided",
             "retry", "dispatch", "import", "reopen"}
Reconciliation == [pc : ReconPcs, kind : {"job", "api", "lost", "operator"},
                   key : Keys \union {NoKey}, text : Text, probe : Probes,
                   job : {"stage", "resume"}]
IdleRecon == [pc |-> "idle", kind |-> "api", key |-> NoKey, text |-> NoText,
              probe |-> 0, job |-> "stage"]

TypeOK ==
    /\ model \in [Models -> ModelRun]
    /\ bridge \in [Keys -> {"none", "pending", "stalled", "answered", "closed"}]
    /\ run \in ProductionRun
    /\ batch \in {"open", "busy", "paused"}
    /\ jobs \in [JobKeys -> {"none", "queued", "running", "done"}]
    /\ probe \in [Probes -> {"none", "queued", "running", "done"}]
    /\ call \in [Callers -> Execution]
    /\ recon \in [Reconcilers -> Reconciliation]
    /\ lost \subseteq Keys
    /\ used \in [crash : 0..MaxCrashes, drop : 0..MaxDrops, lapse : 0..MaxLapses,
                 cancel : 0..MaxCancels, turn : 0..MaxTurns]

Init ==
    /\ model = [m \in Models |-> NewModel]
    /\ bridge = [k \in Keys |-> "none"]
    /\ run = [status |-> "running", gen |-> 0, id |-> NoIdentity, reemitted |-> 0,
              code |-> "none"]
    /\ batch = "open"
    /\ jobs = [j \in JobKeys |-> IF j = <<"stage", 0>> THEN "queued" ELSE "none"]
    /\ probe = [a \in Probes |-> "none"]
    /\ call = [c \in Callers |-> IdleCall]
    /\ recon = [r \in Reconcilers |-> IdleRecon]
    /\ lost = {}
    /\ used = [crash |-> 0, drop |-> 0, lapse |-> 0, cancel |-> 0, turn |-> 0]

-----------------------------------------------------------------------------
(* The ModelRun and the ProductionRun.                                     *)

(* model_run_awaits_reconciliation.                                        *)
AwaitsReconciliation(m) == model[m].code \in {"reconcile", "no_final"}

(* requires_submission_reconciliation.                                     *)
RequiresReconciliation ==
    run.status = "needs_review" /\ run.code = "reconcile" /\ run.id.on

Submittable_Mutant(r) == r.status \in {"absent", "running"}

(* A ModelRun that begin_submission_attempt may claim, at once or after    *)
(* restart_after_certain_pre_submission_failure.                           *)
Submittable(r) ==
    \/ r.status = "absent"
    \/ r.status \in {"running", "failed"} /\ r.sub = "not_submitted"

Submitted(r, attempt) ==
    [r EXCEPT !.status = "running", !.sub = "unknown", !.attempt = attempt,
              !.code = "none"]

RequireReview(r, code) == [r EXCEPT !.status = "needs_review", !.code = code]

Fail_Mutant(r, sub, code) == [r EXCEPT !.status = "failed", !.sub = code, !.code = sub]
Fail(r, sub, code) == [r EXCEPT !.status = "failed", !.sub = sub, !.code = code]
Succeed(r, text) ==
    [r EXCEPT !.status = "succeeded", !.sub = "obtained", !.out = text, !.code = "none"]

(* reopen_after_verified_reconciliation_failure.                           *)
Reopened(r) == [r EXCEPT !.status = "running", !.sub = "not_submitted", !.code = "none"]

Earlier(g) == {m \in 0..(g - 1) : model[m].status # "absent"}

(* The ModelRun of a stage: extraction, synthesis and enrichment derive it *)
(* from the generation, relevance keeps an earlier one that was not        *)
(* abandoned (_request_for_generation).                                    *)
ModelFor(g) ==
    IF \/ ~ReusesModelRun \/ model[g].status # "absent" \/ Earlier(g) = {}
       \/ model[Max(Earlier(g))].code = "abandoned"
    THEN g ELSE Max(Earlier(g))

(* submission_attempt_offset: a ModelRun that replaces an abandoned one    *)
(* continues its ordinals.                                                 *)
Offset(g, m) ==
    IF ReusesModelRun /\ m = g /\ model[g].status = "absent" /\ Earlier(g) # {}
    THEN model[Max(Earlier(g))].attempt ELSE model[m].attempt

(* ProductionRun.retry_from_stage and resume_after_cancellation.           *)
NextGeneration ==
    [run EXCEPT !.status = "running", !.gen = @ + 1, !.id = NoIdentity, !.code = "none"]

(* ProductionStageChain.submit: an existing job is only dispatched again.  *)
Submit(job, g) ==
    jobs' = [jobs EXCEPT ![<<job, g>>] = IF @ = "none" THEN "queued" ELSE @]

(* The job is the handler's only as long as its lease.                     *)
SetJob(c, st) ==
    jobs' = [jobs EXCEPT ![<<call[c].job, call[c].gen>>] =
               IF call[c].leased THEN st ELSE @]

(* submit_reconciliation_probe: the key has no generation, so a probe that *)
(* already ended is not run again.                                         *)
ScheduleProbe(a) ==
    probe' = [probe EXCEPT ![a] = IF @ = "none" /\ batch # "paused" THEN "queued" ELSE @]

-----------------------------------------------------------------------------
(* The stage handler and ModelGateway._execute.                            *)

SetCall(c, pc, res) == call' = [call EXCEPT ![c].pc = pc, ![c].res = res]

(* The fences of handle_stage; a resume job must find the exact answer it  *)
(* was submitted for.                                                      *)
StageFence(job, g) ==
    /\ run.gen = g /\ run.status # "cancelled"
    /\ IF job = "stage" THEN ~RequiresReconciliation
       ELSE /\ run.status = "running" /\ run.id.on
            /\ model[run.id.key[1]].status = "succeeded"
            /\ model[run.id.key[1]].out = run.id.out

StartStage(c, job, g) ==
    /\ call[c].pc = "idle" /\ jobs[<<job, g>>] = "queued"
    /\ IF StageFence(job, g)
       THEN /\ jobs' = [jobs EXCEPT ![<<job, g>>] = "running"]
            /\ call' = [call EXCEPT ![c] = [IdleCall EXCEPT !.pc = "claim", !.job = job,
                          !.gen = g, !.key = <<ModelFor(g), Offset(g, ModelFor(g))>>]]
       ELSE /\ jobs' = [jobs EXCEPT ![<<job, g>>] = "done"]
            /\ UNCHANGED call
    /\ UNCHANGED <<model, bridge, run, batch, probe, recon, lost, used>>

(* The first transaction: a submission is claimed once; an answer on file  *)
(* is returned, an unresolved one is sealed for reconciliation.            *)
Claim(c) ==
    LET m == call[c].key[1]
        r == model[m]
        attempt == IF r.status = "absent" THEN call[c].key[2] + 1 ELSE r.attempt + 1
    IN  /\ call[c].pc = "claim"
        /\ \/ /\ Submittable(r) /\ attempt <= MaxAttempt
              /\ model' = [model EXCEPT ![m] = Submitted(r, attempt)]
              /\ call' = [call EXCEPT ![c].pc = "invoke", ![c].key = <<m, attempt>>,
                                      ![c].retries = Retries]
           \/ /\ r.status = "running" /\ r.sub # "not_submitted"
              /\ model' = [model EXCEPT ![m] = RequireReview(r, "reconcile")]
              /\ SetCall(c, "apply", "reconcile")
           \/ /\ ~Submittable(r) /\ r.status # "running"
              /\ SetCall(c, "apply", CASE r.status = "succeeded" -> "answer"
                                       [] r.status # "succeeded" /\ r.code = "reconcile" ->
                                            "reconcile"
                                       [] OTHER -> "failed")
              /\ UNCHANGED model
        /\ UNCHANGED <<bridge, run, batch, jobs, probe, recon, lost, used>>

(* The POST: it may be proved not to have left, or to have been declined.  *)
Post(c) ==
    /\ call[c].pc = "invoke"
    /\ \/ /\ bridge' = [bridge EXCEPT ![call[c].key] = IF @ = "none" THEN "pending" ELSE @]
          /\ SetCall(c, "wait", "none")
       \/ /\ bridge[call[c].key] = "none"
          /\ bridge' = [bridge EXCEPT ![call[c].key] = "closed"]
          /\ SetCall(c, "settle", "rejected")
       \/ /\ SetCall(c, "settle", "pre")
          /\ UNCHANGED bridge
    /\ UNCHANGED <<model, run, batch, jobs, probe, recon, lost, used>>

(* The answer, a final failure, an interruption, or a timeout at any time. *)
Receive(c) ==
    /\ call[c].pc = "wait"
    /\ \/ bridge[call[c].key] = "answered" /\ SetCall(c, "settle", "completed")
       \/ bridge[call[c].key] = "closed" /\ SetCall(c, "settle", "terminal")
       \/ bridge[call[c].key] = "stalled" /\ SetCall(c, "settle", "stopped")
       \/ SetCall(c, "settle", "unknown")
    /\ UNCHANGED <<model, bridge, run, batch, jobs, probe, recon, lost, used>>

(* _reopen_after_terminal_failure: the next attempt of the ModelRun.       *)
ReopenAfterTerminalFailure(c) ==
    LET m == call[c].key[1] IN
    /\ call[c].pc = "settle" /\ call[c].res = "terminal" /\ call[c].retries > 0
    /\ model[m].status = "running" /\ model[m].sub = "unknown"
    /\ model[m].attempt < MaxAttempt
    /\ model' = [model EXCEPT ![m] = Submitted(@, @.attempt + 1)]
    /\ call' = [call EXCEPT ![c].pc = "invoke", ![c].retries = @ - 1,
                            ![c].key = <<m, model[m].attempt + 1>>]
    /\ UNCHANGED <<bridge, run, batch, jobs, probe, recon, lost, used>>

(* What the last transaction of the call leaves of a ModelRun still        *)
(* running, and what the stage may make of it.                             *)
Outcome(c, r) ==
    CASE call[c].res = "completed" -> <<Succeed(r, AnswerTo(call[c].key)), {"answer"}>>
      [] call[c].res = "unknown" -> <<RequireReview(r, "reconcile"), {"reconcile"}>>
      [] call[c].res = "stopped" -> <<RequireReview(r, "no_final"), {"reconcile"}>>
      [] call[c].res = "pre" ->
           <<Fail(r, "not_submitted", "failed"), {"transient", "failed"}>>
      [] call[c].res = "rejected" -> <<Fail(r, r.sub, "failed"), {"transient", "failed"}>>
      [] OTHER -> <<IF r.sub = "unknown" THEN Fail(r, "no_answer", "failed") ELSE r,
                    {"failed"}>>

Settled_Mutant(c, r) == Outcome(c, r)

(* A ModelRun that no longer runs is left as another has settled it.       *)
Settled(c, r) ==
    IF r.status = "running" THEN Outcome(c, r) ELSE <<r, {"transient", "failed"}>>

Settle(c) ==
    LET m == call[c].key[1]
        outcome == Settled(c, model[m])
    IN  /\ call[c].pc = "settle"
        /\ call[c].res = "terminal" =>
             call[c].retries = 0 \/ model[m].status # "running" \/ model[m].sub # "unknown"
        /\ model' = [model EXCEPT ![m] = outcome[1]]
        /\ \E res \in outcome[2] : SetCall(c, "apply", res)
        /\ UNCHANGED <<bridge, run, batch, jobs, probe, recon, lost, used>>

EndCall(c, st) == SetJob(c, st) /\ call' = [call EXCEPT ![c] = IdleCall]

(* The handler gives up when the run was cancelled or belongs to a later   *)
(* generation; a transient failure has the job retried while it may be.    *)
Apply(c) ==
    LET current == run.gen = call[c].gen /\ run.status # "cancelled"
    IN  /\ call[c].pc = "apply"
        /\ \/ current /\ call[c].res = "transient" /\ EndCall(c, "queued")
           \/ current /\ SetCall(c, "record", call[c].res) /\ UNCHANGED jobs
           \/ ~current /\ EndCall(c, "done")
        /\ UNCHANGED <<model, bridge, run, batch, probe, recon, lost, used>>

(* The result is recorded on a run that has not ended, whatever its        *)
(* generation by now; a review carries the identity of its submission      *)
(* (_reconciliation_identity).                                             *)
Record(c) ==
    LET m == call[c].key[1] IN
    /\ call[c].pc = "record"
    /\ run' = IF run.status # "running" THEN run
              ELSE CASE call[c].res = "answer" -> [run EXCEPT !.status = "ready"]
                     [] call[c].res = "reconcile" ->
                          [run EXCEPT !.status = "needs_review", !.code = "reconcile",
                             !.id = IF AwaitsReconciliation(m)
                                    THEN [NoIdentity EXCEPT !.on = TRUE,
                                            !.key = <<m, model[m].attempt>>]
                                    ELSE NoIdentity]
                     [] OTHER -> [run EXCEPT !.status = "needs_review", !.code = "other",
                                    !.id = NoIdentity]
    /\ SetCall(c, "follow", call[c].res)
    /\ UNCHANGED <<model, bridge, batch, jobs, probe, recon, lost, used>>

(* schedule_reconciliation_probe, and the end of the job.                  *)
Follow(c) ==
    /\ call[c].pc = "follow"
    /\ IF call[c].res \in {"reconcile", "transient"} /\ RequiresReconciliation
       THEN ScheduleProbe(0) ELSE UNCHANGED probe
    /\ EndCall(c, "done")
    /\ UNCHANGED <<model, bridge, run, batch, recon, lost, used>>

(* The worker is lost, or stopped: the job is delivered again, unless it   *)
(* was its last attempt (a transient failure is recorded only then).  A    *)
(* handler stopped before the POST withdraws its claim.                    *)
LoseCall(c) ==
    LET m == call[c].key[1]
        last == call[c].pc \in {"record", "follow"} /\ call[c].res = "transient"
    IN  /\ call[c].pc # "idle" /\ used.crash < MaxCrashes
        /\ \/ UNCHANGED model
           \/ /\ call[c].pc = "invoke"
              /\ model[m].status = "running" /\ model[m].sub = "unknown"
              /\ model' = [model EXCEPT ![m].sub = "not_submitted"]
        /\ EndCall(c, IF last THEN "done" ELSE "queued")
        /\ used' = [used EXCEPT !.crash = @ + 1]
        /\ UNCHANGED <<bridge, run, batch, probe, recon, lost>>

(* The lease of a job lapses while its handler still runs.                 *)
LapseLease(c) ==
    /\ call[c].pc # "idle" /\ call[c].leased /\ used.lapse < MaxLapses
    /\ SetJob(c, "queued")
    /\ call' = [call EXCEPT ![c].leased = FALSE]
    /\ used' = [used EXCEPT !.lapse = @ + 1]
    /\ UNCHANGED <<model, bridge, run, batch, probe, recon, lost>>

-----------------------------------------------------------------------------
(* The Bridge (external).                                                  *)

BridgeStep(k) ==
    /\ \/ bridge[k] \in {"pending", "stalled"} /\ bridge' = [bridge EXCEPT ![k] = "answered"]
       \/ /\ bridge[k] = "pending" /\ BridgeStalls
          /\ bridge' = [bridge EXCEPT ![k] = "stalled"]
       \/ bridge[k] = "pending" /\ bridge' = [bridge EXCEPT ![k] = "closed"]
       \/ /\ bridge[k] = "none" /\ run.id.key = k   \* verified_no_answer for a key never seen
          /\ bridge' = [bridge EXCEPT ![k] = "closed"]
    /\ UNCHANGED <<model, run, batch, jobs, probe, call, recon, lost, used>>

-----------------------------------------------------------------------------
(* ProductionReconciliationResolver, the probe job and the API requests.   *)

SetRecon(r, pc) == recon' = [recon EXCEPT ![r].pc = pc]

(* The requests end; a probe job ends with them.                           *)
EndRecon(r) ==
    /\ recon' = [recon EXCEPT ![r] = IdleRecon]
    /\ probe' = IF recon[r].kind = "job"
                THEN [probe EXCEPT ![recon[r].probe] = "done"] ELSE probe

(* A probe job is delivered, or an analyst asks for a probe, on its own or *)
(* to declare the submission lost.  resolve reads the run once.            *)
StartProbe(r, kind) ==
    /\ recon[r].pc = "idle"
    /\ \/ /\ kind = "job"
          /\ \E a \in Probes :
               /\ probe[a] = "queued"
               /\ probe' = [probe EXCEPT ![a] = "running"]
               /\ recon' = [recon EXCEPT ![r] =
                     [IdleRecon EXCEPT !.kind = kind, !.probe = a, !.key = run.id.key,
                        !.pc = IF RequiresReconciliation THEN "retrieve" ELSE "undecided"]]
       \/ /\ kind \in {"api", "lost"} /\ RequiresReconciliation
          /\ recon' = [recon EXCEPT ![r] =
                [IdleRecon EXCEPT !.kind = kind, !.key = run.id.key, !.pc = "retrieve"]]
          /\ UNCHANGED probe
    /\ UNCHANGED <<model, bridge, run, batch, jobs, call, lost, used>>

(* What the Bridge says of the key: an answer, a failure taken as final,   *)
(* or nothing that settles it.                                             *)
Retrieve(r) ==
    /\ recon[r].pc = "retrieve"
    /\ \/ /\ bridge[recon[r].key] = "answered"
          /\ recon' = [recon EXCEPT ![r].pc = "adopt", ![r].text = AnswerTo(recon[r].key)]
       \/ /\ \/ bridge[recon[r].key] = "closed"
             \/ bridge[recon[r].key] = "stalled" /\ StalledRetryable
          /\ SetRecon(r, "release")
       \/ SetRecon(r, "undecided")
    /\ UNCHANGED <<model, bridge, run, batch, jobs, probe, call, lost, used>>

AdoptAnswer_Mutant(r) ==
    LET m == recon[r].key[1] IN
    /\ recon[r].pc = "adopt"
    /\ model' = [model EXCEPT ![m] = IF @.out = NoText THEN Succeed(@, recon[r].text) ELSE @]
    /\ SetRecon(r, "resume")
    /\ UNCHANGED <<bridge, run, batch, jobs, probe, call, lost, used>>

(* The answer is archived on the exact ModelRun, unless it already is.     *)
AdoptAnswer(r) ==
    LET m == recon[r].key[1] IN
    /\ recon[r].pc = "adopt"
    /\ \/ /\ model[m].out # NoText
          /\ SetRecon(r, IF model[m].out = recon[r].text THEN "resume" ELSE "undecided")
          /\ UNCHANGED <<model, probe>>
       \/ /\ model[m].out = NoText /\ model[m].status = "needs_review"
          /\ model' = [model EXCEPT ![m] = Succeed(@, recon[r].text)]
          /\ SetRecon(r, "resume")
          /\ UNCHANGED probe
       \/ /\ model[m].out = NoText /\ model[m].status # "needs_review"
          /\ EndRecon(r)
          /\ UNCHANGED model
    /\ UNCHANGED <<bridge, run, batch, jobs, call, lost, used>>

(* adopt_reconciliation_output and resume_reconciled.                      *)
ResumedRun(text, prov) ==
    [run EXCEPT !.status = "running", !.code = "none", !.id.out = text, !.id.prov = prov]

(* The run continues in its generation, if the batch lets it.              *)
ResumeRun(r) ==
    /\ recon[r].pc = "resume"
    /\ \/ /\ RequiresReconciliation /\ batch = "open"
          /\ run.id.key[1] = recon[r].key[1]
          /\ run' = ResumedRun(recon[r].text, "automatic")
          /\ recon' = [recon EXCEPT ![r].pc = "dispatch", ![r].job = "resume"]
       \/ /\ ~(RequiresReconciliation /\ batch = "open" /\ run.id.key[1] = recon[r].key[1])
          /\ SetRecon(r, "undecided")
          /\ UNCHANGED run
    /\ UNCHANGED <<model, bridge, batch, jobs, probe, call, lost, used>>

(* _release closes the submission the run holds now, on the word of the    *)
(* Bridge or of the analyst, unless its answer is on file.                 *)
Releasable(m) ==
    /\ RequiresReconciliation
    /\ model[m].out = NoText /\ model[m].status = "needs_review"

Release(r) ==
    LET m == run.id.key[1] IN
    /\ recon[r].pc = "release"
    /\ \/ /\ Releasable(m)
          /\ model' = [model EXCEPT ![m] = Reopened(@)]
          /\ run' = [run EXCEPT !.code = "unavailable", !.id = NoIdentity]
          /\ IF recon[r].kind = "job" THEN SetRecon(r, "retry") /\ UNCHANGED probe
             ELSE EndRecon(r)
       \/ /\ ~Releasable(m)
          /\ SetRecon(r, "undecided")
          /\ UNCHANGED <<model, run, probe>>
    /\ UNCHANGED <<bridge, batch, jobs, call, lost, used>>

(* release_declared_lost.                                                  *)
DeclareLost(r) ==
    LET m == run.id.key[1] IN
    /\ recon[r].pc = "declare"
    /\ IF Releasable(m)
       THEN /\ model' = [model EXCEPT ![m] = Fail(@, @.sub, "abandoned")]
            /\ run' = [run EXCEPT !.code = "lost", !.id = NoIdentity]
            /\ lost' = lost \union {run.id.key}
       ELSE UNCHANGED <<model, run, lost>>
    /\ EndRecon(r)
    /\ UNCHANGED <<bridge, batch, jobs, call, used>>

(* Nothing was decided: the analyst's declaration stands, and a probe job  *)
(* dispatches a run another probe resumed, or schedules the next probe.    *)
Undecided(r) ==
    /\ recon[r].pc = "undecided"
    /\ CASE recon[r].kind = "lost" -> SetRecon(r, "declare") /\ UNCHANGED probe
         [] recon[r].kind = "api" -> EndRecon(r)
         [] OTHER ->
              IF /\ run.status = "running" /\ run.code = "none"
                 /\ run.id.out # NoText /\ run.id.prov = "automatic"
              THEN recon' = [recon EXCEPT ![r].pc = "dispatch", ![r].job = "resume"]
                   /\ UNCHANGED probe
              ELSE /\ recon' = [recon EXCEPT ![r] = IdleRecon]
                   /\ LET a == recon[r].probe
                          ended == [probe EXCEPT ![a] = "done"]
                      IN  probe' = IF /\ RequiresReconciliation /\ a + 1 \in Probes
                                      /\ batch # "paused" /\ probe[a + 1] = "none"
                                   THEN [ended EXCEPT ![a + 1] = "queued"] ELSE ended
    /\ UNCHANGED <<model, bridge, run, batch, jobs, call, lost, used>>

(* The verified reemission: retry_from_stage, automatic.                   *)
Reemit(r) ==
    /\ recon[r].pc = "retry"
    /\ \/ /\ run.status = "needs_review" /\ run.code = "unavailable" /\ batch = "open"
          /\ run.reemitted < ReemissionLimit /\ run.gen < MaxGeneration
          /\ run' = [NextGeneration EXCEPT !.reemitted = @ + 1]
          /\ recon' = [recon EXCEPT ![r].pc = "dispatch", ![r].job = "stage"]
          /\ UNCHANGED probe
       \/ /\ \/ run.status # "needs_review" \/ run.code # "unavailable" \/ batch # "open"
             \/ run.reemitted = ReemissionLimit \/ run.gen = MaxGeneration
          /\ EndRecon(r)
          /\ UNCHANGED run
    /\ UNCHANGED <<model, bridge, batch, jobs, call, lost, used>>

(* The job of the resumed or retried run is handed over, or not: a probe   *)
(* job leaves a paused or stopped run alone and a probe request checks the *)
(* batch once more; the job of an adoption a later generation has overrun  *)
(* would only be refused.                                                  *)
MayDispatch(r) ==
    CASE recon[r].kind = "job" -> run.status = "running" /\ batch # "paused"
      [] recon[r].kind = "operator" -> run.id.out = recon[r].text
      [] OTHER -> run.status = "running" /\ batch = "open"

Dispatch(r) ==
    /\ recon[r].pc = "dispatch"
    /\ IF MayDispatch(r) /\ (recon[r].job = "resume" => run.id.out # NoText)
       THEN Submit(recon[r].job, run.gen)
       ELSE UNCHANGED jobs
    /\ EndRecon(r)
    /\ UNCHANGED <<model, bridge, run, batch, call, lost, used>>

-----------------------------------------------------------------------------
(* ProductionReconciliationService: an analyst supplies the answer, seen   *)
(* in the provider's page or typed.                                        *)

(* _load_review and the fences: the review as it stands, or an adoption to *)
(* repeat.                                                                 *)
StartAdoption(r, text) ==
    LET m == run.id.key[1] IN
    /\ run.id.on /\ recon[r].pc = "idle" /\ batch = "open" /\ text.key = run.id.key
    /\ text.by = "bridge" => bridge[text.key] = "answered"
    /\ \/ /\ RequiresReconciliation
          /\ model[m].status = "needs_review" /\ AwaitsReconciliation(m)
       \/ /\ run.status \in {"running", "ready"}
          /\ run.id.out # NoText /\ run.id.prov = "operator"
    /\ recon' = [recon EXCEPT ![r] = [IdleRecon EXCEPT !.kind = "operator",
                    !.key = run.id.key, !.text = text, !.pc = "import"]]
    /\ UNCHANGED <<model, bridge, run, batch, jobs, probe, call, lost, used>>

(* adopt_recovery_output, with what an operator may overrule.              *)
ImportAnswer(r) ==
    LET m == recon[r].key[1] IN
    /\ recon[r].pc = "import"
    /\ \/ /\ model[m].status \in {"needs_review", "failed"}
          /\ model' = [model EXCEPT ![m] = Succeed(@, recon[r].text)]
          /\ SetRecon(r, "reopen")
       \/ /\ model[m].status \notin {"needs_review", "failed"}
          /\ IF model[m].out = recon[r].text THEN SetRecon(r, "reopen")
             ELSE recon' = [recon EXCEPT ![r] = IdleRecon]
          /\ UNCHANGED model
    /\ UNCHANGED <<bridge, run, batch, jobs, probe, call, lost, used>>

(* _resume_and_schedule, its transaction.                                  *)
ReopenRun(r) ==
    LET m == recon[r].key[1]
        same == /\ batch = "open" /\ run.id.on /\ run.id.key[1] = m
                /\ model[m].status = "succeeded" /\ model[m].out = recon[r].text
                /\ \/ run.id.out = NoText
                   \/ run.id.out = recon[r].text /\ run.id.prov = "operator"
    IN  /\ recon[r].pc = "reopen"
        /\ IF same /\ (RequiresReconciliation \/ run.status = "running")
           THEN /\ run' = ResumedRun(recon[r].text, "operator")
                /\ recon' = [recon EXCEPT ![r].pc = "dispatch", ![r].job = "resume"]
           ELSE /\ recon' = [recon EXCEPT ![r] = IdleRecon]
                /\ UNCHANGED run
        /\ UNCHANGED <<model, bridge, batch, jobs, probe, call, lost, used>>

(* The process of a probe or of a request is lost.                         *)
LoseRecon(r) ==
    /\ recon[r].pc # "idle" /\ used.drop < MaxDrops
    /\ EndRecon(r)
    /\ used' = [used EXCEPT !.drop = @ + 1]
    /\ UNCHANGED <<model, bridge, run, batch, jobs, call, lost>>

-----------------------------------------------------------------------------
(* Requests on the run, and its batch.                                     *)

(* An analyst's retry, with its job.                                       *)
RetryRun ==
    /\ run.status \in {"needs_review", "ready"} /\ ~RequiresReconciliation
    /\ batch = "open" /\ run.gen < MaxGeneration
    /\ run' = NextGeneration
    /\ Submit("stage", run.gen + 1)
    /\ UNCHANGED <<model, bridge, batch, probe, call, recon, lost, used>>

(* The jobs of a cancelled run are cancelled with it.                      *)
CancelRun ==
    /\ run.status = "running" /\ used.cancel < MaxCancels
    /\ run' = [run EXCEPT !.status = "cancelled"]
    /\ jobs' = [j \in JobKeys |-> IF jobs[j] = "queued" THEN "done" ELSE jobs[j]]
    /\ used' = [used EXCEPT !.cancel = @ + 1]
    /\ UNCHANGED <<model, bridge, batch, probe, call, recon, lost>>

ResumeCancelled ==
    /\ run.status = "cancelled" /\ run.gen < MaxGeneration /\ batch = "open"
    /\ run.id.on => run.id.out # NoText
    /\ run' = NextGeneration
    /\ Submit("stage", run.gen + 1)
    /\ UNCHANGED <<model, bridge, batch, probe, call, recon, lost, used>>

(* The batch is paused or resumed, or another subject has its turn.        *)
TurnBatch ==
    /\ used.turn < MaxTurns
    /\ \E b \in {"open", "busy", "paused"} \ {batch} : batch' = b
    /\ used' = [used EXCEPT !.turn = @ + 1]
    /\ UNCHANGED <<model, bridge, run, jobs, probe, call, recon, lost>>

-----------------------------------------------------------------------------
CallStep(c) ==
    \/ \E j \in JobKeys : StartStage(c, j[1], j[2])
    \/ Claim(c) \/ Post(c) \/ Receive(c) \/ ReopenAfterTerminalFailure(c)
    \/ Settle(c) \/ Apply(c) \/ Record(c) \/ Follow(c)

ReconStep(r) ==
    \/ Retrieve(r) \/ AdoptAnswer(r) \/ ResumeRun(r) \/ Release(r) \/ DeclareLost(r)
    \/ Undecided(r) \/ Reemit(r) \/ Dispatch(r) \/ ImportAnswer(r) \/ ReopenRun(r)

AnalystStep(r) ==
    \/ \E kind \in {"api", "lost"} : StartProbe(r, kind)
    \/ \E by \in {"bridge", "analyst"} : StartAdoption(r, [by |-> by, key |-> run.id.key])

Next ==
    \/ \E c \in Callers : CallStep(c) \/ LoseCall(c) \/ LapseLease(c)
    \/ \E k \in Keys : BridgeStep(k)
    \/ \E r \in Reconcilers :
          StartProbe(r, "job") \/ ReconStep(r) \/ AnalystStep(r) \/ LoseRecon(r)
    \/ RetryRun \/ CancelRun \/ ResumeCancelled \/ TurnBatch

Spec == Init /\ [][Next]_vars

(* Handlers and requests under way go on, and queued jobs are delivered;   *)
(* analysts, the Bridge, losses and the batch are free.                    *)
FairSpec ==
    /\ Spec
    /\ \A c \in Callers : WF_vars(CallStep(c))
    /\ \A r \in Reconcilers : WF_vars(ReconStep(r)) /\ WF_vars(StartProbe(r, "job"))

-----------------------------------------------------------------------------
(* Properties.                                                             *)

(* A submission is unresolved while the Bridge holds it, or may still      *)
(* answer it, and its ModelRun has no answer on file; a declared loss      *)
(* takes it out of account.                                                *)
Unresolved(k) ==
    /\ bridge[k] \in {"pending", "stalled", "answered"}
    /\ k \notin lost
    /\ model[k[1]].out = NoText

(* model_gateway.md: while a submission may still be answered and no answer *)
(* of its ModelRun is on file, the prompt is submitted to no other.  The   *)
(* code does not keep it as it stands: a submission whose failure the      *)
(* Bridge calls retryable without its proof is released                    *)
(* (StalledRetryable), and README, section 5, has the ways of the later    *)
(* generations and of a lapsed lease.                                      *)
OneUnresolvedSubmission ==
    \A k, l \in Keys : Unresolved(k) /\ Unresolved(l) => k = l

(* What it does keep when the Bridge's retryable failures carry their      *)
(* proof: until the run is first reopened, and as long as no job is        *)
(* delivered again while it still executes, however lost workers,          *)
(* redeliveries, retries after a final failure, cancellations, probes,     *)
(* declarations of loss and adoptions meet.                                *)
FirstGenerationSubmitsOnce ==
    run.gen = 0 /\ used.lapse = 0 => OneUnresolvedSubmission

(* A production run that continues on an adopted answer continues on the   *)
(* bytes archived for the exact ModelRun, whoever adopted them.            *)
ResumedAnswerIsArchived ==
    run.id.out # NoText => model[run.id.key[1]].out = run.id.out

(* An answer on file is never replaced, and its ModelRun never submits     *)
(* again, whatever a late call, a stale probe or a declared loss says.     *)
ArchivedAnswerStays ==
    [][\A m \in Models : model[m].out # NoText => model'[m] = model[m]]_vars

-----------------------------------------------------------------------------
(* What the repository says and the code does not keep (README, section 5). *)

(* A run resumed with the answer a probe adopted gets to use it: it does   *)
(* not stay RUNNING without a job (schedule_resume_after_automatic_        *)
(* adoption).                                                              *)
AutomaticAnswerIsUsed ==
    (run.status = "running" /\ run.id.prov = "automatic") ~> run.status # "running"

(* A run that waits for reconciliation can be brought on: a probe can      *)
(* adopt the answer or an analyst can, or the submission can be declared   *)
(* lost.                                                                   *)
Reconcilable ==
    LET m == run.id.key[1] IN
    RequiresReconciliation /\ (\A r \in Reconcilers : recon[r].pc = "idle") =>
        \/ model[m].status = "needs_review"
        \/ model[m].out = AnswerTo(run.id.key)
=============================================================================
