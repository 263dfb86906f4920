-------------------------- MODULE ProductionBatch ---------------------------
(***************************************************************************)
(* The production of one edition batch: the batch, its ordered items, the  *)
(* run of every item, the chain of stage jobs that moves a run through the *)
(* pipeline, and the analysts' requests (start, pause, resume, cancel,     *)
(* retry, resume of a cancelled run, restart with new sources).            *)
(*                                                                         *)
(* One transaction is one action.  A stage handler is a sequence of them,  *)
(* with the execution of the stage in the middle; a request commits first  *)
(* and hands its jobs over afterwards.  Other handlers and requests run in *)
(* between.  A job that is queued can be claimed: module Jobs shows that a *)
(* queued job is delivered.  Submissions whose answer is uncertain are the *)
(* subject of module ModelSubmission.                                      *)
(***************************************************************************)
EXTENDS Integers, Sequences, FiniteSetsExt

CONSTANTS
    Order,          \* the subjects, in the order of the request's payload
    LastStage,      \* ASSEMBLY; the stages are 1..LastStage
    MaxAttempts,    \* PRODUCTION_STAGE_MAX_ATTEMPTS
    Clients,        \* concurrent API requests
    MaxRequests,    \* bound: requests made
    MaxGeneration,  \* bound: pipeline generations of a run
    MaxRestarts,    \* bound: replacement runs of a subject
    MaxCrashes,     \* bound: workers lost
    MaxAborts       \* bound: API processes lost

ASSUME ProductionAssumption ==
    /\ Order \in Seq(STRING) /\ Len(Order) > 0
    /\ \A i, j \in DOMAIN Order : Order[i] = Order[j] => i = j
    /\ LastStage \in Nat \ {0} /\ MaxAttempts \in Nat \ {0}
    /\ MaxRequests \in Nat /\ MaxGeneration \in Nat /\ MaxRestarts \in Nat
    /\ MaxCrashes \in Nat /\ MaxAborts \in Nat

Subjects == {Order[i] : i \in DOMAIN Order}
Stages == 1..LastStage
RunIds == Subjects \X (0..MaxRestarts)      \* <<subject, replacement>>
JobKeys == RunIds \X Stages \X (0..MaxGeneration)
NoRun == <<>>

VARIABLES
    batch,      \* the EditionProductionBatch
    item,       \* EditionProductionBatchItem of each subject
    run,        \* the rows of ProductionRun
    jobs,       \* the stage jobs and, in pc, what their handler is doing
    client,     \* what each API request has still to do
    requests,   \* how many requests were made
    crashes,    \* workers lost so far
    aborts      \* API processes lost so far

vars == <<batch, item, run, jobs, client, requests, crashes, aborts>>

-----------------------------------------------------------------------------
(* Types.                                                                  *)

ActiveRunStatuses == {"queued", "running"}
TerminalStatuses == {"ready", "needs_review", "failed", "cancelled"}
Dispatchable == {"queued", "running"}
Finished == {"completed", "completed_with_issues"}
BatchStatus == Dispatchable \union Finished \union {"absent", "paused", "cancelled"}

(* Error codes matter only as members of AUTO_ERROR_CODES or not.          *)
ErrorCodes == {"none", "auto", "manual"}
Outcomes == {"none", "success", "transient", "review", "failed"}

HandlerPcs == {"none", "fence", "begin", "work", "judge", "apply", "chain",
               "advance", "handoff", "finalize", "lost"}
ClientPcs == {"idle", "initial", "first", "sweep", "terminal", "handoff",
              "dispatch", "submit", "start", "started"}

Job == [st : {"absent", "queued", "running", "done"}, attempt : 0..MaxAttempts,
        cancel : BOOLEAN, pc : HandlerPcs, gen : 0..MaxGeneration,
        out : Outcomes, err : ErrorCodes, exit : {"succeed", "finalize", "fail"},
        next : RunIds \union {NoRun}, stage : Stages]

NoHandler == [st |-> "absent", attempt |-> 0, cancel |-> FALSE, pc |-> "none",
              gen |-> 0, out |-> "none", err |-> "none", exit |-> "succeed",
              next |-> NoRun, stage |-> 1]

QueuedJob == [NoHandler EXCEPT !.st = "queued"]
DoneJob == [NoHandler EXCEPT !.st = "done"]     \* succeeded, failed or cancelled

IdleClient == [pc |-> "idle", run |-> NoRun, stage |-> 1, gen |-> 0,
               runs |-> {}, changed |-> FALSE]

TypeOK ==
    /\ batch \in [status : BatchStatus, phase : {"initial", "recovery", "review"},
                  started : BOOLEAN]
    /\ item \in [Subjects -> [run : 0..MaxRestarts, auto : 0..1]]
    /\ run \in [RunIds -> [status : ActiveRunStatuses \union TerminalStatuses
                                    \union {"absent"},
                           stage : Stages, gen : 0..MaxGeneration,
                           err : ErrorCodes]]
    /\ jobs \in [JobKeys -> Job]
    /\ client \in [Clients -> [pc : ClientPcs, run : RunIds \union {NoRun},
                               stage : Stages, gen : 0..MaxGeneration,
                               runs : SUBSET RunIds, changed : BOOLEAN]]
    /\ requests \in 0..MaxRequests
    /\ crashes \in 0..MaxCrashes
    /\ aborts \in 0..MaxAborts

Init ==
    /\ batch = [status |-> "absent", phase |-> "initial", started |-> FALSE]
    /\ item = [s \in Subjects |-> [run |-> 0, auto |-> 0]]
    /\ run = [r \in RunIds |-> [status |-> "absent", stage |-> 1, gen |-> 0,
                                err |-> "none"]]
    /\ jobs = [k \in JobKeys |-> NoHandler]
    /\ client = [c \in Clients |-> IdleClient]
    /\ requests = 0
    /\ crashes = 0
    /\ aborts = 0

-----------------------------------------------------------------------------
(* The domain: EditionProductionBatch, its items and ProductionRun.        *)

ItemRun(s) == <<s, item[s].run>>

(* get_by_run: the item that points at a run; a replaced run has none.     *)
Attached(r) == batch.status # "absent" /\ item[r[1]].run = r[2]

StartRunning(x) == [x EXCEPT !.status = "running"]
MarkCancelled(x) == [x EXCEPT !.status = "cancelled"]
MarkNeedsReview(x, code) == [x EXCEPT !.status = "needs_review", !.err = code]
MarkFailed(x, code) == [x EXCEPT !.status = "failed", !.err = code]
MarkReady(x) == [x EXCEPT !.status = "ready"]

(* ProductionRun.retry_from_stage and resume_after_cancellation: the same  *)
(* row, in a new pipeline generation.                                      *)
NewGeneration(x, s) ==
    [status |-> "running", stage |-> s, gen |-> x.gen + 1, err |-> "none"]

StartBatch(b) ==
    IF b.status = "queued" THEN [b EXCEPT !.status = "running", !.started = TRUE] ELSE b

FinishBatch(b, issues) ==
    [b EXCEPT !.phase = "review",
              !.status = IF issues THEN "completed_with_issues" ELSE "completed"]

EnterRecovery(b) == IF b.phase = "initial" THEN [b EXCEPT !.phase = "recovery"] ELSE b

ResumedBatch(b) ==
    IF b.status = "paused"
    THEN [b EXCEPT !.status = IF b.started THEN "running" ELSE "queued"] ELSE b

OpenReviewRecovery(b) ==
    IF b.status \in Finished
    THEN [status |-> "running", phase |-> "review", started |-> TRUE] ELSE b

(* ProductionRecoveryPolicyV1.eligible.                                    *)
Eligible(s) ==
    /\ item[s].auto = 0
    /\ run[ItemRun(s)].status \in {"failed", "needs_review"}
    /\ run[ItemRun(s)].err = "auto"

-----------------------------------------------------------------------------
(* ProductionBatchService.                                                 *)

FirstSubject(S) == Order[Min({i \in DOMAIN Order : Order[i] \in S})]

(* What a transaction writes, the run it hands over, and whether it raised.*)
Wrote(b, i, rs, next) == [batch |-> b, item |-> i, run |-> rs, next |-> next,
                          raised |-> FALSE]
Raised == [batch |-> batch, item |-> item, run |-> run, next |-> NoRun,
           raised |-> TRUE]

(* A cancelled batch cancels what is still queued.                         *)
CancelQueued ==
    [r \in RunIds |-> IF Attached(r) /\ run[r].status = "queued"
                      THEN MarkCancelled(run[r]) ELSE run[r]]

StartNext_Mutant(active) ==
    LET queued == {s \in active : run[ItemRun(s)].status = "queued"}
        first == ItemRun(FirstSubject(queued)) IN
    IF queued # {}
    THEN Wrote(StartBatch(batch), item,
               [run EXCEPT ![first] = StartRunning(@)], first)
    ELSE Wrote(batch, item, run, ItemRun(FirstSubject(active)))

(* _start_next_in_uow, when some run of the batch is active: the first one *)
(* in editorial order is left alone if it runs, and started if it waits.   *)
StartNext(active) ==
    LET first == ItemRun(FirstSubject(active)) IN
    IF run[first].status = "queued"
    THEN Wrote(StartBatch(batch), item,
               [run EXCEPT ![first] = StartRunning(@)], first)
    ELSE Wrote(batch, item, run, first)

(* _retry_next_recovery_in_uow: one automatic retry, in editorial order.   *)
RetryNextRecovery(eligible) ==
    LET s == FirstSubject(eligible)
        r == ItemRun(s) IN
    Wrote(EnterRecovery(batch), [item EXCEPT ![s].auto = 1],
          [run EXCEPT ![r] = NewGeneration(@, @.stage)], r)

(* on_subject_terminal.  enter_recovery and finish both refuse a batch     *)
(* that never started.                                                     *)
OnSubjectTerminal ==
    LET active == {s \in Subjects : run[ItemRun(s)].status \in ActiveRunStatuses}
        running == {s \in Subjects : run[ItemRun(s)].status = "running"}
        eligible == {s \in Subjects : Eligible(s) /\ run[ItemRun(s)].gen < MaxGeneration}
        issues == \E s \in Subjects : run[ItemRun(s)].status # "ready" IN
    CASE batch.status = "cancelled" -> Wrote(batch, item, CancelQueued, NoRun)
      [] batch.status = "paused" ->
            Wrote(batch, item, run,
                  IF running = {} THEN NoRun ELSE ItemRun(FirstSubject(running)))
      [] batch.status \notin {"cancelled", "paused"} /\ active # {} -> StartNext(active)
      [] batch.status = "running" /\ active = {}
         /\ batch.phase # "review" /\ eligible # {} -> RetryNextRecovery(eligible)
      [] batch.status = "running" /\ active = {}
         /\ ~(batch.phase # "review" /\ eligible # {}) ->
            Wrote(FinishBatch(batch, issues), item, run, NoRun)
      [] batch.status = "queued" /\ active = {} -> Raised
      [] OTHER -> Wrote(batch, item, run, NoRun)

Write(w) == batch' = w.batch /\ item' = w.item /\ run' = w.run

(* prepare_batch_for_recovery, and the unique index on the active run of a *)
(* subject.                                                                *)
NoActiveRival(r) ==
    \A o \in RunIds : o[1] = r[1] /\ o # r => run[o].status \notin ActiveRunStatuses

RecoveryAllowed(r) ==
    /\ NoActiveRival(r)
    /\ Attached(r) =>
        /\ batch.status \notin {"cancelled", "paused"}
        /\ \A s \in Subjects : ItemRun(s) # r => run[ItemRun(s)].status # "running"

RecoveredBatch_Mutant(r) == batch

RecoveredBatch(r) == IF Attached(r) THEN OpenReviewRecovery(batch) ELSE batch

-----------------------------------------------------------------------------
(* ProductionStageChain.submit and its fences.                             *)

CanDispatch(r) ==
    run[r].status = "running" /\ (Attached(r) => batch.status \in Dispatchable)

BatchIsPaused(r) == Attached(r) /\ batch.status = "paused"

(* JobService.submit: a key that exists is found again, and dispatching a  *)
(* job that has ended changes nothing.                                     *)
Submitted(js, k) == IF js[k].st = "absent" THEN [js EXCEPT ![k] = QueuedJob] ELSE js

(* The job is submitted, then refused by the dispatch fence and cancelled. *)
Withdrawn(js, k) ==
    CASE js[k].st \in {"absent", "queued"} -> [js EXCEPT ![k] = DoneJob]
      [] js[k].st = "running" -> [js EXCEPT ![k].cancel = TRUE]
      [] OTHER -> js

-----------------------------------------------------------------------------
(* The stage handler, handle_stage_with_failure_finalization, of job k =   *)
(* <<run, stage, generation>>.                                             *)

Set(k, j) == jobs' = [jobs EXCEPT ![k] = j]
End(k) == Set(k, DoneJob)
Goto(k, pc) == Set(k, [jobs[k] EXCEPT !.pc = pc])
At(k, pc) == jobs[k].st = "running" /\ jobs[k].pc = pc /\ ~jobs[k].cancel
RunOf(k) == run[k[1]]

OnlyJobs == UNCHANGED <<batch, item, run, client, requests, crashes, aborts>>
OnlyRunAndJobs == UNCHANGED <<batch, item, client, requests, crashes, aborts>>

(* How the handler ends once the batch has been handed over.               *)
AfterHandover(j) ==
    IF j.exit = "finalize"
    THEN [j EXCEPT !.pc = "finalize", !.out = "none", !.next = NoRun]
    ELSE DoneJob

(* An exception of the hand-over: finalized, unless it was raised while    *)
(* finalizing.                                                             *)
AfterException(j) ==
    IF j.exit = "fail" THEN DoneJob
    ELSE [j EXCEPT !.pc = "finalize", !.out = "none", !.next = NoRun, !.err = "manual"]

(* _start: the claim of a queued job is fenced by the pause of the batch.  *)
Claim(k) ==
    /\ jobs[k].st = "queued" /\ ~BatchIsPaused(k[1])
    /\ Set(k, [jobs[k] EXCEPT !.st = "running", !.attempt = @ + 1, !.pc = "fence"])
    /\ OnlyJobs

(* check_cancelled, which every later step but apply begins with.          *)
HonourCancellation(k) ==
    /\ jobs[k].st = "running" /\ jobs[k].cancel
    /\ jobs[k].pc \in HandlerPcs \ {"none", "apply", "lost"}
    /\ End(k)
    /\ OnlyJobs

Stale(k) == RunOf(k).gen # k[3] \/ RunOf(k).status = "cancelled"

OtherStage(k) == RunOf(k).stage # k[2]

(* handle_stage reads the run: a job of another generation or of a         *)
(* cancelled run has nothing to do; a job whose run is at another stage    *)
(* submits that stage again; any other executes, whatever the status.      *)
Fence(k) ==
    LET r == k[1]
        current == <<r, run[r].stage, run[r].gen>> IN
    /\ At(k, "fence")
    /\ \/ Stale(k) /\ End(k)
       \/ /\ ~Stale(k) /\ OtherStage(k)
          /\ RunOf(k).status # "running" \/ BatchIsPaused(r)
          /\ End(k)
       \/ /\ ~Stale(k) /\ OtherStage(k)
          /\ RunOf(k).status = "running" /\ CanDispatch(r)
          /\ jobs' = [Submitted(jobs, current) EXCEPT ![k] = DoneJob]
       \/ /\ ~Stale(k) /\ ~OtherStage(k)
          /\ Goto(k, "begin")
    /\ OnlyJobs

(* execute_stage reads the run again and keeps its generation.             *)
Begin(k) ==
    /\ At(k, "begin")
    /\ \/ RunOf(k).status = "cancelled" /\ Goto(k, "lost")
       \/ /\ RunOf(k).status # "cancelled" /\ RunOf(k).stage # k[2]
          /\ Set(k, [jobs[k] EXCEPT !.pc = "finalize", !.err = "manual"])
       \/ /\ RunOf(k).status # "cancelled" /\ RunOf(k).stage = k[2]
          /\ Set(k, [jobs[k] EXCEPT !.pc = "work", !.gen = RunOf(k).gen])
    /\ OnlyJobs

(* The stage itself.  An outcome outside the retryable and review codes is *)
(* terminal, and none of those is recovered automatically.                 *)
Work(k) ==
    /\ At(k, "work")
    /\ \/ k[2] # LastStage /\ Set(k, [jobs[k] EXCEPT !.pc = "judge", !.out = "success"])
       \/ \E out \in {"transient", "review"}, code \in {"auto", "manual"} :
            Set(k, [jobs[k] EXCEPT !.pc = "judge", !.out = out, !.err = code])
       \/ Set(k, [jobs[k] EXCEPT !.pc = "judge", !.out = "failed", !.err = "manual"])
       \/ Set(k, [jobs[k] EXCEPT !.pc = "finalize", !.err = "manual"])
    /\ OnlyJobs

(* _complete_assembly_after_qa: the verdict is written only while the run  *)
(* still has the route, hence the generation, that was examined.           *)
Assemble(k) ==
    /\ At(k, "work") /\ k[2] = LastStage
    /\ \/ /\ RunOf(k).status = "cancelled"
          /\ Set(k, [jobs[k] EXCEPT !.pc = "judge", !.out = "success"])
          /\ UNCHANGED run
       \/ /\ RunOf(k).status # "cancelled" /\ RunOf(k).gen # jobs[k].gen
          /\ Set(k, [jobs[k] EXCEPT !.pc = "judge", !.out = "review", !.err = "manual"])
          /\ UNCHANGED run
       \/ /\ RunOf(k).status # "cancelled" /\ RunOf(k).gen = jobs[k].gen
          /\ Set(k, [jobs[k] EXCEPT !.pc = "judge", !.out = "success"])
          /\ run' = [run EXCEPT ![k[1]] = MarkReady(@)]
       \/ /\ RunOf(k).status # "cancelled" /\ RunOf(k).gen = jobs[k].gen
          /\ Set(k, [jobs[k] EXCEPT !.pc = "judge", !.out = "review", !.err = "manual"])
          /\ run' = [run EXCEPT ![k[1]] = MarkNeedsReview(@, "manual")]
    /\ OnlyRunAndJobs

(* The checks after the execution: _check_cancellation leaves the job      *)
(* running with nobody executing it, handle_stage ends it as superseded.   *)
Judge(k) ==
    /\ At(k, "judge")
    /\ \/ /\ RunOf(k).status = "cancelled" \/ RunOf(k).gen # jobs[k].gen
          /\ Goto(k, "lost")
       \/ /\ RunOf(k).status # "cancelled" /\ RunOf(k).gen = jobs[k].gen
          /\ IF Stale(k) THEN End(k) ELSE Goto(k, "apply")
    /\ OnlyJobs

Exhausted(j) == j.out = "transient" /\ j.attempt >= MaxAttempts

Ending(k, x) ==
    [jobs[k] EXCEPT !.pc = "advance", !.out = "none", !.exit = x, !.gen = 0,
                    !.err = IF x = "succeed" THEN "none" ELSE @]

(* A transient failure goes back to the queue while attempts are left.     *)
ApplyTransient(k) ==
    /\ jobs[k].st = "running" /\ jobs[k].pc = "apply"
    /\ jobs[k].out = "transient" /\ ~Exhausted(jobs[k])
    /\ Set(k, IF jobs[k].cancel \/ RunOf(k).status = "cancelled" THEN DoneJob
              ELSE [QueuedJob EXCEPT !.attempt = jobs[k].attempt])
    /\ OnlyJobs

ApplyReview_Mutant(k) ==
    /\ jobs[k].st = "running" /\ jobs[k].pc = "apply"
    /\ jobs[k].out = "review" \/ Exhausted(jobs[k])
    /\ run' = [run EXCEPT ![k[1]] =
                  IF @.status \in TerminalStatuses THEN @
                  ELSE MarkNeedsReview(@, jobs[k].err)]
    /\ End(k)
    /\ OnlyRunAndJobs

(* The run waits for an analyst.                                           *)
ApplyReview(k) ==
    /\ jobs[k].st = "running" /\ jobs[k].pc = "apply"
    /\ jobs[k].out = "review" \/ Exhausted(jobs[k])
    /\ run' = [run EXCEPT ![k[1]] =
                  IF @.status \in TerminalStatuses THEN @
                  ELSE MarkNeedsReview(@, jobs[k].err)]
    /\ Set(k, Ending(k, "succeed"))
    /\ OnlyRunAndJobs

ApplyFailed(k) ==
    /\ jobs[k].st = "running" /\ jobs[k].pc = "apply" /\ jobs[k].out = "failed"
    /\ run' = [run EXCEPT ![k[1]] =
                  IF @.status \in TerminalStatuses THEN @
                  ELSE MarkFailed(@, jobs[k].err)]
    /\ Set(k, Ending(k, "finalize"))
    /\ OnlyRunAndJobs

(* ASSEMBLY has already written the run; any other stage advances a run    *)
(* that is still running (or, after SYNTHESIS without an adopted route,    *)
(* leaves it to an analyst) and leaves the others as they are.             *)
ApplySuccess(k) ==
    /\ jobs[k].st = "running" /\ jobs[k].pc = "apply" /\ jobs[k].out = "success"
    /\ \/ k[2] = LastStage /\ Set(k, Ending(k, "succeed")) /\ UNCHANGED run
       \/ k[2] # LastStage /\ RunOf(k).status # "running" /\ End(k) /\ UNCHANGED run
       \/ /\ k[2] # LastStage /\ RunOf(k).status = "running"
          /\ run' = [run EXCEPT ![k[1]] = MarkNeedsReview(@, "manual")]
          /\ Set(k, Ending(k, "succeed"))
       \/ /\ k[2] # LastStage /\ RunOf(k).status = "running"
          /\ LET next == IF RunOf(k).stage < LastStage THEN RunOf(k).stage + 1
                         ELSE LastStage IN
             /\ run' = [run EXCEPT ![k[1]].stage = next]
             /\ Set(k, [jobs[k] EXCEPT !.pc = "chain", !.out = "none", !.gen = 0,
                                    !.stage = next])
    /\ OnlyRunAndJobs

(* The job of the next stage is submitted and dispatched.                  *)
Chain(k) ==
    LET r == k[1]
        next == <<r, jobs[k].stage, run[r].gen>> IN
    /\ At(k, "chain")
    /\ \/ (run[r].status = "cancelled" \/ BatchIsPaused(r)) /\ End(k)
       \/ /\ CanDispatch(r)
          /\ jobs' = [Submitted(jobs, next) EXCEPT ![k] = DoneJob]
       \/ /\ run[r].status # "cancelled" /\ ~BatchIsPaused(r) /\ ~CanDispatch(r)
          /\ jobs' = [Withdrawn(jobs, next) EXCEPT ![k] = AfterException(jobs[k])]
    /\ OnlyJobs

(* advance_batch, on every terminal outcome.                               *)
Advance(k) ==
    /\ At(k, "advance")
    /\ \/ /\ RunOf(k).status = "cancelled" \/ ~Attached(k[1])
          /\ Set(k, AfterHandover(jobs[k]))
          /\ UNCHANGED <<batch, item, run>>
       \/ /\ RunOf(k).status # "cancelled" /\ Attached(k[1])
          /\ LET w == OnSubjectTerminal IN
             /\ Write(w)
             /\ Set(k, CASE w.raised -> AfterException(jobs[k])
                         [] ~w.raised /\ w.next = NoRun -> AfterHandover(jobs[k])
                         [] OTHER -> [jobs[k] EXCEPT !.pc = "handoff", !.next = w.next])
    /\ UNCHANGED <<client, requests, crashes, aborts>>

(* The run that was started is dispatched, outside the transaction.        *)
Handoff(k) ==
    LET to == jobs[k].next
        next == <<to, run[to].stage, run[to].gen>>
        rest == AfterHandover(jobs[k]) IN
    /\ At(k, "handoff")
    /\ \/ (run[to].status = "cancelled" \/ BatchIsPaused(to)) /\ Set(k, rest)
       \/ CanDispatch(to) /\ jobs' = [Submitted(jobs, next) EXCEPT ![k] = rest]
       \/ /\ run[to].status # "cancelled" /\ ~BatchIsPaused(to) /\ ~CanDispatch(to)
          /\ jobs' = [Withdrawn(jobs, next) EXCEPT ![k] = AfterException(jobs[k])]
    /\ OnlyJobs

Finalize_Mutant(k) ==
    /\ At(k, "finalize")
    /\ Set(k, Ending(k, "fail"))
    /\ run' = [run EXCEPT ![k[1]] = MarkFailed(@, jobs[k].err)]
    /\ OnlyRunAndJobs

(* finalize_unexpected_stage_failure.                                      *)
Finalize(k) ==
    /\ At(k, "finalize")
    /\ \/ RunOf(k).status \in TerminalStatuses /\ End(k) /\ UNCHANGED run
       \/ /\ RunOf(k).status \notin TerminalStatuses
          /\ Set(k, [Ending(k, "fail") EXCEPT !.err = "none"])
          /\ run' = [run EXCEPT ![k[1]] = MarkFailed(@, jobs[k].err)]
    /\ OnlyRunAndJobs

(* The worker dies; its lease expires ...                                  *)
Crash(k) ==
    /\ jobs[k].st = "running" /\ jobs[k].pc # "lost"
    /\ crashes < MaxCrashes
    /\ crashes' = crashes + 1
    /\ Set(k, [NoHandler EXCEPT !.st = "running", !.attempt = jobs[k].attempt,
                                !.cancel = jobs[k].cancel, !.pc = "lost"])
    /\ UNCHANGED <<batch, item, run, client, requests, aborts>>

Recover_Mutant(k) ==
    /\ jobs[k].st = "running" /\ jobs[k].pc = "lost" /\ ~BatchIsPaused(k[1])
    /\ Set(k, IF jobs[k].cancel THEN DoneJob
              ELSE [QueuedJob EXCEPT !.attempt = jobs[k].attempt])
    /\ OnlyJobs

(* ... and recover_abandoned queues the job again, at the same attempt.    *)
Recover(k) ==
    /\ jobs[k].st = "running" /\ jobs[k].pc = "lost" /\ ~BatchIsPaused(k[1])
    /\ Set(k, IF jobs[k].cancel THEN DoneJob
              ELSE [QueuedJob EXCEPT !.attempt = jobs[k].attempt - 1])
    /\ OnlyJobs

Handler(k) ==
    \/ Claim(k) \/ HonourCancellation(k) \/ Fence(k) \/ Begin(k) \/ Work(k)
    \/ Assemble(k) \/ Judge(k) \/ ApplyTransient(k) \/ ApplyReview(k)
    \/ ApplyFailed(k) \/ ApplySuccess(k) \/ Chain(k) \/ Advance(k) \/ Handoff(k)
    \/ Finalize(k) \/ Recover(k)

-----------------------------------------------------------------------------
(* The requests.  Each starts with a transaction that holds the edition.   *)

Request(c) == client[c].pc = "idle" /\ requests < MaxRequests /\ requests' = requests + 1
Todo(c, pc, r) == client' = [client EXCEPT ![c] = [IdleClient EXCEPT !.pc = pc, !.run = r]]
Done(c) == client' = [client EXCEPT ![c] = IdleClient]

(* start_edition_production: create, or find the batch of the same key.    *)
CreateBatch(c) ==
    /\ Request(c)
    /\ \/ /\ batch.status = "absent"
          /\ batch' = [batch EXCEPT !.status = "queued"]
          /\ run' = [r \in RunIds |-> IF r[2] = 0 THEN [run[r] EXCEPT !.status = "queued"]
                                      ELSE run[r]]
       \/ batch.status # "absent" /\ UNCHANGED <<batch, run>>
    /\ Todo(c, "initial", NoRun)
    /\ UNCHANGED <<item, jobs, crashes, aborts>>

(* ensure_initial_dispatch: start_next ...                                 *)
InitialStart(c) ==
    /\ client[c].pc = "initial"
    /\ LET active == {s \in Subjects : run[ItemRun(s)].status \in ActiveRunStatuses} IN
       \/ /\ batch.status \notin {"paused", "cancelled"} /\ active # {}
          /\ Write(StartNext(active))
          /\ LET r == StartNext(active).next IN
             client' = [client EXCEPT ![c] =
                           [IdleClient EXCEPT !.pc = "first", !.run = r, !.gen = run[r].gen]]
       \/ /\ batch.status = "cancelled" /\ run' = CancelQueued
          /\ UNCHANGED <<batch, item>> /\ Done(c)
       \/ /\ batch.status = "paused" \/ (batch.status # "cancelled" /\ active = {})
          /\ UNCHANGED <<batch, item, run>> /\ Done(c)
    /\ UNCHANGED <<jobs, requests, crashes, aborts>>

(* ... then the SOURCES job of the run that was started or is running.     *)
InitialDispatch(c) ==
    LET r == client[c].run IN
    /\ client[c].pc = "first"
    /\ jobs' = IF CanDispatch(r) THEN Submitted(jobs, <<r, 1, client[c].gen>>) ELSE jobs
    /\ Done(c)
    /\ UNCHANGED <<batch, item, run, requests, crashes, aborts>>

PauseBatch(c) ==
    /\ Request(c) /\ batch.status \in Dispatchable
    /\ batch' = [batch EXCEPT !.status = "paused"]
    /\ UNCHANGED <<item, run, jobs, client, crashes, aborts>>

(* Repeated for a batch that is not paused: it repairs a lost dispatch.    *)
ResumeBatch(c) ==
    /\ Request(c) /\ batch.status \in Dispatchable \union {"paused"}
    /\ batch' = ResumedBatch(batch)
    /\ Todo(c, "terminal", ItemRun(Order[1]))
    /\ UNCHANGED <<item, run, jobs, crashes, aborts>>

(* cancel_batch_with_result: the batch and its active runs.                *)
CancelBatch(c) ==
    LET cancelled == {r \in RunIds : Attached(r) /\ run[r].status \in ActiveRunStatuses} IN
    /\ Request(c) /\ batch.status \in Dispatchable \union {"paused"}
    /\ batch' = [batch EXCEPT !.status = "cancelled"]
    /\ run' = [r \in RunIds |-> IF r \in cancelled THEN MarkCancelled(run[r]) ELSE run[r]]
    /\ client' = [client EXCEPT ![c] = [IdleClient EXCEPT !.pc = "sweep", !.runs = cancelled]]
    /\ UNCHANGED <<item, jobs, crashes, aborts>>

(* cancel_run_with_result; a run already cancelled is swept again.         *)
CancelRun(c, r) ==
    /\ Request(c) /\ run[r].status \in ActiveRunStatuses \union {"cancelled"}
    /\ run' = [run EXCEPT ![r] = MarkCancelled(@)]
    /\ client' = [client EXCEPT ![c] =
          [IdleClient EXCEPT !.pc = "sweep", !.run = r, !.runs = {r},
                             !.changed = run[r].status # "cancelled" /\ Attached(r)]]
    /\ UNCHANGED <<batch, item, jobs, crashes, aborts>>

(* _cancel_non_terminal_run_jobs, for every job that carries the run's id. *)
SweepJobs(c) ==
    /\ client[c].pc = "sweep"
    /\ jobs' = [k \in JobKeys |->
          CASE k[1] \in client[c].runs /\ jobs[k].st = "queued" -> DoneJob
            [] k[1] \in client[c].runs /\ jobs[k].st = "running" ->
                  [jobs[k] EXCEPT !.cancel = TRUE]
            [] OTHER -> jobs[k]]
    /\ IF client[c].changed THEN Todo(c, "terminal", client[c].run) ELSE Done(c)
    /\ UNCHANGED <<batch, item, run, requests, crashes, aborts>>

(* The hand-over of the request that cancelled a run or resumed the batch. *)
ClientTerminal(c) ==
    /\ client[c].pc = "terminal"
    /\ \/ ~Attached(client[c].run) /\ UNCHANGED <<batch, item, run>> /\ Done(c)
       \/ /\ Attached(client[c].run)
          /\ LET w == OnSubjectTerminal IN
             /\ Write(w)
             /\ IF w.next = NoRun THEN Done(c) ELSE Todo(c, "handoff", w.next)
    /\ UNCHANGED <<jobs, requests, crashes, aborts>>

(* _dispatch_handed_off_production_run: a first look at the run ...        *)
ClientHandoff(c) ==
    LET r == client[c].run IN
    /\ client[c].pc = "handoff"
    /\ client' = [client EXCEPT ![c] =
          IF CanDispatch(r)
          THEN [@ EXCEPT !.pc = "dispatch", !.stage = run[r].stage, !.gen = run[r].gen]
          ELSE IdleClient]
    /\ UNCHANGED <<batch, item, run, jobs, requests, crashes, aborts>>

(* ... then the submission, fenced again.                                  *)
ClientDispatch(c) ==
    LET r == client[c].run
        k == <<r, client[c].stage, client[c].gen>> IN
    /\ client[c].pc = "dispatch"
    /\ jobs' = CASE BatchIsPaused(r) -> jobs
                 [] ~BatchIsPaused(r) /\ CanDispatch(r) -> Submitted(jobs, k)
                 [] OTHER -> Withdrawn(jobs, k)
    /\ Done(c)
    /\ UNCHANGED <<batch, item, run, requests, crashes, aborts>>

(* _retry_production_run, at a stage whose prerequisite the run has.       *)
RetryRun(c, r, s) ==
    /\ Request(c) /\ run[r].status \in TerminalStatuses \ {"cancelled"}
    /\ s <= run[r].stage /\ run[r].gen < MaxGeneration
    /\ RecoveryAllowed(r)
    /\ batch' = RecoveredBatch(r)
    /\ run' = [run EXCEPT ![r] = NewGeneration(@, s)]
    /\ client' = [client EXCEPT ![c] =
          [IdleClient EXCEPT !.pc = "submit", !.run = r, !.stage = s,
                             !.gen = run[r].gen + 1]]
    /\ UNCHANGED <<item, jobs, crashes, aborts>>

(* resume_cancelled_run, at the first stage without a live artifact.       *)
ResumeCancelledRun(c, r, s) ==
    /\ Request(c) /\ run[r].status = "cancelled"
    /\ s \in {run[r].stage, run[r].stage + 1} /\ run[r].gen < MaxGeneration
    /\ RecoveryAllowed(r)
    /\ batch' = RecoveredBatch(r)
    /\ run' = [run EXCEPT ![r] = NewGeneration(@, s)]
    /\ client' = [client EXCEPT ![c] =
          [IdleClient EXCEPT !.pc = "submit", !.run = r, !.stage = s,
                             !.gen = run[r].gen + 1]]
    /\ UNCHANGED <<item, jobs, crashes, aborts>>

(* The job of the new generation, without a fence.                         *)
ClientSubmit(c) ==
    /\ client[c].pc = "submit"
    /\ jobs' = Submitted(jobs, <<client[c].run, client[c].stage, client[c].gen>>)
    /\ Done(c)
    /\ UNCHANGED <<batch, item, run, requests, crashes, aborts>>

(* restart_subject_with_new_sources: create_run replaces the last run of   *)
(* the subject, reopens its batch and points the item at the new run ...   *)
RestartRun(c, r) ==
    LET new == <<r[1], r[2] + 1>> IN
    /\ Request(c) /\ r[2] < MaxRestarts
    /\ run[r].status \in TerminalStatuses /\ run[new].status = "absent"
    /\ RecoveryAllowed(r)
    /\ batch' = RecoveredBatch(r)
    /\ run' = [run EXCEPT ![new].status = "queued"]
    /\ item' = IF Attached(r) THEN [item EXCEPT ![r[1]] = [run |-> new[2], auto |-> 0]]
               ELSE item
    /\ Todo(c, "start", new)
    /\ UNCHANGED <<jobs, crashes, aborts>>

(* ... start_run: only a queued run starts, any other end is an error ...  *)
StartReplacement(c) ==
    LET r == client[c].run IN
    /\ client[c].pc = "start"
    /\ \/ /\ run[r].status \in ActiveRunStatuses
          /\ run' = [run EXCEPT ![r] = StartRunning(@)]
          /\ Todo(c, "started", r)
       \/ run[r].status \notin ActiveRunStatuses /\ UNCHANGED run /\ Done(c)
    /\ UNCHANGED <<batch, item, jobs, requests, crashes, aborts>>

(* ... and its SOURCES job, under the edition lock.                        *)
DispatchReplacement(c) ==
    LET r == client[c].run IN
    /\ client[c].pc = "started"
    /\ jobs' = IF run[r].status = "running"
               THEN Submitted(jobs, <<r, 1, run[r].gen>>) ELSE jobs
    /\ Done(c)
    /\ UNCHANGED <<batch, item, run, requests, crashes, aborts>>

(* The API process dies with a request committed and not handed over.      *)
AbortRequest(c) ==
    /\ client[c].pc # "idle" /\ aborts < MaxAborts
    /\ aborts' = aborts + 1
    /\ Done(c)
    /\ UNCHANGED <<batch, item, run, jobs, requests, crashes>>

NewRequest(c) ==
    \/ CreateBatch(c) \/ PauseBatch(c) \/ ResumeBatch(c) \/ CancelBatch(c)
    \/ \E r \in RunIds :
        \/ CancelRun(c, r) \/ RestartRun(c, r)
        \/ \E s \in Stages : RetryRun(c, r, s) \/ ResumeCancelledRun(c, r, s)

ContinueRequest(c) ==
    \/ InitialStart(c) \/ InitialDispatch(c) \/ SweepJobs(c) \/ ClientTerminal(c)
    \/ ClientHandoff(c) \/ ClientDispatch(c) \/ ClientSubmit(c) \/ StartReplacement(c)
    \/ DispatchReplacement(c)

Next ==
    \/ \E k \in JobKeys : Handler(k) \/ Crash(k)
    \/ \E c \in Clients : NewRequest(c) \/ ContinueRequest(c) \/ AbortRequest(c)

(* Workers take queued jobs and finish their handlers, recovery requeues   *)
(* lost jobs and a request that began is served: each is weakly fair.      *)
(* Analysts are free to stay idle, and nothing obliges a process to die.   *)
Fairness ==
    /\ \A k \in JobKeys : WF_vars(Handler(k))
    /\ \A c \in Clients : WF_vars(ContinueRequest(c))

Spec == Init /\ [][Next]_vars
FairSpec == Spec /\ Fairness

-----------------------------------------------------------------------------
(* Properties.                                                             *)

(* The first pass over a batch is in order, however its hand-overs, pauses *)
(* and repeated requests interleave (_start_next_in_uow): of the runs the  *)
(* batch was created with, in their first generation, one runs at a time,  *)
(* and the automatic recovery and the review begin when all have ended.    *)
FirstRun(s) == item[s].run = 0 /\ run[ItemRun(s)].gen = 0

FirstPassInOrder ==
    /\ \A s, t \in Subjects :
          /\ FirstRun(s) /\ run[ItemRun(s)].status = "running"
          /\ FirstRun(t) /\ run[ItemRun(t)].status = "running"
          => s = t
    /\ batch.phase # "initial" =>
          \A s \in Subjects : FirstRun(s) => run[ItemRun(s)].status \in TerminalStatuses

(* A batch that finished or was cancelled has no article waiting or        *)
(* running: every late hand-over, retry and resume has reopened it first   *)
(* or was refused.                                                         *)
ClosedBatchIsQuiet ==
    batch.status \in Finished \union {"cancelled"} =>
        \A s \in Subjects : run[ItemRun(s)].status \in TerminalStatuses

(* A running article of a batch that may dispatch has a job, or somebody   *)
(* who still has to submit it: it never waits for nobody.                  *)
HasJob(r) ==
    \E k \in JobKeys : /\ k[1] = r /\ k[3] = run[r].gen
                       /\ jobs[k].st \in {"queued", "running"} /\ ~jobs[k].cancel

IsOwed(r) ==
    \/ \E k \in JobKeys : /\ jobs[k].st = "running" /\ jobs[k].pc = "handoff"
                          /\ jobs[k].next = r /\ ~jobs[k].cancel
    \/ \E c \in Clients : client[c].pc = "terminal"
    \/ \E c \in Clients :
            /\ client[c].run = r
            /\ client[c].pc \in {"first", "handoff", "dispatch", "submit", "started"}

NoOrphanRun ==
    \A s \in Subjects : LET r == ItemRun(s) IN
        run[r].status = "running" /\ batch.status \in Dispatchable =>
            HasJob(r) \/ IsOwed(r)

(* A run that an analyst cancelled comes back only through a request: no   *)
(* handler, automatic retry or hand-over in flight revives it.             *)
CancelledStays ==
    [][\A r \in RunIds :
        run[r].status = "cancelled" /\ run'[r] # run[r] => requests' # requests]_vars

(* A subject that ends must not block the queue: a batch that can dispatch *)
(* is in the end finished, paused or cancelled.                            *)
BatchSettles == batch.status \in Dispatchable ~> batch.status \notin Dispatchable

-----------------------------------------------------------------------------
(* What the repository says and the code does not keep (README, section 5). *)

(* "One subject of a batch runs at a time, whatever gesture asks for the   *)
(* resume": a restart checks the siblings when it creates the replacement  *)
(* run, and not when it starts it.                                         *)
OneActiveRun ==
    \A s, t \in Subjects :
        run[ItemRun(s)].status = "running" /\ run[ItemRun(t)].status = "running" => s = t

(* Two handlers never execute a stage of the same generation of a run:     *)
(* whatever jobs were submitted twice, redelivered after a lost worker or  *)
(* overtaken, the fences leave one.                                        *)
Executes(k) == jobs[k].st = "running" /\ jobs[k].pc \in {"work", "judge", "apply"}
                /\ jobs[k].gen = RunOf(k).gen

SoleStageExecutor ==
    \A k, l \in JobKeys : k[1] = l[1] /\ Executes(k) /\ Executes(l) => k = l

(* A generation's outcome is written to that generation: the handler of an *)
(* older one ends nothing and advances nothing in its place.               *)
OutcomeIsOwn ==
    [][\A k \in JobKeys :
        ApplyReview(k) \/ ApplyFailed(k) \/ ApplySuccess(k) \/ Finalize(k)
            => RunOf(k).gen = k[3] \/ run' = run]_vars
=============================================================================
