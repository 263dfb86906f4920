-------------------------------- MODULE Jobs --------------------------------
(***************************************************************************)
(* The asynchronous job engine: the rows of the PostgreSQL table jobs, the *)
(* append-only job_events, the Dramatiq/Redis queue that only carries job  *)
(* ids, the workers that execute jobs, the recovery process and the API.   *)
(*                                                                         *)
(* Every service method takes the job row FOR UPDATE, so one transaction   *)
(* is one action.  What happens between two transactions of one worker or  *)
(* one request (handler execution, sending the message after the commit)   *)
(* is where the actions of the others interleave.                          *)
(***************************************************************************)
EXTENDS Integers

CONSTANTS
    JobIds,             \* the jobs (one idempotency key each)
    Workers,            \* Dramatiq worker threads
    NoJob,              \* what an idle worker executes
    MaxAttempts,        \* Job.max_attempts of each job
    DurableKinds,       \* jobs whose kind is in DURABLE_RESUME_JOB_KINDS
    ResumableKinds,     \* jobs registered with resume_after_worker_loss=True
    ProductionJobs,     \* production.* jobs of the one batch that is modelled
    LossyDispatch,      \* may a process die between its commit and its send
    MaxMessages,        \* bound: messages in the queue for one job
    MaxExpirations,     \* bound: heartbeat expirations of one job
    MaxRefunds          \* bound: attempts given back to one job by an analyst

ASSUME JobsAssumption ==
    /\ NoJob \notin JobIds
    /\ MaxAttempts \in [JobIds -> 1..20]
    /\ DurableKinds \subseteq JobIds
    /\ ResumableKinds \subseteq JobIds
    /\ ProductionJobs \subseteq JobIds
    /\ LossyDispatch \in BOOLEAN
    /\ MaxMessages \in Nat \ {0}
    /\ MaxExpirations \in Nat
    /\ MaxRefunds \in Nat

VARIABLES
    jobs,       \* the rows of table jobs
    journal,    \* job_events: status of the last event, counts of two kinds
    paused,     \* is the production batch paused
    queue,      \* messages carrying each job id
    owed,       \* <<process, job>>: committed, message not sent yet
    worker,     \* what each worker thread is doing
    resumer,    \* the request that resumes the batch
    expirations \* heartbeat expirations each job has suffered

vars == <<jobs, journal, paused, queue, owed, worker, resumer, expirations>>

-----------------------------------------------------------------------------
(* Types.                                                                  *)

TERMINAL_JOB_STATUSES == {"succeeded", "failed", "cancelled"}
JobStatus == {"queued", "running", "waiting_human"} \union TERMINAL_JOB_STATUSES
Status == JobStatus \union {"absent"}     \* absent: no row yet

(* next_retry_at is abstracted to how it compares with the clock, and      *)
(* heartbeat_at to whether it is older than the recovery cutoff.           *)
Row == [status : Status, attempt : Nat, retry : {"none", "future", "due"},
        cancel : BOOLEAN, expired : BOOLEAN,
        error : {"none", "handler", "worker_interrupted", "heartbeat_expired"}]

AbsentRow == [status |-> "absent", attempt |-> 0, retry |-> "none",
              cancel |-> FALSE, expired |-> FALSE, error |-> "none"]

Senders == {"api", "recovery"}
WorkerPc == {"idle", "handler", "failing", "reread", "resend"}
Idle == [pc |-> "idle", job |-> NoJob]

RowsTypeOK ==
    /\ jobs \in [JobIds -> Row]
    /\ journal \in [JobIds -> [last : Status, started : Nat, refunded : Nat]]

WorkersTypeOK ==
    /\ worker \in [Workers -> [pc : WorkerPc, job : JobIds \union {NoJob}]]
    /\ \A w \in Workers : worker[w].pc # "idle" => worker[w].job \in JobIds

TypeOK ==
    /\ RowsTypeOK
    /\ WorkersTypeOK
    /\ paused \in BOOLEAN
    /\ queue \in [JobIds -> 0..MaxMessages]
    /\ owed \subseteq Senders \X JobIds
    /\ resumer \in [fence : BOOLEAN, todo : SUBSET ProductionJobs]
    /\ expirations \in [JobIds -> Nat]

-----------------------------------------------------------------------------
(* The methods of the domain class Job, on a row.                          *)

(* A name that ends in _Mutant is a defective variant of the definition    *)
(* that follows it; nothing of the specification uses it.                  *)
CanStart_Mutant(j) ==
    jobs[j].status \in {"queued", "running"} /\ jobs[j].attempt < MaxAttempts[j]

CanStart(j) == jobs[j].status = "queued" /\ jobs[j].attempt < MaxAttempts[j]

Start_Mutant(r) == [r EXCEPT !.status = "running", !.retry = "none",
                             !.expired = FALSE, !.error = "none"]

Start(r) == [r EXCEPT !.status = "running", !.attempt = @ + 1,
                      !.retry = "none", !.expired = FALSE, !.error = "none"]

ReportProgress(r) == [r EXCEPT !.expired = FALSE]

WaitForHuman(r) == [r EXCEPT !.status = "waiting_human", !.expired = FALSE]

Succeed(r) == [r EXCEPT !.status = "succeeded", !.expired = FALSE,
                        !.error = "none"]

Fail(r, code) == [r EXCEPT !.status = "failed", !.retry = "none",
                           !.expired = FALSE, !.error = code]

ScheduleRetry(r) == [r EXCEPT !.status = "queued", !.retry = "future",
                              !.expired = FALSE, !.error = "handler"]

RetryManually(r) == [r EXCEPT !.status = "queued", !.retry = "none",
                              !.cancel = FALSE, !.error = "none"]

GiveBackAttempt_Mutant(n) == n - 2

(* max(0, attempt - 1), then start() restores the counter.                 *)
GiveBackAttempt(n) == IF n > 0 THEN n - 1 ELSE 0

ResumeAfterHuman_Mutant(r) ==
    [r EXCEPT !.status = "queued", !.retry = "due", !.error = "none"]

ResumeAfterHuman(r) ==
    [r EXCEPT !.status = "queued", !.retry = "due", !.error = "none",
              !.attempt = GiveBackAttempt(@)]

Cancellable == {"queued", "running", "waiting_human"}

MarkCancelled(r) == [r EXCEPT !.status = "cancelled", !.cancel = TRUE,
                              !.retry = "none", !.expired = FALSE]

(* How every end of an execution is written: a requested cancellation      *)
(* takes precedence over the outcome, and mark_cancelled or the outcome's  *)
(* own transition raises InvalidJobTransitionError when it does not apply. *)
CanEnd(r) == IF r.cancel THEN r.status \in Cancellable ELSE r.status = "running"

Ended_Mutant(r, outcome) == outcome

Ended(r, outcome) == IF r.cancel THEN MarkCancelled(r) ELSE outcome

RequestCancellation(r) ==
    IF r.status \in {"queued", "waiting_human"}
    THEN MarkCancelled(r)
    ELSE [r EXCEPT !.cancel = TRUE]

RecoverAbandoned(j) ==
    LET r == jobs[j] IN
    CASE r.cancel -> MarkCancelled(r)
      [] ~r.cancel /\ j \in DurableKinds ->
            [r EXCEPT !.status = "queued", !.retry = "due",
                      !.attempt = GiveBackAttempt(@),
                      !.error = "worker_interrupted"]
      [] ~r.cancel /\ j \notin DurableKinds /\ r.attempt < MaxAttempts[j] ->
            [r EXCEPT !.status = "queued", !.retry = "due",
                      !.error = "heartbeat_expired"]
      [] OTHER -> Fail(r, "heartbeat_expired")

-----------------------------------------------------------------------------
(* Transactions: a row update with the event it journals, and the queue.   *)

JobBatchIsPaused_Mutant(j) == FALSE

JobBatchIsPaused(j) == j \in ProductionJobs /\ paused

(* _append_job_event: the event carries the status after the transition;   *)
(* claims and given-back attempts are counted from their events.           *)
JournalEntry(j, row) ==
    LET old == journal[j]
        claim == jobs[j].status = "queued" /\ row.status = "running"
        refund == row.status = "queued" /\ row.attempt < jobs[j].attempt IN
    [last |-> row.status,
     started |-> IF claim THEN old.started + 1 ELSE old.started,
     refunded |-> IF refund THEN old.refunded + 1 ELSE old.refunded]

AppendJobEvent(j, row) == journal' = [journal EXCEPT ![j] = JournalEntry(j, row)]

SaveWithEvent(j, row) ==
    /\ jobs' = [jobs EXCEPT ![j] = row]
    /\ AppendJobEvent(j, row)

Save(j, row) ==
    /\ jobs' = [jobs EXCEPT ![j] = row]
    /\ UNCHANGED journal

(* MaxMessages copies of a job id stand for that many or more.             *)
SendMessage(j) ==
    queue' = [queue EXCEPT ![j] = IF @ < MaxMessages THEN @ + 1 ELSE @]

Goto(w, pc) == worker' = [worker EXCEPT ![w].pc = pc]
Return(w) == worker' = [worker EXCEPT ![w] = Idle]

ReturnJob_Mutant(w, j, row) == Return(w)

(* What _execute_job does with the job that execute() returned: a queued   *)
(* job with a next_retry_at is sent again, anything else is acknowledged.  *)
ReturnJob(w, j, row) ==
    worker' = [worker EXCEPT ![w] =
        IF row.status = "queued" /\ row.retry # "none"
        THEN [pc |-> "resend", job |-> j] ELSE Idle]

Init ==
    /\ jobs = [j \in JobIds |-> AbsentRow]
    /\ journal = [j \in JobIds |-> [last |-> "absent", started |-> 0, refunded |-> 0]]
    /\ paused = FALSE
    /\ queue = [j \in JobIds |-> 0]
    /\ owed = {}
    /\ worker = [w \in Workers |-> Idle]
    /\ resumer = [fence |-> FALSE, todo |-> {}]
    /\ expirations = [j \in JobIds |-> 0]

-----------------------------------------------------------------------------
(* Requests to the API.  Each one commits, then dispatches the message.    *)

(* JobService.submit; a second submission of the same key is refused       *)
(* (DuplicateJobError) and changes nothing.                                *)
Submit(j) ==
    /\ jobs[j].status = "absent"
    /\ SaveWithEvent(j, [AbsentRow EXCEPT !.status = "queued"])
    /\ owed' = owed \union {<<"api", j>>}
    /\ UNCHANGED <<paused, queue, worker, resumer, expirations>>

(* JobService.cancel: a terminal job is returned unchanged.                *)
Cancel(j) ==
    /\ jobs[j].status \in Cancellable
    /\ ~jobs[j].cancel \/ jobs[j].status # "running"
    /\ SaveWithEvent(j, RequestCancellation(jobs[j]))
    /\ UNCHANGED <<paused, queue, owed, worker, resumer, expirations>>

(* JobService.retry.                                                       *)
Retry(j) ==
    /\ ~JobBatchIsPaused(j)
    /\ jobs[j].status \in {"failed", "waiting_human"}
    /\ jobs[j].attempt < MaxAttempts[j]
    /\ SaveWithEvent(j, RetryManually(jobs[j]))
    /\ owed' = owed \union {<<"api", j>>}
    /\ UNCHANGED <<paused, queue, worker, resumer, expirations>>

(* JobService.resume_waiting_human, then the caller dispatches.            *)
ResumeWaitingHuman(j) ==
    /\ jobs[j].status = "waiting_human"
    /\ journal[j].refunded < MaxRefunds
    /\ SaveWithEvent(j, ResumeAfterHuman(jobs[j]))
    /\ owed' = owed \union {<<"api", j>>}
    /\ UNCHANGED <<paused, queue, worker, resumer, expirations>>

(* pause_batch_with_result.                                                *)
PauseBatch ==
    /\ ~paused /\ ProductionJobs # {}
    /\ \A j \in ProductionJobs : journal[j].refunded < MaxRefunds
    /\ paused' = TRUE
    /\ UNCHANGED <<jobs, journal, queue, owed, worker, resumer, expirations>>

(* resume_batch_with_result: the transition commits first ...              *)
ResumeBatch ==
    /\ paused
    /\ ~resumer.fence /\ resumer.todo = {}
    /\ paused' = FALSE
    /\ resumer' = [resumer EXCEPT !.fence = TRUE]
    /\ UNCHANGED <<jobs, journal, queue, owed, worker, expirations>>

(* ... then _dispatch_resumed_batch reads the batch again and gives up if  *)
(* it has been paused meanwhile ...                                        *)
ResumeFence ==
    /\ resumer.fence
    /\ resumer' = [fence |-> FALSE, todo |-> IF paused THEN {} ELSE ProductionJobs]
    /\ UNCHANGED <<jobs, journal, paused, queue, owed, worker, expirations>>

(* ... else it visits every job of the batch: a waiting one is resumed, a  *)
(* queued one is dispatched.                                               *)
VisitResumed(j) ==
    /\ j \in resumer.todo
    /\ resumer' = [resumer EXCEPT !.todo = @ \ {j}]
    /\ IF jobs[j].status = "waiting_human"
       THEN SaveWithEvent(j, ResumeAfterHuman(jobs[j]))
       ELSE UNCHANGED <<jobs, journal>>
    /\ owed' = IF jobs[j].status \in {"waiting_human", "queued"}
               THEN owed \union {<<"api", j>>} ELSE owed
    /\ UNCHANGED <<paused, queue, worker, expirations>>

(* The dispatcher's send, after the commit.                                *)
Dispatch(s, j) ==
    /\ <<s, j>> \in owed
    /\ owed' = owed \ {<<s, j>>}
    /\ SendMessage(j)
    /\ UNCHANGED <<jobs, journal, paused, worker, resumer, expirations>>

(* The process dies after its commit and before its send.                  *)
DispatchLost(s, j) ==
    /\ LossyDispatch
    /\ <<s, j>> \in owed
    /\ owed' = owed \ {<<s, j>>}
    /\ UNCHANGED <<jobs, journal, paused, queue, worker, resumer, expirations>>

-----------------------------------------------------------------------------
(* The worker: execute_job, JobExecutor.execute and JobExecutionContext.   *)

(* A message is delivered and _start decides whether the job is claimed.   *)
Deliver(w, j) ==
    /\ worker[w].pc = "idle"
    /\ queue[j] > 0
    /\ queue' = [queue EXCEPT ![j] = @ - 1]
    /\ LET r == jobs[j] IN
       \/ /\ r.status # "queued"
          /\ UNCHANGED <<jobs, journal, worker>>
       \/ /\ r.status = "queued" /\ JobBatchIsPaused(j)
          /\ Save(j, [r EXCEPT !.retry = "none"])
          /\ UNCHANGED worker
       \/ /\ r.status = "queued" /\ ~JobBatchIsPaused(j) /\ r.retry = "future"
          /\ ReturnJob(w, j, r)
          /\ UNCHANGED <<jobs, journal>>
       \/ /\ r.status = "queued" /\ ~JobBatchIsPaused(j) /\ r.retry # "future"
          /\ r.cancel
          /\ SaveWithEvent(j, MarkCancelled(r))
          /\ UNCHANGED worker
       \/ /\ CanStart(j) /\ ~JobBatchIsPaused(j) /\ r.retry # "future"
          /\ ~r.cancel
          /\ SaveWithEvent(j, Start(r))    \* QueuedIsClaimable: never refused
          /\ worker' = [worker EXCEPT ![w] = [pc |-> "handler", job |-> j]]
    /\ UNCHANGED <<paused, owed, resumer, expirations>>

(* heartbeat, report_progress, record_diagnostics and check_cancelled: a   *)
(* requested cancellation ends the job here, a job that is no longer       *)
(* running raises InvalidJobTransitionError into execute().                *)
Touch(w) ==
    /\ worker[w].pc = "handler"
    /\ LET j == worker[w].job
           r == jobs[j] IN
       \/ /\ r.cancel /\ CanEnd(r)
          /\ SaveWithEvent(j, MarkCancelled(r))
          /\ Goto(w, "reread")
       \/ /\ ~r.cancel /\ CanEnd(r)
          /\ Save(j, ReportProgress(r))
          /\ UNCHANGED worker
       \/ /\ ~CanEnd(r)
          /\ Goto(w, "failing")
          /\ UNCHANGED <<jobs, journal>>
    /\ UNCHANGED <<paused, queue, owed, resumer, expirations>>

(* context.wait_for_human appends no job event, and does not look at a     *)
(* requested cancellation.                            *)
HandlerWaits(w) ==
    /\ worker[w].pc = "handler"
    /\ LET j == worker[w].job IN
       IF jobs[j].status = "running"
       THEN Save(j, WaitForHuman(jobs[j])) /\ Goto(w, "reread")
       ELSE Goto(w, "failing") /\ UNCHANGED <<jobs, journal>>
    /\ UNCHANGED <<paused, queue, owed, resumer, expirations>>

(* JobCancelledError and JobWaitingHumanError: execute() reads the job     *)
(* once more and returns it.                                               *)
Reread(w) ==
    /\ worker[w].pc = "reread"
    /\ ReturnJob(w, worker[w].job, jobs[worker[w].job])
    /\ UNCHANGED <<jobs, journal, paused, queue, owed, resumer, expirations>>

(* The handler returns: _succeed, inside the try block of execute(), so a  *)
(* refused transition is handled as an unexpected exception.               *)
HandlerSucceeds(w) ==
    /\ worker[w].pc = "handler"
    /\ LET j == worker[w].job
           r == jobs[j] IN
       \/ /\ CanEnd(r)
          /\ SaveWithEvent(j, Ended(r, Succeed(r)))
          /\ Return(w)
       \/ /\ ~CanEnd(r)
          /\ Goto(w, "failing")
          /\ UNCHANGED <<jobs, journal>>
    /\ UNCHANGED <<paused, queue, owed, resumer, expirations>>

(* JobHandlerError: _handle_controlled_failure.  A transient error under a *)
(* paused batch waits for the resume before anything else is looked at.    *)
(* When the row refuses the transition the exception leaves execute() and  *)
(* nothing is written.                                                     *)
HandlerErrors(w, transient) ==
    /\ worker[w].pc = "handler"
    /\ LET j == worker[w].job
           r == jobs[j]
           held == transient /\ JobBatchIsPaused(j)
           retried == transient /\ r.attempt < MaxAttempts[j]
           row == Ended(r, IF retried THEN ScheduleRetry(r) ELSE Fail(r, "handler")) IN
       \/ /\ held /\ r.status = "running"
          /\ SaveWithEvent(j, WaitForHuman(r))
          /\ Return(w)
       \/ /\ ~held /\ CanEnd(r)
          /\ SaveWithEvent(j, row)
          /\ ReturnJob(w, j, row)
       \/ /\ IF held THEN r.status # "running" ELSE ~CanEnd(r)
          /\ Return(w)
          /\ UNCHANGED <<jobs, journal>>
    /\ UNCHANGED <<paused, queue, owed, resumer, expirations>>

(* Any other exception of the handler.                                     *)
HandlerCrashes(w) ==
    /\ worker[w].pc = "handler"
    /\ Goto(w, "failing")
    /\ UNCHANGED <<jobs, journal, paused, queue, owed, resumer, expirations>>

(* _fail, called from the except clause: a transaction of its own.         *)
FailJob(w) ==
    /\ worker[w].pc = "failing"
    /\ LET j == worker[w].job
           r == jobs[j] IN
       \/ CanEnd(r) /\ SaveWithEvent(j, Ended(r, Fail(r, "handler")))
       \/ ~CanEnd(r) /\ UNCHANGED <<jobs, journal>>
    /\ Return(w)
    /\ UNCHANGED <<paused, queue, owed, resumer, expirations>>

(* execute_job sends its own message again for a job that must be retried. *)
Resend(w) ==
    /\ worker[w].pc = "resend"
    /\ SendMessage(worker[w].job)
    /\ Return(w)
    /\ UNCHANGED <<jobs, journal, paused, owed, resumer, expirations>>

(* The worker process dies: Redis gives its unacknowledged message to      *)
(* another worker.  The time limit of the actor kills it without that.     *)
(* Deaths are bounded with the expirations they lead to.                   *)
WorkerDies(w) ==
    /\ worker[w].pc # "idle"
    /\ expirations[worker[w].job] < MaxExpirations
    /\ \/ SendMessage(worker[w].job)
       \/ (LossyDispatch \/ worker[w].pc # "resend") /\ UNCHANGED queue
    /\ Return(w)
    /\ UNCHANGED <<jobs, journal, paused, owed, resumer, expirations>>

-----------------------------------------------------------------------------
(* Time, and the recovery process.                                         *)

(* next_retry_at is reached.                                               *)
RetryMatures(j) ==
    /\ jobs[j].retry = "future"
    /\ jobs' = [jobs EXCEPT ![j].retry = "due"]
    /\ UNCHANGED <<journal, paused, queue, owed, worker, resumer, expirations>>

(* The heartbeat of a running job gets older than the cutoff: its worker   *)
(* is dead, or alive and stalled.                                          *)
HeartbeatExpires(j) ==
    /\ jobs[j].status = "running" /\ ~jobs[j].expired
    /\ \/ expirations[j] < MaxExpirations
       \/ \A w \in Workers : worker[w].job # j
    /\ jobs' = [jobs EXCEPT ![j].expired = TRUE]
    /\ expirations' = [expirations EXCEPT ![j] = @ + 1]
    /\ UNCHANGED <<journal, paused, queue, owed, worker, resumer>>

Abandoned == {j \in JobIds : /\ jobs[j].status = "running" /\ jobs[j].expired
                             /\ ~JobBatchIsPaused(j)}

(* JobService.recover_abandoned: one transaction over the abandoned jobs   *)
(* whose row is not locked, then a message for each one it queued.         *)
Recover(A) ==
    /\ jobs' = [j \in JobIds |-> IF j \in A THEN RecoverAbandoned(j) ELSE jobs[j]]
    /\ journal' = [j \in JobIds |->
          IF j \in A THEN JournalEntry(j, RecoverAbandoned(j)) ELSE journal[j]]
    /\ owed' = owed \union
          {<<"recovery", j>> : j \in {i \in A : RecoverAbandoned(i).status = "queued"}}
    /\ UNCHANGED <<paused, queue, worker, resumer, expirations>>

-----------------------------------------------------------------------------
BusyStep(w) ==
    \/ Touch(w)
    \/ HandlerWaits(w)
    \/ Reread(w)
    \/ HandlerSucceeds(w)
    \/ \E transient \in BOOLEAN : HandlerErrors(w, transient)
    \/ HandlerCrashes(w)
    \/ FailJob(w)
    \/ Resend(w)
    \/ WorkerDies(w)

WorkerStep(w) == BusyStep(w) \/ \E j \in JobIds : Deliver(w, j)

RequestStep ==
    \/ \E j \in JobIds :
          \/ Submit(j) \/ Cancel(j) \/ Retry(j) \/ ResumeWaitingHuman(j)
          \/ VisitResumed(j)
          \/ \E s \in Senders : Dispatch(s, j) \/ DispatchLost(s, j)
    \/ PauseBatch
    \/ ResumeBatch
    \/ ResumeFence

SystemStep ==
    \/ \E j \in JobIds : RetryMatures(j) \/ HeartbeatExpires(j)
    \/ \E A \in SUBSET Abandoned \ {{}} : Recover(A)

Next == RequestStep \/ SystemStep \/ \E w \in Workers : WorkerStep(w)

Spec == Init /\ [][Next]_vars

-----------------------------------------------------------------------------
(* Fairness.  Dramatiq delivers what is queued, a handler ends (the actor  *)
(* has a time limit), the scheduler keeps asking for recovery and the      *)
(* clock advances.  Nothing is assumed of analysts or of faults.           *)

HandlerEnds(w) ==
    \/ Touch(w) /\ worker'[w].pc # "handler"
    \/ HandlerWaits(w)
    \/ HandlerSucceeds(w)
    \/ \E transient \in BOOLEAN : HandlerErrors(w, transient)
    \/ HandlerCrashes(w)

Fairness ==
    /\ \A w \in Workers :
          /\ WF_vars(HandlerEnds(w))
          /\ WF_vars(Reread(w) \/ FailJob(w) \/ Resend(w))
    /\ \A j \in JobIds :
          /\ WF_vars(\E w \in Workers : Deliver(w, j))
          /\ WF_vars(\E s \in Senders : Dispatch(s, j))
          /\ WF_vars(RetryMatures(j))
          /\ WF_vars(VisitResumed(j))
          /\ WF_vars(HeartbeatExpires(j) /\ \A w \in Workers : worker[w].job # j)
          /\ WF_vars(\E A \in SUBSET Abandoned : j \in A /\ Recover(A))
    /\ WF_vars(ResumeFence)

FairSpec == Spec /\ Fairness

-----------------------------------------------------------------------------
(* Properties.                                                             *)

(* Every claim of a job is paid by one attempt or was given back exactly   *)
(* once (worker lost on a durable kind, analyst's resume): no interleaving *)
(* of zombies, recovery and resumes hides an execution from the counter    *)
(* (Job.start, resume_after_human, recover_abandoned).                     *)
AttemptAccounting ==
    \A j \in JobIds : journal[j].started = jobs[j].attempt + journal[j].refunded

(* A queued job always has an attempt left, so Job.start never refuses the *)
(* claim and leaves a job queued for ever; a claimed job is within         *)
(* max_attempts.                                                           *)
QueuedIsClaimable ==
    \A j \in JobIds :
        /\ jobs[j].status = "queued" => jobs[j].attempt < MaxAttempts[j]
        /\ jobs[j].status \in {"running", "waiting_human"} =>
               jobs[j].attempt \in 1..MaxAttempts[j]

(* As long as no heartbeat of the job has expired, at most one worker is   *)
(* executing it, however often its message is delivered: the row lock and  *)
(* the status test of _start are the only mutual exclusion there is.       *)
Executing(j) == {w \in Workers : /\ worker[w].job = j
                                 /\ worker[w].pc \in {"handler", "failing"}}

SoleExecutor ==
    \A j \in JobIds : expirations[j] = 0 =>
        \A v, w \in Executing(j) : v = w

(* A queued job outside a paused batch has a message in the queue or       *)
(* somebody who is about to send one: no order of pause, resume, retry and *)
(* recovery drops the last message of a job that waits for it.  (Processes *)
(* that die between commit and send are excluded by LossyDispatch.)        *)
NoStrandedJob ==
    \A j \in JobIds :
        (~LossyDispatch /\ jobs[j].status = "queued" /\ ~JobBatchIsPaused(j)) =>
            \/ queue[j] > 0
            \/ \E s \in Senders : <<s, j>> \in owed
            \/ \E w \in Workers : worker[w] = [pc |-> "resend", job |-> j]
            \/ j \in ProductionJobs /\ (resumer.fence \/ j \in resumer.todo)

(* A succeeded or cancelled job never changes status again, whatever a     *)
(* worker that lost its job still writes; a failed one only leaves by a    *)
(* manual retry, which keeps its attempts.                                 *)
OutcomeIsFinal ==
    [][\A j \in JobIds :
        /\ jobs[j].status \in {"succeeded", "cancelled"} =>
               jobs'[j].status = jobs[j].status
        /\ jobs[j].status = "failed" /\ jobs'[j].status # "failed" =>
               jobs'[j].status = "queued" /\ jobs'[j].attempt = jobs[j].attempt]_vars

(* Once a cancellation is requested the job is never recorded as succeeded *)
(* or failed, and never claimed: not by the worker that finishes late, not *)
(* by recovery, not by a second delivery.                                  *)
CancellationWins ==
    [][\A j \in JobIds : jobs[j].cancel =>
        /\ jobs'[j].status \in {"succeeded", "failed"} => jobs'[j].status = jobs[j].status
        /\ jobs[j].status = "queued" => jobs'[j].status # "running"]_vars

(* While its batch is paused no attempt of a production job is consumed    *)
(* and no backoff is started, and recovery leaves it alone.                *)
PauseHolds ==
    [][\A j \in ProductionJobs : paused =>
        /\ jobs'[j].attempt <= jobs[j].attempt
        /\ jobs'[j].retry = "future" => jobs[j].retry = "future"
        /\ jobs[j].status = "running" => jobs'[j].status # "queued"]_vars

(* Every submitted job ends, waits for a human, or is held by a paused     *)
(* batch, through retries, worker losses and recoveries.                   *)
EveryJobSettles ==
    \A j \in JobIds :
        jobs[j].status \in {"queued", "running"} ~>
            \/ jobs[j].status \in TERMINAL_JOB_STATUSES \union {"waiting_human"}
            \/ JobBatchIsPaused(j)

-----------------------------------------------------------------------------
(* What the repository says and the code does not keep (README, section 5). *)

(* "job_events journalise chaque transition": the last event of a job says *)
(* the status the job is in.                                               *)
JournalIsComplete == \A j \in JobIds : journal[j].last = jobs[j].status

(* A kind registered with resume_after_worker_loss=True is not failed by   *)
(* the loss of its worker.                                                 *)
WorkerLossIsSurvived ==
    \A j \in ResumableKinds :
        ~(jobs[j].status = "failed" /\ jobs[j].error = "heartbeat_expired")

(* Whatever workers, messages, recovery and analysts do, every job lives   *)
(* the life JobLifecycle allows.                                           *)
Lifecycle == INSTANCE JobLifecycle WITH
    life <- [j \in JobIds |->
                [status |-> jobs[j].status, attempt |-> jobs[j].attempt,
                 cancel |-> jobs[j].cancel, started |-> journal[j].started,
                 refunded |-> journal[j].refunded]]

ImplementsLifecycle == Lifecycle!Spec
=============================================================================
