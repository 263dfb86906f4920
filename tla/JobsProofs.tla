----------------------------- MODULE JobsProofs -----------------------------
(***************************************************************************)
(* Theorems about Jobs, for any set of jobs and workers and any bounds:    *)
(* the accounting of attempts and the abstract life of a job (IInv), one   *)
(* executor per job (SoleInv), the pause of a batch (HeldBack) and the     *)
(* messages of queued jobs (NoStrandedJob, with IInv).                     *)
(***************************************************************************)
EXTENDS Jobs, TLAPS

-----------------------------------------------------------------------------
(* Rows and workers: what the building blocks of the actions preserve.     *)

(* Every method of Job turns a row into a row.                             *)
LEMMA RowMethods ==
    ASSUME NEW r \in Row
    PROVE  /\ Start(r) \in Row
           /\ ReportProgress(r) \in Row
           /\ WaitForHuman(r) \in Row
           /\ Succeed(r) \in Row
           /\ Fail(r, "handler") \in Row
           /\ Fail(r, "heartbeat_expired") \in Row
           /\ ScheduleRetry(r) \in Row
           /\ RetryManually(r) \in Row
           /\ ResumeAfterHuman(r) \in Row
           /\ MarkCancelled(r) \in Row
           /\ RequestCancellation(r) \in Row
           /\ [r EXCEPT !.retry = "none"] \in Row
           /\ [r EXCEPT !.retry = "due"] \in Row
           /\ [r EXCEPT !.expired = TRUE] \in Row
<1> USE DEF Row, Status, JobStatus, TERMINAL_JOB_STATUSES
<1>0. r.attempt + 1 \in Nat /\ GiveBackAttempt(r.attempt) \in Nat
  BY DEF GiveBackAttempt
<1>a. Start(r) \in Row
  BY <1>0 DEF Start
<1>1. /\ ReportProgress(r) \in Row
      /\ WaitForHuman(r) \in Row
      /\ Succeed(r) \in Row
  BY DEF ReportProgress, WaitForHuman, Succeed
<1>2. /\ Fail(r, "handler") \in Row
      /\ Fail(r, "heartbeat_expired") \in Row
      /\ ScheduleRetry(r) \in Row
      /\ RetryManually(r) \in Row
  BY DEF Fail, ScheduleRetry, RetryManually
<1>3. ResumeAfterHuman(r) \in Row
  BY <1>0 DEF ResumeAfterHuman
<1>4. MarkCancelled(r) \in Row /\ RequestCancellation(r) \in Row
  BY DEF MarkCancelled, RequestCancellation
<1>5. /\ [r EXCEPT !.retry = "none"] \in Row
      /\ [r EXCEPT !.retry = "due"] \in Row
      /\ [r EXCEPT !.expired = TRUE] \in Row
  OBVIOUS
<1> QED
  BY <1>a, <1>1, <1>2, <1>3, <1>4, <1>5

(* Recovery turns the row of a job into a row.                             *)
LEMMA RecoveredRow ==
    ASSUME RowsTypeOK, NEW j \in JobIds
    PROVE  RecoverAbandoned(j) \in Row
<1>1. jobs[j] \in Row
  BY DEF RowsTypeOK
<1>2. /\ MarkCancelled(jobs[j]) \in Row
      /\ Fail(jobs[j], "heartbeat_expired") \in Row
  BY <1>1, RowMethods
<1>0. GiveBackAttempt(jobs[j].attempt) \in Nat
  BY <1>1 DEF Row, GiveBackAttempt
<1>3. [jobs[j] EXCEPT !.status = "queued", !.retry = "due",
                      !.attempt = GiveBackAttempt(@),
                      !.error = "worker_interrupted"] \in Row
  BY <1>1, <1>0 DEF Row, Status, JobStatus
<1>4. [jobs[j] EXCEPT !.status = "queued", !.retry = "due",
                      !.error = "heartbeat_expired"] \in Row
  BY <1>1 DEF Row, Status, JobStatus
<1> QED
  BY <1>2, <1>3, <1>4 DEF RecoverAbandoned

(* The part of a job that JobLifecycle speaks of.                          *)
Life(j) == [status |-> jobs[j].status, attempt |-> jobs[j].attempt,
            cancel |-> jobs[j].cancel, started |-> journal[j].started,
            refunded |-> journal[j].refunded]

(* A transaction with an event replaces one row and counts the event.      *)
LEMMA SaveWithEventEffect ==
    ASSUME RowsTypeOK, NEW j \in JobIds, NEW row \in Row, SaveWithEvent(j, row)
    PROVE  /\ RowsTypeOK'
           /\ jobs'[j] = row
           /\ journal'[j].started =
                IF jobs[j].status = "queued" /\ row.status = "running"
                THEN journal[j].started + 1 ELSE journal[j].started
           /\ journal'[j].refunded =
                IF row.status = "queued" /\ row.attempt < jobs[j].attempt
                THEN journal[j].refunded + 1 ELSE journal[j].refunded
           /\ \A i \in JobIds : i # j => jobs'[i] = jobs[i] /\ Life(i)' = Life(i)
<1> USE DEF SaveWithEvent, AppendJobEvent, RowsTypeOK
<1>1. JournalEntry(j, row) \in [last : Status, started : Nat, refunded : Nat]
  BY DEF Row, JournalEntry
<1>2. jobs' \in [JobIds -> Row] /\ jobs'[j] = row
  OBVIOUS
<1>3. journal' \in [JobIds -> [last : Status, started : Nat, refunded : Nat]]
  BY <1>1
<1>4. \A i \in JobIds : i # j => jobs'[i] = jobs[i] /\ journal'[i] = journal[i]
  OBVIOUS
<1>5. \A i \in JobIds : i # j => Life(i)' = Life(i)
  BY <1>4 DEF Life
<1>6. journal'[j] = JournalEntry(j, row)
  OBVIOUS
<1> QED
  BY <1>2, <1>3, <1>4, <1>5, <1>6 DEF JournalEntry

(* A transaction without an event replaces one row.                        *)
LEMMA SaveEffect ==
    ASSUME RowsTypeOK, NEW j \in JobIds, NEW row \in Row, Save(j, row)
    PROVE  /\ RowsTypeOK'
           /\ jobs'[j] = row
           /\ journal'[j] = journal[j]
           /\ \A i \in JobIds : i # j => jobs'[i] = jobs[i] /\ Life(i)' = Life(i)
  BY DEF Save, RowsTypeOK, Life

(* The worker's program counter moves within its type.                     *)
LEMMA WorkerMoves ==
    ASSUME WorkersTypeOK, NEW w \in Workers
    PROVE  /\ Return(w) => WorkersTypeOK'
           /\ \A pc \in WorkerPc : worker[w].pc # "idle" /\ Goto(w, pc) => WorkersTypeOK'
           /\ \A j \in JobIds : \A row \in Row : ReturnJob(w, j, row) => WorkersTypeOK'
           /\ \A j \in JobIds : worker' = [worker EXCEPT ![w] = [pc |-> "handler", job |-> j]]
                  => WorkersTypeOK'
<1> USE DEF WorkersTypeOK, WorkerPc, Idle
<1>1. Return(w) => WorkersTypeOK'
  BY DEF Return
<1>2. \A pc \in WorkerPc : worker[w].pc # "idle" /\ Goto(w, pc) => WorkersTypeOK'
  BY DEF Goto
<1>3. \A j \in JobIds : \A row \in Row : ReturnJob(w, j, row) => WorkersTypeOK'
  BY DEF ReturnJob
<1>4. \A j \in JobIds : worker' = [worker EXCEPT ![w] = [pc |-> "handler", job |-> j]]
                  => WorkersTypeOK'
  OBVIOUS
<1> QED
  BY <1>1, <1>2, <1>3, <1>4

-----------------------------------------------------------------------------
(* What one transaction may do to a row, and why it is a step of           *)
(* JobLifecycle.                                                           *)

Same(r, s) == s.attempt = r.attempt /\ s.cancel = r.cancel

Moves(j, r, s) ==
    \/ Same(r, s) /\ s.status = r.status
    \/ /\ r.status = "queued" /\ ~r.cancel /\ r.attempt < MaxAttempts[j]
       /\ s.status = "running" /\ s.attempt = r.attempt + 1 /\ s.cancel = r.cancel
    \/ /\ r.status = "running" /\ ~r.cancel
       /\ Same(r, s) /\ s.status \in {"succeeded", "failed"}
    \/ /\ r.status = "running"
       /\ Same(r, s) /\ s.status = "waiting_human"
    \/ /\ r.status = "running" /\ ~r.cancel /\ r.attempt < MaxAttempts[j]
       /\ Same(r, s) /\ s.status = "queued"
    \/ /\ r.status \in {"failed", "waiting_human"} /\ r.attempt < MaxAttempts[j]
       /\ s.attempt = r.attempt /\ s.cancel = FALSE /\ s.status = "queued"
    \/ /\ (r.status = "running" /\ ~r.cancel) \/ r.status = "waiting_human"
       /\ r.attempt > 0 /\ s.attempt = r.attempt - 1
       /\ s.cancel = r.cancel /\ s.status = "queued"
    \/ /\ r.status = "running"
       /\ s.attempt = r.attempt /\ s.cancel = TRUE /\ s.status = "running"
    \/ /\ r.status \in {"queued", "running", "waiting_human"}
       /\ s.attempt = r.attempt /\ s.cancel = TRUE /\ s.status = "cancelled"

(* A row that moves with its event lives one step of JobLifecycle.         *)
LEMMA EventStep ==
    ASSUME RowsTypeOK, NEW j \in JobIds, NEW row \in Row,
           jobs'[j] = row, journal'[j] = JournalEntry(j, row),
           Moves(j, jobs[j], row)
    PROVE  Lifecycle!Step(j, Life(j), Life(j)')
<1> DEFINE r == jobs[j]
<1>0. r \in Row /\ journal[j] \in [last : Status, started : Nat, refunded : Nat]
  BY DEF RowsTypeOK
<1>1. /\ journal'[j].started = IF r.status = "queued" /\ row.status = "running"
                               THEN journal[j].started + 1 ELSE journal[j].started
      /\ journal'[j].refunded = IF row.status = "queued" /\ row.attempt < r.attempt
                                THEN journal[j].refunded + 1 ELSE journal[j].refunded
  BY DEF JournalEntry
<1>t. r.attempt \in Nat /\ row.attempt \in Nat
  BY <1>0 DEF Row
<1> USE DEF Life, Lifecycle!Step, Lifecycle!Then, Lifecycle!Stage, Same
<1>2. CASE Same(r, row) /\ row.status = r.status
  <2>1. journal'[j].started = journal[j].started /\ journal'[j].refunded = journal[j].refunded
    BY <1>1, <1>2, <1>t
  <2> QED
    BY <2>1, <1>2
<1>3. CASE /\ r.status = "queued" /\ ~r.cancel /\ r.attempt < MaxAttempts[j]
           /\ row.status = "running" /\ row.attempt = r.attempt + 1 /\ row.cancel = r.cancel
  BY <1>1, <1>3 DEF Lifecycle!Claimed
<1>4. CASE /\ r.status = "running" /\ ~r.cancel
           /\ Same(r, row) /\ row.status \in {"succeeded", "failed"}
  BY <1>1, <1>4 DEF Lifecycle!Settled
<1>5. CASE r.status = "running" /\ Same(r, row) /\ row.status = "waiting_human"
  BY <1>1, <1>5 DEF Lifecycle!Parked
<1>6. CASE /\ r.status = "running" /\ ~r.cancel /\ r.attempt < MaxAttempts[j]
           /\ Same(r, row) /\ row.status = "queued"
  BY <1>1, <1>t, <1>6 DEF Lifecycle!Requeued
<1>7. CASE /\ r.status \in {"failed", "waiting_human"} /\ r.attempt < MaxAttempts[j]
           /\ row.attempt = r.attempt /\ row.cancel = FALSE /\ row.status = "queued"
  <2>1. journal'[j].started = journal[j].started /\ journal'[j].refunded = journal[j].refunded
    BY <1>1, <1>t, <1>7
  <2>2. Life(j)' = Lifecycle!Then(Life(j), "queued", FALSE)
    BY <2>1, <1>7
  <2>3. /\ Life(j).status \in {"failed", "waiting_human"}
        /\ Life(j).attempt < MaxAttempts[j]
    BY <1>7
  <2> QED
    BY <2>2, <2>3 DEF Lifecycle!Requeued
<1>8. CASE /\ (r.status = "running" /\ ~r.cancel) \/ r.status = "waiting_human"
           /\ r.attempt > 0 /\ row.attempt = r.attempt - 1
           /\ row.cancel = r.cancel /\ row.status = "queued"
  BY <1>1, <1>t, <1>8 DEF Lifecycle!Refunded
<1>9. CASE /\ r.status = "running"
           /\ row.attempt = r.attempt /\ row.cancel = TRUE /\ row.status = "running"
  BY <1>1, <1>9 DEF Lifecycle!Cancelled
<1>10. CASE /\ r.status \in {"queued", "running", "waiting_human"}
            /\ row.attempt = r.attempt /\ row.cancel = TRUE /\ row.status = "cancelled"
  BY <1>1, <1>10 DEF Lifecycle!Cancelled
<1> QED
  BY <1>2, <1>3, <1>4, <1>5, <1>6, <1>7, <1>8, <1>9, <1>10 DEF Moves

LifeMoves == \A i \in JobIds : Lifecycle!Step(i, Life(i), Life(i)')

(* A transaction with an event, whose row moves.                           *)
LEMMA EventSave ==
    ASSUME RowsTypeOK, NEW j \in JobIds, NEW row \in Row, SaveWithEvent(j, row),
           Moves(j, jobs[j], row)
    PROVE  RowsTypeOK' /\ LifeMoves
<1>1. jobs'[j] = row /\ journal'[j] = JournalEntry(j, row)
  BY DEF SaveWithEvent, AppendJobEvent, RowsTypeOK
<1>2. Lifecycle!Step(j, Life(j), Life(j)')
  BY <1>1, EventStep
<1> QED
  BY <1>2, SaveWithEventEffect DEF LifeMoves, Lifecycle!Step

(* A transaction without an event leaves the counters alone.               *)
LEMMA PlainSave ==
    ASSUME RowsTypeOK, NEW j \in JobIds, NEW row \in Row, Save(j, row),
           Same(jobs[j], row),
           \/ row.status = jobs[j].status
           \/ jobs[j].status = "running" /\ row.status = "waiting_human"
    PROVE  RowsTypeOK' /\ LifeMoves
<1>0. RowsTypeOK' /\ jobs'[j] = row /\ journal'[j] = journal[j]
  BY SaveEffect
<1>1. Lifecycle!Step(j, Life(j), Life(j)')
  BY <1>0 DEF Same, Life, Lifecycle!Step, Lifecycle!Parked, Lifecycle!Then, Lifecycle!Stage
<1> QED
  BY <1>0, <1>1, SaveEffect DEF LifeMoves, Lifecycle!Step

(* Nothing is written to the database.                                     *)
LEMMA NoSave ==
    ASSUME RowsTypeOK, UNCHANGED <<jobs, journal>>
    PROVE  RowsTypeOK' /\ LifeMoves
  BY DEF RowsTypeOK, LifeMoves, Life, Lifecycle!Step

(* How the methods of Job move a row.                                      *)
LEMMA MethodMoves ==
    ASSUME NEW r \in Row, NEW j \in JobIds
    PROVE  /\ r.status \in Cancellable => Moves(j, r, MarkCancelled(r))
           /\ r.status = "running" => Moves(j, r, WaitForHuman(r))
           /\ r.status = "running" /\ ~r.cancel => Moves(j, r, Succeed(r))
           /\ r.status = "running" /\ ~r.cancel => Moves(j, r, Fail(r, "handler"))
           /\ r.status = "running" /\ ~r.cancel => Moves(j, r, Fail(r, "heartbeat_expired"))
           /\ r.status = "running" /\ ~r.cancel /\ r.attempt < MaxAttempts[j]
                => Moves(j, r, ScheduleRetry(r))
           /\ r.status \in {"failed", "waiting_human"} /\ r.attempt < MaxAttempts[j]
                => Moves(j, r, RetryManually(r))
           /\ r.status = "waiting_human" /\ r.attempt > 0 => Moves(j, r, ResumeAfterHuman(r))
           /\ r.status \in Cancellable => Moves(j, r, RequestCancellation(r))
           /\ r.status = "queued" /\ ~r.cancel /\ r.attempt < MaxAttempts[j]
                => Moves(j, r, Start(r))
<1> USE DEF Row, Moves, Same
<1>1. r.status \in Cancellable => Moves(j, r, MarkCancelled(r))
  BY DEF MarkCancelled, Cancellable
<1>2. r.status = "running" => Moves(j, r, WaitForHuman(r))
  BY DEF WaitForHuman
<1>3. r.status = "running" /\ ~r.cancel => Moves(j, r, Succeed(r))
  BY DEF Succeed
<1>4. /\ r.status = "running" /\ ~r.cancel => Moves(j, r, Fail(r, "handler"))
      /\ r.status = "running" /\ ~r.cancel => Moves(j, r, Fail(r, "heartbeat_expired"))
  BY DEF Fail
<1>5. r.status = "running" /\ ~r.cancel /\ r.attempt < MaxAttempts[j]
                => Moves(j, r, ScheduleRetry(r))
  BY DEF ScheduleRetry
<1>6. r.status \in {"failed", "waiting_human"} /\ r.attempt < MaxAttempts[j]
                => Moves(j, r, RetryManually(r))
  BY DEF RetryManually
<1>7. r.status = "waiting_human" /\ r.attempt > 0 => Moves(j, r, ResumeAfterHuman(r))
  <2>1. r.attempt > 0 => GiveBackAttempt(r.attempt) = r.attempt - 1
    BY DEF GiveBackAttempt
  <2> QED
    BY <2>1 DEF ResumeAfterHuman
<1>8. r.status \in Cancellable => Moves(j, r, RequestCancellation(r))
  <2>1. [r EXCEPT !.cancel = TRUE].status = r.status /\ [r EXCEPT !.cancel = TRUE].cancel
        /\ [r EXCEPT !.cancel = TRUE].attempt = r.attempt
    OBVIOUS
  <2> QED
    BY <1>1, <2>1 DEF RequestCancellation, Cancellable
<1>9. r.status = "queued" /\ ~r.cancel /\ r.attempt < MaxAttempts[j]
                => Moves(j, r, Start(r))
  BY DEF Start
<1> QED
  BY <1>1, <1>2, <1>3, <1>4, <1>5, <1>6, <1>7, <1>8, <1>9

(* Recovery moves the row of a running job that has spent an attempt.      *)
LEMMA RecoveredMoves ==
    ASSUME RowsTypeOK, NEW j \in JobIds,
           jobs[j].status = "running", jobs[j].attempt > 0
    PROVE  Moves(j, jobs[j], RecoverAbandoned(j))
<1> DEFINE r == jobs[j]
<1>0. r \in Row
  BY DEF RowsTypeOK
<1>1. CASE r.cancel
  BY <1>0, <1>1, MethodMoves DEF RecoverAbandoned, Cancellable
<1>2. CASE ~r.cancel /\ j \in DurableKinds
  <2>1. GiveBackAttempt(r.attempt) = r.attempt - 1
    BY <1>0 DEF GiveBackAttempt, Row
  <2>2. RecoverAbandoned(j) =
            [r EXCEPT !.status = "queued", !.retry = "due",
                      !.attempt = GiveBackAttempt(@), !.error = "worker_interrupted"]
    BY <1>2 DEF RecoverAbandoned
  <2> QED
    BY <1>0, <1>2, <2>1, <2>2 DEF Moves, Row
<1>3. CASE ~r.cancel /\ j \notin DurableKinds /\ r.attempt < MaxAttempts[j]
  <2>2. RecoverAbandoned(j) =
            [r EXCEPT !.status = "queued", !.retry = "due", !.error = "heartbeat_expired"]
    BY <1>3 DEF RecoverAbandoned
  <2> QED
    BY <1>0, <1>3, <2>2 DEF Moves, Row, Same
<1>4. CASE ~r.cancel /\ j \notin DurableKinds /\ ~(r.attempt < MaxAttempts[j])
  <2>2. RecoverAbandoned(j) = Fail(r, "heartbeat_expired")
    BY <1>4 DEF RecoverAbandoned
  <2> QED
    BY <1>0, <1>4, <2>2, MethodMoves
<1> QED
  BY <1>1, <1>2, <1>3, <1>4

-----------------------------------------------------------------------------
(* The inductive invariant.  AttemptAccounting is not inductive: a manual  *)
(* resume or a recovery gives an attempt back only if there is one to give *)
(* back, which QueuedIsClaimable says of running and waiting jobs, and a   *)
(* job is born with empty counters only if it has never lived.             *)

Sound(j, a) ==
    /\ a.attempt \in Nat /\ a.started \in Nat /\ a.refunded \in Nat
    /\ a.cancel \in BOOLEAN
    /\ a.status = "absent" => a = Lifecycle!Unborn
    /\ a.started = a.attempt + a.refunded
    /\ a.status = "queued" => a.attempt < MaxAttempts[j]
    /\ a.status \in {"running", "waiting_human"} => a.attempt \in 1..MaxAttempts[j]

IInv == TypeOK /\ \A j \in JobIds : Sound(j, Life(j))

(* JobLifecycle keeps the accounts of every job.                           *)
LEMMA SoundStep ==
    ASSUME NEW j \in JobIds, NEW a, NEW b, Sound(j, a), Lifecycle!Step(j, a, b)
    PROVE  Sound(j, b)
<1>0. MaxAttempts[j] \in 1..20
  BY JobsAssumption DEF JobsAssumption
<1> USE DEF Sound, Lifecycle!Stage, Lifecycle!Then
<1>1. CASE b = a
  BY <1>1
<1>2. CASE Lifecycle!Born(a, b)
  BY <1>0, <1>2 DEF Lifecycle!Born, Lifecycle!Unborn
<1>3. CASE Lifecycle!Claimed(j, a, b)
  BY <1>0, <1>3 DEF Lifecycle!Claimed
<1>4. CASE Lifecycle!Settled(a, b)
  BY <1>4 DEF Lifecycle!Settled
<1>5. CASE Lifecycle!Parked(a, b)
  BY <1>0, <1>5 DEF Lifecycle!Parked
<1>6. CASE Lifecycle!Requeued(j, a, b)
  <2>1. CASE a.status = "running" /\ b = Lifecycle!Then(a, "queued", a.cancel)
    BY <1>0, <1>6, <2>1 DEF Lifecycle!Requeued
  <2>2. CASE b = Lifecycle!Then(a, "queued", FALSE)
    <3>1. b.cancel \in BOOLEAN
      BY <2>2
    <3>2. /\ b.attempt = a.attempt /\ b.started = a.started
          /\ b.refunded = a.refunded /\ b.status = "queued"
      BY <2>2
    <3>3. a.attempt < MaxAttempts[j]
      BY <1>6 DEF Lifecycle!Requeued
    <3> HIDE DEF Lifecycle!Stage, Lifecycle!Then
    <3> QED
      BY <1>0, <3>1, <3>2, <3>3
  <2> QED
    BY <1>6, <2>1, <2>2 DEF Lifecycle!Requeued
<1>7. CASE Lifecycle!Refunded(a, b)
  BY <1>0, <1>7 DEF Lifecycle!Refunded
<1>8. CASE Lifecycle!Cancelled(a, b)
  <2>1. PICK s \in {"running", "cancelled"} : b = Lifecycle!Then(a, s, TRUE)
    BY <1>8 DEF Lifecycle!Cancelled
  <2>2. b.cancel \in BOOLEAN
    BY <2>1
  <2>3. /\ b.attempt = a.attempt /\ b.started = a.started
        /\ b.refunded = a.refunded /\ b.status = s
    BY <2>1
  <2>4. s = "running" => a.status = "running"
    BY <1>8, <2>3 DEF Lifecycle!Cancelled
  <2> HIDE DEF Lifecycle!Stage, Lifecycle!Then
  <2> QED
    BY <1>0, <2>2, <2>3, <2>4
<1> QED
  BY <1>1, <1>2, <1>3, <1>4, <1>5, <1>6, <1>7, <1>8 DEF Lifecycle!Step

(* What the invariant says of the rows, in their own fields.               *)
LEMMA RowFacts ==
    ASSUME IInv, NEW j \in JobIds
    PROVE  /\ RowsTypeOK /\ jobs[j] \in Row
           /\ jobs[j].status = "queued" => jobs[j].attempt < MaxAttempts[j]
           /\ jobs[j].status \in {"running", "waiting_human"} => jobs[j].attempt > 0
           /\ jobs[j].status = "absent" => Life(j) = Lifecycle!Unborn
<1>0. MaxAttempts[j] \in 1..20
  BY JobsAssumption DEF JobsAssumption
<1>1. RowsTypeOK /\ jobs[j] \in Row
  BY DEF IInv, TypeOK, RowsTypeOK
<1>2. Sound(j, Life(j))
  BY DEF IInv
<1> QED
  BY <1>0, <1>1, <1>2 DEF Sound, Life

(* A job that has never lived has its accounts in order.                   *)
LEMMA UnbornSound == \A j : Sound(j, Lifecycle!Unborn)
<1> DEFINE u == Lifecycle!Unborn
<1>1. u.cancel \in BOOLEAN
  BY DEF Lifecycle!Unborn, Lifecycle!Stage
<1>2. u.attempt = 0 /\ u.started = 0 /\ u.refunded = 0 /\ u.status = "absent"
  BY DEF Lifecycle!Unborn, Lifecycle!Stage
<1>3. u.attempt \in Nat /\ u.started \in Nat /\ u.refunded \in Nat /\ u.started = u.attempt + u.refunded
  BY <1>2
<1>4. u.status \notin {"queued", "running", "waiting_human"}
  BY <1>2
<1> QED
  BY <1>1, <1>3, <1>4, Zenon DEF Sound

(* Every initial state satisfies the invariant.                            *)
LEMMA InitInvariant == Init => IInv
<1> SUFFICES ASSUME Init PROVE IInv
  OBVIOUS
<1> USE JobsAssumption DEF Init
<1>1. AbsentRow \in Row
  BY DEF AbsentRow, Row, Status, JobStatus, TERMINAL_JOB_STATUSES
<1>2. RowsTypeOK
  BY <1>1 DEF RowsTypeOK, Status
<1>3. WorkersTypeOK
  BY DEF WorkersTypeOK, Idle, WorkerPc
<1>4. queue \in [JobIds -> 0..MaxMessages]
  BY DEF JobsAssumption
<1>5. /\ paused \in BOOLEAN
      /\ owed \subseteq Senders \X JobIds
      /\ resumer \in [fence : BOOLEAN, todo : SUBSET ProductionJobs]
      /\ expirations \in [JobIds -> Nat]
  OBVIOUS
<1>6. \A j \in JobIds : Life(j) = Lifecycle!Unborn
  BY DEF Life, AbsentRow, Lifecycle!Unborn, Lifecycle!Stage
<1>7. \A j \in JobIds : Sound(j, Lifecycle!Unborn)
  BY UnbornSound
<1> QED
  BY <1>2, <1>3, <1>4, <1>5, <1>6, <1>7 DEF IInv, TypeOK

-----------------------------------------------------------------------------
(* One lemma per group of actions: a step keeps the types and every job    *)
(* lives at most one step of JobLifecycle.                                 *)

(* The queue stays within its bound.                                       *)
LEMMA QueueMoves ==
    ASSUME TypeOK, NEW j \in JobIds
    PROVE  /\ SendMessage(j) => queue' \in [JobIds -> 0..MaxMessages]
           /\ queue[j] > 0 /\ queue' = [queue EXCEPT ![j] = @ - 1]
                => queue' \in [JobIds -> 0..MaxMessages]
<1>0. MaxMessages \in Nat \ {0} /\ queue \in [JobIds -> 0..MaxMessages]
  BY JobsAssumption DEF JobsAssumption, TypeOK
<1> QED
  BY <1>0 DEF SendMessage

(* Requests on one job.                                                    *)
LEMMA RequestSteps ==
    ASSUME IInv, NEW j \in JobIds
    PROVE  Submit(j) \/ Cancel(j) \/ Retry(j) \/ ResumeWaitingHuman(j)
              => TypeOK' /\ LifeMoves
<1>0. RowsTypeOK /\ jobs[j] \in Row
  BY RowFacts
<1>u. (owed' = owed \union {<<"api", j>>}) => owed' \subseteq Senders \X JobIds
  BY DEF IInv, TypeOK, Senders
<1>r. ASSUME RowsTypeOK' /\ LifeMoves, owed' \subseteq Senders \X JobIds,
             UNCHANGED <<paused, queue, worker, resumer, expirations>>
      PROVE  TypeOK' /\ LifeMoves
  BY <1>r DEF IInv, TypeOK, WorkersTypeOK
<1>1. CASE Submit(j)
  <2> DEFINE row == [AbsentRow EXCEPT !.status = "queued"]
  <2>1. row \in Row /\ row.status = "queued" /\ row.attempt = 0 /\ row.cancel = FALSE
    BY DEF AbsentRow, Row, Status, JobStatus
  <2> HIDE DEF row
  <2>2. SaveWithEvent(j, row) /\ jobs[j].status = "absent"
    BY <1>1 DEF Submit, row
  <2>3. Life(j) = Lifecycle!Unborn
    BY <2>2, RowFacts
  <2>4. jobs[j].attempt = 0 /\ journal[j].started = 0 /\ journal[j].refunded = 0
    BY <2>3 DEF Life, Lifecycle!Unborn, Lifecycle!Stage
  <2>5. /\ RowsTypeOK' /\ jobs'[j] = row
        /\ journal'[j].started = 0 /\ journal'[j].refunded = 0
    BY <1>0, <2>1, <2>2, <2>4, SaveWithEventEffect
  <2>6. Life(j)' = Lifecycle!Stage("queued", 0, FALSE, 0, 0)
    BY <2>1, <2>5 DEF Life, Lifecycle!Stage
  <2>7. Lifecycle!Born(Life(j), Life(j)')
    BY <2>3, <2>6 DEF Lifecycle!Born, Lifecycle!Unborn, Lifecycle!Then, Lifecycle!Stage
  <2>8. LifeMoves
    BY <1>0, <2>1, <2>2, <2>7, SaveWithEventEffect DEF LifeMoves, Lifecycle!Step
  <2> QED
    BY <1>1, <1>u, <1>r, <2>5, <2>8 DEF Submit
<1>2. CASE Cancel(j)
  <2>1. RowsTypeOK' /\ LifeMoves
    BY <1>0, <1>2, RowMethods, MethodMoves, EventSave DEF Cancel
  <2>2. owed' \subseteq Senders \X JobIds
    BY <1>2 DEF Cancel, IInv, TypeOK
  <2> QED
    BY <1>2, <1>r, <2>1, <2>2 DEF Cancel
<1>3. CASE Retry(j)
  <2>1. RowsTypeOK' /\ LifeMoves
    BY <1>0, <1>3, RowMethods, MethodMoves, EventSave DEF Retry
  <2> QED
    BY <1>3, <1>r, <1>u, <2>1 DEF Retry
<1>4. CASE ResumeWaitingHuman(j)
  <2>1. jobs[j].attempt > 0
    BY <1>4, RowFacts DEF ResumeWaitingHuman
  <2>2. RowsTypeOK' /\ LifeMoves
    BY <1>0, <1>4, <2>1, RowMethods, MethodMoves, EventSave DEF ResumeWaitingHuman
  <2> QED
    BY <1>4, <1>r, <1>u, <2>2 DEF ResumeWaitingHuman
<1> QED
  BY <1>1, <1>2, <1>3, <1>4

(* Pause and resume of the batch.                                          *)
LEMMA PauseSteps ==
    ASSUME IInv
    PROVE  PauseBatch \/ ResumeBatch \/ ResumeFence => TypeOK' /\ LifeMoves
<1>0. RowsTypeOK
  BY DEF IInv, TypeOK
<1>t. TypeOK
  BY DEF IInv
<1>1. CASE PauseBatch \/ ResumeBatch \/ ResumeFence
  <2>1. UNCHANGED <<jobs, journal>>
    BY <1>1 DEF PauseBatch, ResumeBatch, ResumeFence
  <2>2. RowsTypeOK' /\ LifeMoves
    BY <1>0, <2>1, NoSave
  <2>3. resumer' \in [fence : BOOLEAN, todo : SUBSET ProductionJobs] /\ paused' \in BOOLEAN
    <3>0. resumer \in [fence : BOOLEAN, todo : SUBSET ProductionJobs] /\ paused \in BOOLEAN
      BY <1>t DEF TypeOK
    <3>1. [resumer EXCEPT !.fence = TRUE] \in [fence : BOOLEAN, todo : SUBSET ProductionJobs]
      BY <3>0
    <3>2. \A T \in SUBSET ProductionJobs :
              [fence |-> FALSE, todo |-> T] \in [fence : BOOLEAN, todo : SUBSET ProductionJobs]
      OBVIOUS
    <3>3. CASE PauseBatch
      BY <3>0, <3>3 DEF PauseBatch
    <3>4. CASE ResumeBatch
      BY <3>1, <3>4 DEF ResumeBatch
    <3>5. CASE ResumeFence
      BY <3>0, <3>2, <3>5 DEF ResumeFence
    <3> QED
      BY <1>1, <3>3, <3>4, <3>5
  <2>4. UNCHANGED <<queue, owed, worker, expirations>>
    BY <1>1 DEF PauseBatch, ResumeBatch, ResumeFence
  <2> QED
    BY <1>t, <2>2, <2>3, <2>4 DEF TypeOK, WorkersTypeOK
<1> QED
  BY <1>1

(* The visit of a job by the resume, and the sends.                        *)
LEMMA DispatchSteps ==
    ASSUME IInv, NEW j \in JobIds
    PROVE  VisitResumed(j) \/ (\E s \in Senders : Dispatch(s, j) \/ DispatchLost(s, j))
              => TypeOK' /\ LifeMoves
<1>0. RowsTypeOK /\ jobs[j] \in Row
  BY RowFacts
<1>t. TypeOK
  BY DEF IInv
<1>2. CASE VisitResumed(j)
  <2>1. RowsTypeOK' /\ LifeMoves
    <3>1. CASE jobs[j].status = "waiting_human"
      BY <1>0, <1>2, <3>1, RowFacts, RowMethods, MethodMoves, EventSave DEF VisitResumed
    <3>2. CASE jobs[j].status # "waiting_human"
      BY <1>0, <1>2, <3>2, NoSave DEF VisitResumed
    <3> QED
      BY <3>1, <3>2
  <2>2. resumer' \in [fence : BOOLEAN, todo : SUBSET ProductionJobs]
    BY <1>2, <1>t DEF VisitResumed, TypeOK
  <2>3. owed' \subseteq Senders \X JobIds
    BY <1>2, <1>t DEF VisitResumed, TypeOK, Senders
  <2>4. UNCHANGED <<paused, queue, worker, expirations>>
    BY <1>2 DEF VisitResumed
  <2> QED
    BY <1>t, <2>1, <2>2, <2>3, <2>4 DEF TypeOK, WorkersTypeOK
<1>3. ASSUME NEW s \in Senders, Dispatch(s, j) \/ DispatchLost(s, j)
      PROVE  TypeOK' /\ LifeMoves
  <2>1. RowsTypeOK' /\ LifeMoves
    BY <1>0, <1>3, NoSave DEF Dispatch, DispatchLost
  <2>2. queue' \in [JobIds -> 0..MaxMessages]
    BY <1>3, <1>t, QueueMoves DEF Dispatch, DispatchLost, TypeOK
  <2>3. owed' \subseteq Senders \X JobIds
    BY <1>3, <1>t DEF Dispatch, DispatchLost, TypeOK
  <2>4. UNCHANGED <<paused, worker, resumer, expirations>>
    BY <1>3 DEF Dispatch, DispatchLost
  <2> QED
    BY <1>t, <2>1, <2>2, <2>3, <2>4 DEF TypeOK, WorkersTypeOK
<1> QED
  BY <1>2, <1>3

(* The end of an execution: the cancellation or the outcome.               *)
LEMMA EndedMoves ==
    ASSUME NEW r \in Row, NEW j \in JobIds, NEW outcome \in Row, CanEnd(r),
           r.status = "running" /\ ~r.cancel => Moves(j, r, outcome)
    PROVE  Ended(r, outcome) \in Row /\ Moves(j, r, Ended(r, outcome))
<1>1. CASE r.cancel
  BY <1>1, RowMethods, MethodMoves DEF Ended, CanEnd
<1>2. CASE ~r.cancel
  BY <1>2 DEF Ended, CanEnd
<1> QED
  BY <1>1, <1>2

(* A delivery.                                                             *)
LEMMA DeliverStep ==
    ASSUME IInv, NEW w \in Workers, NEW j \in JobIds, Deliver(w, j)
    PROVE  TypeOK' /\ LifeMoves
<1> DEFINE r == jobs[j]
<1>0. RowsTypeOK /\ r \in Row /\ WorkersTypeOK /\ TypeOK
  BY RowFacts DEF IInv, TypeOK
<1>s. SUFFICES RowsTypeOK' /\ LifeMoves /\ WorkersTypeOK'
  <2>1. queue' \in [JobIds -> 0..MaxMessages]
    BY <1>0, QueueMoves DEF Deliver
  <2>2. UNCHANGED <<paused, owed, resumer, expirations>>
    BY DEF Deliver
  <2> QED
    BY <1>0, <2>1, <2>2 DEF TypeOK
<1>w. UNCHANGED worker => WorkersTypeOK'
  BY <1>0 DEF WorkersTypeOK
<1>1. CASE UNCHANGED <<jobs, journal, worker>>
  BY <1>0, <1>1, <1>w, NoSave
<1>2. CASE /\ r.status = "queued" /\ Save(j, [r EXCEPT !.retry = "none"])
           /\ UNCHANGED worker
  <2> DEFINE row == [r EXCEPT !.retry = "none"]
  <2>1. row \in Row /\ Same(r, row) /\ row.status = r.status
    BY <1>0, RowMethods DEF Same, Row
  <2> HIDE DEF row
  <2>2. Save(j, row)
    BY <1>2 DEF row
  <2> QED
    BY <1>0, <1>2, <1>w, <2>1, <2>2, PlainSave
<1>3. CASE ReturnJob(w, j, r) /\ UNCHANGED <<jobs, journal>>
  BY <1>0, <1>3, NoSave, WorkerMoves
<1>4. CASE r.status = "queued" /\ SaveWithEvent(j, MarkCancelled(r)) /\ UNCHANGED worker
  BY <1>0, <1>4, <1>w, RowMethods, MethodMoves, EventSave DEF Cancellable
<1>5. CASE /\ CanStart(j) /\ ~r.cancel /\ SaveWithEvent(j, Start(r))
           /\ worker' = [worker EXCEPT ![w] = [pc |-> "handler", job |-> j]]
  BY <1>0, <1>5, WorkerMoves, RowMethods, MethodMoves, EventSave DEF CanStart
<1> QED
  BY <1>1, <1>2, <1>3, <1>4, <1>5 DEF Deliver

(* The steps of a busy worker.                                             *)
LEMMA BusyWorkerSteps ==
    ASSUME IInv, NEW w \in Workers, BusyStep(w)
    PROVE  TypeOK' /\ LifeMoves
<1> DEFINE j == worker[w].job
           r == jobs[j]
<1>i. worker[w].pc # "idle"
  BY DEF BusyStep, Touch, HandlerWaits, Reread, HandlerSucceeds, HandlerErrors, HandlerCrashes,
         FailJob, Resend, WorkerDies
<1>j. j \in JobIds
  BY <1>i DEF IInv, TypeOK, WorkersTypeOK
<1>0. RowsTypeOK /\ r \in Row /\ WorkersTypeOK /\ TypeOK
  BY <1>j, RowFacts DEF IInv, TypeOK
<1>g. \A pc \in WorkerPc : Goto(w, pc) => WorkersTypeOK'
  BY <1>0, <1>i, WorkerMoves
<1>b. Return(w) => WorkersTypeOK'
  BY <1>0, WorkerMoves
<1>n. UNCHANGED <<jobs, journal>> => RowsTypeOK' /\ LifeMoves
  BY <1>0, NoSave
<1>c. UNCHANGED <<paused, owed, resumer, expirations>>
  BY DEF BusyStep, Touch, HandlerWaits, Reread, HandlerSucceeds, HandlerErrors, HandlerCrashes,
         FailJob, Resend, WorkerDies
<1>q. queue' \in [JobIds -> 0..MaxMessages]
  <2>1. UNCHANGED queue \/ SendMessage(j)
    BY DEF BusyStep, Touch, HandlerWaits, Reread, HandlerSucceeds, HandlerErrors, HandlerCrashes,
           FailJob, Resend, WorkerDies
  <2> QED
    BY <1>0, <1>j, <2>1, QueueMoves DEF TypeOK
<1>s. SUFFICES RowsTypeOK' /\ LifeMoves /\ WorkersTypeOK'
  BY <1>0, <1>c, <1>q DEF TypeOK
<1> HIDE DEF j
<1>e. \A row \in Row : ReturnJob(w, j, row) => WorkersTypeOK'
  BY <1>0, <1>j, WorkerMoves
<1>p. {"failing", "reread"} \subseteq WorkerPc
  BY DEF WorkerPc
<1>m. ASSUME NEW row \in Row, Moves(j, r, row), SaveWithEvent(j, row)
      PROVE  RowsTypeOK' /\ LifeMoves
  BY <1>0, <1>j, <1>m, EventSave
<1> USE DEF j
<1>1. CASE Touch(w)
  <2>1. CASE r.cancel /\ CanEnd(r) /\ SaveWithEvent(j, MarkCancelled(r)) /\ Goto(w, "reread")
    <3>1. r.status \in Cancellable
      BY <2>1 DEF CanEnd
    <3> QED
      BY <1>0, <1>j, <1>g, <1>p, <1>m, <2>1, <3>1, RowMethods, MethodMoves
  <2>2. CASE ~r.cancel /\ CanEnd(r) /\ Save(j, ReportProgress(r)) /\ UNCHANGED worker
    <3>0. ReportProgress(r) \in Row
      BY <1>0, RowMethods
    <3>1. Same(r, ReportProgress(r)) /\ ReportProgress(r).status = r.status
      BY <1>0 DEF ReportProgress, Same, Row
    <3> QED
      BY <1>0, <1>j, <2>2, <3>0, <3>1, PlainSave DEF WorkersTypeOK
  <2>3. CASE Goto(w, "failing") /\ UNCHANGED <<jobs, journal>>
    BY <1>g, <1>p, <1>n, <2>3
  <2> QED
    BY <1>1, <2>1, <2>2, <2>3 DEF Touch
<1>2. CASE HandlerWaits(w)
  <2>1. CASE r.status = "running" /\ Save(j, WaitForHuman(r)) /\ Goto(w, "reread")
    <3>1. /\ WaitForHuman(r) \in Row /\ Same(r, WaitForHuman(r))
          /\ WaitForHuman(r).status = "waiting_human"
      BY <1>0, RowMethods DEF WaitForHuman, Same, Row
    <3> QED
      <4>1. RowsTypeOK' /\ LifeMoves
        BY <1>0, <1>j, <2>1, <3>1, PlainSave
      <4> QED
        BY <1>g, <1>p, <2>1, <4>1
  <2>2. CASE Goto(w, "failing") /\ UNCHANGED <<jobs, journal>>
    BY <1>g, <1>p, <1>n, <2>2
  <2> QED
    BY <1>2, <2>1, <2>2 DEF HandlerWaits
<1>3. CASE Reread(w)
  BY <1>0, <1>e, <1>n, <1>3 DEF Reread
<1>4. CASE HandlerSucceeds(w)
  <2>1. CASE CanEnd(r) /\ SaveWithEvent(j, Ended(r, Succeed(r))) /\ Return(w)
    <3>1. /\ Succeed(r) \in Row
          /\ r.status = "running" /\ ~r.cancel => Moves(j, r, Succeed(r))
      BY <1>0, <1>j, RowMethods, MethodMoves
    <3>2. Ended(r, Succeed(r)) \in Row /\ Moves(j, r, Ended(r, Succeed(r)))
      BY <1>0, <1>j, <2>1, <3>1, EndedMoves
    <3> QED
      BY <1>m, <1>b, <2>1, <3>2
  <2>2. CASE Goto(w, "failing") /\ UNCHANGED <<jobs, journal>>
    BY <1>g, <1>p, <1>n, <2>2
  <2> QED
    BY <1>4, <2>1, <2>2 DEF HandlerSucceeds
<1>5. ASSUME NEW transient \in BOOLEAN, HandlerErrors(w, transient)
      PROVE  RowsTypeOK' /\ LifeMoves /\ WorkersTypeOK'
  <2> DEFINE retried == transient /\ r.attempt < MaxAttempts[j]
             outcome == IF retried THEN ScheduleRetry(r) ELSE Fail(r, "handler")
             row == Ended(r, outcome)
  <2>1. CASE r.status = "running" /\ SaveWithEvent(j, WaitForHuman(r)) /\ Return(w)
    BY <1>0, <1>j, <1>m, <1>b, <2>1, RowMethods, MethodMoves
  <2>2. CASE CanEnd(r) /\ SaveWithEvent(j, row) /\ ReturnJob(w, j, row)
    <3>1. /\ outcome \in Row
          /\ r.status = "running" /\ ~r.cancel => Moves(j, r, outcome)
      BY <1>0, <1>j, RowMethods, MethodMoves
    <3> HIDE DEF outcome
    <3>2. row \in Row /\ Moves(j, r, row)
      BY <1>0, <1>j, <2>2, <3>1, EndedMoves
    <3> QED
      BY <1>m, <1>e, <2>2, <3>2
  <2>3. CASE Return(w) /\ UNCHANGED <<jobs, journal>>
    BY <1>b, <1>n, <2>3
  <2> QED
    BY <1>5, <2>1, <2>2, <2>3 DEF HandlerErrors
<1>6. CASE HandlerCrashes(w)
  BY <1>g, <1>p, <1>n, <1>6 DEF HandlerCrashes
<1>7. CASE FailJob(w)
  <2>1. CASE CanEnd(r) /\ SaveWithEvent(j, Ended(r, Fail(r, "handler"))) /\ Return(w)
    <3>1. /\ Fail(r, "handler") \in Row
          /\ r.status = "running" /\ ~r.cancel => Moves(j, r, Fail(r, "handler"))
      BY <1>0, <1>j, RowMethods, MethodMoves
    <3>2. Ended(r, Fail(r, "handler")) \in Row /\ Moves(j, r, Ended(r, Fail(r, "handler")))
      BY <1>0, <1>j, <2>1, <3>1, EndedMoves
    <3> QED
      BY <1>m, <1>b, <2>1, <3>2
  <2>2. CASE Return(w) /\ UNCHANGED <<jobs, journal>>
    BY <1>b, <1>n, <2>2
  <2> QED
    BY <1>7, <2>1, <2>2 DEF FailJob
<1>8. CASE Resend(w) \/ WorkerDies(w)
  BY <1>b, <1>n, <1>8 DEF Resend, WorkerDies
<1> QED
  BY <1>1, <1>2, <1>3, <1>4, <1>5, <1>6, <1>7, <1>8 DEF BusyStep

(* The clock and the recovery process.                                     *)
LEMMA SystemSteps ==
    ASSUME IInv, SystemStep
    PROVE  TypeOK' /\ LifeMoves
<1>0. RowsTypeOK /\ TypeOK
  BY DEF IInv, TypeOK
<1>1. CASE \E j \in JobIds : RetryMatures(j)
  <2>1. PICK j \in JobIds : RetryMatures(j)
    BY <1>1
  <2> DEFINE row == [jobs[j] EXCEPT !.retry = "due"]
  <2>2. jobs[j] \in Row /\ row \in Row
    BY RowFacts, RowMethods
  <2>s. Same(jobs[j], row) /\ row.status = jobs[j].status
    BY <2>2 DEF Same, Row
  <2>3. Save(j, row)
    BY <2>1 DEF RetryMatures, Save
  <2> HIDE DEF row
  <2>4. RowsTypeOK' /\ LifeMoves
    BY <1>0, <2>2, <2>s, <2>3, PlainSave
  <2> QED
    BY <1>0, <2>1, <2>4 DEF RetryMatures, TypeOK, WorkersTypeOK
<1>2. CASE \E j \in JobIds : HeartbeatExpires(j)
  <2>1. PICK j \in JobIds : HeartbeatExpires(j)
    BY <1>2
  <2> DEFINE row == [jobs[j] EXCEPT !.expired = TRUE]
  <2>2. jobs[j] \in Row /\ row \in Row
    BY RowFacts, RowMethods
  <2>s. Same(jobs[j], row) /\ row.status = jobs[j].status
    BY <2>2 DEF Same, Row
  <2>3. Save(j, row)
    BY <2>1 DEF HeartbeatExpires, Save
  <2> HIDE DEF row
  <2>4. RowsTypeOK' /\ LifeMoves
    BY <1>0, <2>2, <2>s, <2>3, PlainSave
  <2>5. expirations' \in [JobIds -> Nat]
    BY <1>0, <2>1 DEF HeartbeatExpires, TypeOK
  <2> QED
    BY <1>0, <2>1, <2>4, <2>5 DEF HeartbeatExpires, TypeOK, WorkersTypeOK
<1>3. CASE \E A \in SUBSET Abandoned \ {{}} : Recover(A)
  <2>1. PICK A \in SUBSET Abandoned : Recover(A)
    BY <1>3
  <2>2. A \subseteq JobIds /\ \A j \in A : jobs[j].status = "running"
    BY DEF Abandoned
  <2>3. \A j \in JobIds : jobs[j] \in Row /\ RecoverAbandoned(j) \in Row
    BY <1>0, RecoveredRow DEF RowsTypeOK
  <2>4. ASSUME NEW j \in JobIds, NEW row \in Row
        PROVE  JournalEntry(j, row) \in [last : Status, started : Nat, refunded : Nat]
    BY <1>0 DEF JournalEntry, Row, RowsTypeOK
  <2>5. jobs' \in [JobIds -> Row]
    BY <2>1, <2>3 DEF Recover
  <2>6. journal' \in [JobIds -> [last : Status, started : Nat, refunded : Nat]]
    BY <1>0, <2>1, <2>3, <2>4 DEF Recover, RowsTypeOK
  <2>7. ASSUME NEW j \in JobIds PROVE Lifecycle!Step(j, Life(j), Life(j)')
    <3>1. CASE j \in A
      <4>1. /\ jobs'[j] = RecoverAbandoned(j)
            /\ journal'[j] = JournalEntry(j, RecoverAbandoned(j))
        BY <2>1, <3>1 DEF Recover
      <4>2. Moves(j, jobs[j], RecoverAbandoned(j))
        BY <1>0, <2>2, <3>1, RowFacts, RecoveredMoves
      <4> QED
        BY <1>0, <2>3, <4>1, <4>2, EventStep
    <3>2. CASE j \notin A
      <4>1. jobs'[j] = jobs[j] /\ journal'[j] = journal[j]
        BY <2>1, <3>2 DEF Recover
      <4> QED
        BY <4>1 DEF Life, Lifecycle!Step
    <3> QED
      BY <3>1, <3>2
  <2>8. owed' \subseteq Senders \X JobIds
    BY <1>0, <2>1, <2>2 DEF Recover, TypeOK, Senders
  <2> QED
    BY <1>0, <2>1, <2>5, <2>6, <2>7, <2>8 DEF Recover, TypeOK, RowsTypeOK, WorkersTypeOK, LifeMoves
<1> QED
  BY <1>1, <1>2, <1>3 DEF SystemStep

(* Every step, put together.                                               *)
LEMMA NextInvariant ==
    ASSUME IInv, [Next]_vars
    PROVE  IInv' /\ LifeMoves
<1>1. TypeOK' /\ LifeMoves
  <2>1. CASE RequestStep
    <3>2. CASE \E j \in JobIds :
                  Submit(j) \/ Cancel(j) \/ Retry(j) \/ ResumeWaitingHuman(j)
      BY <3>2, RequestSteps
    <3>3. CASE \E j \in JobIds : \/ VisitResumed(j)
                                 \/ \E s \in Senders : Dispatch(s, j) \/ DispatchLost(s, j)
      BY <3>3, DispatchSteps
    <3>4. CASE PauseBatch \/ ResumeBatch \/ ResumeFence
      BY <3>4, PauseSteps
    <3> QED
      BY <2>1, <3>2, <3>3, <3>4 DEF RequestStep
  <2>2. CASE SystemStep
    BY <2>2, SystemSteps
  <2>3. CASE \E w \in Workers : WorkerStep(w)
    <3>1. PICK w \in Workers : WorkerStep(w)
      BY <2>3
    <3>2. CASE \E j \in JobIds : Deliver(w, j)
      BY <3>2, DeliverStep
    <3>3. CASE BusyStep(w)
      BY <3>3, BusyWorkerSteps
    <3> QED
      BY <3>1, <3>2, <3>3 DEF WorkerStep
  <2>4. CASE UNCHANGED vars
    <3>1. RowsTypeOK' /\ LifeMoves
      BY <2>4, NoSave DEF IInv, TypeOK, vars
    <3> QED
      BY <2>4, <3>1 DEF IInv, TypeOK, WorkersTypeOK, vars
  <2> QED
    BY <2>1, <2>2, <2>3, <2>4 DEF Next
<1>2. \A j \in JobIds : Sound(j, Life(j)')
  BY <1>1, SoundStep DEF IInv, LifeMoves
<1> QED
  BY <1>1, <1>2 DEF IInv, Sound

-----------------------------------------------------------------------------
(* Theorems.                                                               *)

(* The invariant holds in every reachable state, for any jobs and workers. *)
THEOREM Invariance == Spec => []IInv
<1>1. Init => IInv
  BY InitInvariant
<1>2. IInv /\ [Next]_vars => IInv'
  BY NextInvariant
<1> QED
  BY <1>1, <1>2, PTL DEF Spec

(* Rows, queue, workers and batch keep their types.                        *)
THEOREM TypeCorrect == Spec => []TypeOK
<1>1. IInv => TypeOK
  BY DEF IInv
<1> QED
  BY <1>1, Invariance, PTL

(* Job.start, Job.resume_after_human and Job.recover_abandoned account for *)
(* every execution, whoever runs them and however they interleave.         *)
THEOREM AttemptsAreAccounted == Spec => []AttemptAccounting
<1>1. IInv => AttemptAccounting
  BY DEF IInv, Sound, Life, AttemptAccounting
<1> QED
  BY <1>1, Invariance, PTL

(* Job.start never refuses a queued job for want of an attempt.            *)
THEOREM QueuedJobsAreClaimable == Spec => []QueuedIsClaimable
<1>1. IInv => QueuedIsClaimable
  BY DEF IInv, Sound, Life, QueuedIsClaimable
<1> QED
  BY <1>1, Invariance, PTL

(* No late worker and no recovery changes a recorded outcome.              *)
THEOREM OutcomesAreFinal == Spec => OutcomeIsFinal
<1> DEFINE Kept == \A j \in JobIds :
        /\ jobs[j].status \in {"succeeded", "cancelled"} =>
               jobs'[j].status = jobs[j].status
        /\ jobs[j].status = "failed" /\ jobs'[j].status # "failed" =>
               jobs'[j].status = "queued" /\ jobs'[j].attempt = jobs[j].attempt
<1>1. ASSUME NEW j \in JobIds, IInv, Lifecycle!Step(j, Life(j), Life(j)')
      PROVE  /\ jobs[j].status \in {"succeeded", "cancelled"} =>
                    jobs'[j].status = jobs[j].status
             /\ jobs[j].status = "failed" /\ jobs'[j].status # "failed" =>
                    jobs'[j].status = "queued" /\ jobs'[j].attempt = jobs[j].attempt
  BY <1>1 DEF Life, Lifecycle!Step, Lifecycle!Born, Lifecycle!Claimed, Lifecycle!Settled,
     Lifecycle!Parked, Lifecycle!Requeued, Lifecycle!Refunded, Lifecycle!Cancelled,
     Lifecycle!Then, Lifecycle!Stage, Lifecycle!Unborn
<1>2. IInv /\ [Next]_vars => Kept
  BY <1>1, NextInvariant DEF LifeMoves
<1> HIDE DEF Kept
<1>3. IInv /\ [Next]_vars => [Kept]_vars
  BY <1>2
<1> QED
  BY <1>3, Invariance, PTL DEF Spec, OutcomeIsFinal, Kept

(* A requested cancellation is never overtaken by an outcome or a claim.   *)
THEOREM CancellationIsRespected == Spec => CancellationWins
<1> DEFINE Kept == \A j \in JobIds : jobs[j].cancel =>
        /\ jobs'[j].status \in {"succeeded", "failed"} => jobs'[j].status = jobs[j].status
        /\ jobs[j].status = "queued" => jobs'[j].status # "running"
<1>1. ASSUME NEW j \in JobIds, IInv, Lifecycle!Step(j, Life(j), Life(j)')
      PROVE  jobs[j].cancel =>
        /\ jobs'[j].status \in {"succeeded", "failed"} => jobs'[j].status = jobs[j].status
        /\ jobs[j].status = "queued" => jobs'[j].status # "running"
  BY <1>1 DEF Life, Lifecycle!Step, Lifecycle!Born, Lifecycle!Claimed, Lifecycle!Settled,
     Lifecycle!Parked, Lifecycle!Requeued, Lifecycle!Refunded, Lifecycle!Cancelled,
     Lifecycle!Then, Lifecycle!Stage, Lifecycle!Unborn
<1>2. IInv /\ [Next]_vars => Kept
  BY <1>1, NextInvariant DEF LifeMoves
<1> HIDE DEF Kept
<1>3. IInv /\ [Next]_vars => [Kept]_vars
  BY <1>2
<1> QED
  BY <1>3, Invariance, PTL DEF Spec, CancellationWins, Kept

(* The engine with workers, messages, recovery and batches implements the  *)
(* life of a job: initial states map to initial states, every step maps to *)
(* a step of JobLifecycle or to none.                                      *)
THEOREM EngineImplementsLifecycle == Spec => ImplementsLifecycle
<1> DEFINE lives == [j \in JobIds |->
                [status |-> jobs[j].status, attempt |-> jobs[j].attempt,
                 cancel |-> jobs[j].cancel, started |-> journal[j].started,
                 refunded |-> journal[j].refunded]]
<1>1. Init => Lifecycle!Init
  BY DEF Init, Lifecycle!Init, Lifecycle!Unborn, Lifecycle!Stage, AbsentRow
<1>2. IInv /\ [Next]_vars => Lifecycle!Next
  <2> SUFFICES ASSUME IInv, [Next]_vars PROVE Lifecycle!Next
    OBVIOUS
  <2>1. \A j \in JobIds : lives[j] = Life(j) /\ lives'[j] = Life(j)'
    BY DEF Life
  <2>2. \A j \in JobIds : Lifecycle!Step(j, lives[j], lives'[j])
    BY <2>1, NextInvariant DEF LifeMoves
  <2>3. DOMAIN lives' = JobIds
    OBVIOUS
  <2> QED
    BY <2>2, <2>3 DEF Lifecycle!Next
<1>3. IInv /\ [Next]_vars => [Lifecycle!Next]_lives
  BY <1>2
<1> QED
  BY <1>1, <1>3, Invariance, PTL DEF Spec, ImplementsLifecycle, Lifecycle!Spec, lives

-----------------------------------------------------------------------------
(* What the methods of Job do to the fields of a row that the remaining    *)
(* theorems look at.                                                       *)

(* A method that ends or parks an execution.                               *)
LEMMA EndingFields ==
    ASSUME NEW r \in Row
    PROVE  /\ WaitForHuman(r).status = "waiting_human"
           /\ Succeed(r).status = "succeeded"
           /\ \A code : Fail(r, code).status = "failed"
           /\ MarkCancelled(r).status = "cancelled"
           /\ ~WaitForHuman(r).expired /\ ~Succeed(r).expired /\ ~MarkCancelled(r).expired
           /\ \A code : ~Fail(r, code).expired
           /\ WaitForHuman(r).attempt = r.attempt /\ Succeed(r).attempt = r.attempt
           /\ MarkCancelled(r).attempt = r.attempt
           /\ \A code : Fail(r, code).attempt = r.attempt
           /\ WaitForHuman(r).retry = r.retry /\ Succeed(r).retry = r.retry
           /\ MarkCancelled(r).retry = "none"
           /\ \A code : Fail(r, code).retry = "none"
<1>1. /\ WaitForHuman(r).status = "waiting_human" /\ ~WaitForHuman(r).expired
      /\ WaitForHuman(r).attempt = r.attempt /\ WaitForHuman(r).retry = r.retry
  BY DEF Row, WaitForHuman
<1>2. /\ Succeed(r).status = "succeeded" /\ ~Succeed(r).expired
      /\ Succeed(r).attempt = r.attempt /\ Succeed(r).retry = r.retry
  BY DEF Row, Succeed
<1>3. /\ MarkCancelled(r).status = "cancelled" /\ ~MarkCancelled(r).expired
      /\ MarkCancelled(r).attempt = r.attempt /\ MarkCancelled(r).retry = "none"
  BY DEF Row, MarkCancelled
<1>4. ASSUME NEW code
      PROVE  /\ Fail(r, code).status = "failed" /\ ~Fail(r, code).expired
             /\ Fail(r, code).attempt = r.attempt /\ Fail(r, code).retry = "none"
  BY DEF Row, Fail
<1> QED
  BY <1>1, <1>2, <1>3, <1>4

(* A method that claims a job, queues it again or leaves it where it is.   *)
LEMMA QueueingFields ==
    ASSUME NEW r \in Row
    PROVE  /\ Start(r).status = "running" /\ ~Start(r).expired
           /\ /\ ReportProgress(r).status = r.status /\ ~ReportProgress(r).expired
              /\ ReportProgress(r).attempt = r.attempt /\ ReportProgress(r).retry = r.retry
           /\ /\ ScheduleRetry(r).status = "queued" /\ ~ScheduleRetry(r).expired
              /\ ScheduleRetry(r).retry = "future"
           /\ /\ RetryManually(r).status = "queued"
              /\ RetryManually(r).expired = r.expired
           /\ /\ ResumeAfterHuman(r).status = "queued"
              /\ ResumeAfterHuman(r).expired = r.expired
              /\ ResumeAfterHuman(r).attempt = GiveBackAttempt(r.attempt)
              /\ ResumeAfterHuman(r).retry = "due"
           /\ /\ r.status \in {"queued", "waiting_human"} =>
                     RequestCancellation(r).status = "cancelled"
              /\ r.status = "running" => RequestCancellation(r).status = "running"
              /\ RequestCancellation(r).attempt = r.attempt
              /\ RequestCancellation(r).retry \in {"none", r.retry}
              /\ RequestCancellation(r).expired => r.expired
<1>1. Start(r).status = "running" /\ ~Start(r).expired
  BY DEF Row, Start
<1>2. /\ ReportProgress(r).status = r.status /\ ~ReportProgress(r).expired
      /\ ReportProgress(r).attempt = r.attempt /\ ReportProgress(r).retry = r.retry
  BY DEF Row, ReportProgress
<1>3. /\ ScheduleRetry(r).status = "queued" /\ ~ScheduleRetry(r).expired
      /\ ScheduleRetry(r).retry = "future"
  BY DEF Row, ScheduleRetry
<1>4. RetryManually(r).status = "queued" /\ RetryManually(r).expired = r.expired
  BY DEF Row, RetryManually
<1>5. /\ ResumeAfterHuman(r).status = "queued"
      /\ ResumeAfterHuman(r).expired = r.expired
      /\ ResumeAfterHuman(r).attempt = GiveBackAttempt(r.attempt)
      /\ ResumeAfterHuman(r).retry = "due"
  BY DEF Row, ResumeAfterHuman
<1>6. CASE r.status \in {"queued", "waiting_human"}
  <2>1. RequestCancellation(r) = MarkCancelled(r)
    BY <1>6 DEF RequestCancellation
  <2> QED
    BY <1>1, <1>2, <1>3, <1>4, <1>5, <1>6, <2>1, EndingFields
<1>7. CASE r.status \notin {"queued", "waiting_human"}
  <2>1. RequestCancellation(r) = [r EXCEPT !.cancel = TRUE]
    BY <1>7 DEF RequestCancellation
  <2>2. /\ [r EXCEPT !.cancel = TRUE].status = r.status
        /\ [r EXCEPT !.cancel = TRUE].attempt = r.attempt
        /\ [r EXCEPT !.cancel = TRUE].retry = r.retry
        /\ [r EXCEPT !.cancel = TRUE].expired = r.expired
    BY DEF Row
  <2> QED
    BY <1>1, <1>2, <1>3, <1>4, <1>5, <1>7, <2>1, <2>2
<1> QED
  BY <1>6, <1>7

(* Where a transaction leaves the rows: the one it saves, and the others.  *)
LEMMA SavedRows ==
    ASSUME RowsTypeOK, NEW j \in JobIds, NEW row,
           SaveWithEvent(j, row) \/ Save(j, row)
    PROVE  jobs'[j] = row /\ \A i \in JobIds : i # j => jobs'[i] = jobs[i]
  BY DEF SaveWithEvent, Save, RowsTypeOK

-----------------------------------------------------------------------------
(* One worker at a time.  SoleExecutor alone is not inductive: a claim is  *)
(* refused because the row is running, and only an execution that ends     *)
(* takes it out of running as long as no heartbeat has expired.            *)

Owned(j) ==
    /\ ~jobs[j].expired
    /\ \A w \in Executing(j) : jobs[j].status = "running"
    /\ \A v, w \in Executing(j) : v = w

SoleInv == \A j \in JobIds : expirations[j] = 0 => Owned(j)

(* A worker that returns, or reads the job once more, executes nothing.    *)
LEMMA Executions ==
    ASSUME WorkersTypeOK, NEW w \in Workers, NEW i \in JobIds
    PROVE  /\ Return(w) => Executing(i)' = Executing(i) \ {w}
           /\ Goto(w, "reread") => Executing(i)' = Executing(i) \ {w}
           /\ \A j, row : ReturnJob(w, j, row) => Executing(i)' = Executing(i) \ {w}
           /\ worker[w].pc = "handler" /\ Goto(w, "failing") => Executing(i)' = Executing(i)
           /\ UNCHANGED worker => Executing(i)' = Executing(i)
<1> USE DEF Executing
<1>0. \A v \in Workers : worker[v] \in [pc : WorkerPc, job : JobIds \union {NoJob}]
  BY DEF WorkersTypeOK
<1>o. ASSUME NEW at, worker' = [worker EXCEPT ![w] = at], at.pc \notin {"handler", "failing"}
      PROVE  Executing(i)' = Executing(i) \ {w}
  <2>1. worker'[w] = at /\ \A v \in Workers : v # w => worker'[v] = worker[v]
    BY <1>o DEF WorkersTypeOK
  <2> QED
    BY <1>o, <2>1
<1>1. Return(w) => Executing(i)' = Executing(i) \ {w}
  BY <1>o DEF Return, Idle
<1>2. ASSUME Goto(w, "reread") PROVE Executing(i)' = Executing(i) \ {w}
  <2>1. worker'[w].pc = "reread" /\ \A v \in Workers : v # w => worker'[v] = worker[v]
    BY <1>0, <1>2 DEF Goto, WorkersTypeOK
  <2> QED
    BY <2>1
<1>3. ASSUME NEW j, NEW row, ReturnJob(w, j, row) PROVE Executing(i)' = Executing(i) \ {w}
  <2>1. CASE row.status = "queued" /\ row.retry # "none"
    <3> DEFINE at == [pc |-> "resend", job |-> j]
    <3>1. worker' = [worker EXCEPT ![w] = at]
      BY <1>3, <2>1 DEF ReturnJob
    <3>2. at.pc \notin {"handler", "failing"}
      OBVIOUS
    <3> HIDE DEF at
    <3> QED
      BY <1>o, <3>1, <3>2
  <2>2. CASE ~(row.status = "queued" /\ row.retry # "none")
    BY <1>o, <1>3, <2>2 DEF ReturnJob, Idle
  <2> QED
    BY <2>1, <2>2
<1>4. ASSUME worker[w].pc = "handler", Goto(w, "failing") PROVE Executing(i)' = Executing(i)
  <2>1. /\ worker'[w].pc = "failing" /\ worker'[w].job = worker[w].job
        /\ \A v \in Workers : v # w => worker'[v] = worker[v]
    BY <1>0, <1>4 DEF Goto, WorkersTypeOK
  <2> QED
    BY <1>4, <2>1
<1> QED
  BY <1>1, <1>2, <1>3, <1>4

(* A job stays owned as long as nobody starts to execute it and its row    *)
(* leaves running only with the worker that executes it.                   *)
LEMMA OwnerKept ==
    ASSUME NEW i \in JobIds, expirations[i] = 0 => Owned(i),
           Executing(i)' \subseteq Executing(i),
           expirations'[i] = 0 =>
               expirations[i] = 0 /\ (jobs'[i].expired => jobs[i].expired),
           jobs[i].status = "running" =>
               \/ jobs'[i].status = "running"
               \/ \E w \in Executing(i) : w \notin Executing(i)'
               \/ jobs[i].expired
    PROVE  expirations'[i] = 0 => Owned(i)'
<1> SUFFICES ASSUME expirations'[i] = 0 PROVE Owned(i)'
  OBVIOUS
<1>1. Owned(i) /\ ~jobs'[i].expired
  BY DEF Owned
<1>2. \A w \in Executing(i)' : jobs'[i].status = "running"
  BY <1>1 DEF Owned
<1> QED
  BY <1>1, <1>2 DEF Owned

(* Requests write rows and messages, not workers: a running job stays      *)
(* running, and no request ages a heartbeat.                               *)
LEMMA SoleRequests ==
    ASSUME IInv, SoleInv, RequestStep
    PROVE  SoleInv'
<1>0. RowsTypeOK /\ WorkersTypeOK /\ \A j \in JobIds : jobs[j] \in Row
  BY DEF IInv, TypeOK, RowsTypeOK
<1>u. UNCHANGED <<worker, expirations>>
  BY DEF RequestStep, Submit, Cancel, Retry, ResumeWaitingHuman, VisitResumed, Dispatch,
         DispatchLost, PauseBatch, ResumeBatch, ResumeFence
<1> DEFINE Quiet(i) == /\ jobs'[i].expired => jobs[i].expired
                       /\ jobs[i].status = "running" => jobs'[i].status = "running"
<1>q. SUFFICES \A i \in JobIds : Quiet(i)
  <2> SUFFICES ASSUME NEW i \in JobIds, Quiet(i)
               PROVE  expirations'[i] = 0 => Owned(i)'
    BY DEF SoleInv
  <2> HIDE DEF Quiet
  <2>1. Executing(i)' = Executing(i)
    BY <1>u DEF Executing
  <2>2. expirations'[i] = expirations[i] /\ (expirations[i] = 0 => Owned(i))
    BY <1>u DEF SoleInv
  <2> QED
    BY <2>1, <2>2, OwnerKept DEF Quiet
<1>s. ASSUME NEW j \in JobIds, NEW row, SaveWithEvent(j, row),
             row.expired => jobs[j].expired,
             jobs[j].status = "running" => row.status = "running"
      PROVE  \A i \in JobIds : Quiet(i)
  BY <1>0, <1>s, SavedRows
<1>n. UNCHANGED jobs => \A i \in JobIds : Quiet(i)
  OBVIOUS
<1> HIDE DEF Quiet
<1>1. ASSUME NEW j \in JobIds, Submit(j) PROVE \A i \in JobIds : Quiet(i)
  <2> DEFINE row == [AbsentRow EXCEPT !.status = "queued"]
  <2>1. ~row.expired /\ jobs[j].status # "running" /\ SaveWithEvent(j, row)
    BY <1>1 DEF Submit, AbsentRow
  <2> HIDE DEF row
  <2> QED
    BY <1>s, <2>1
<1>2. ASSUME NEW j \in JobIds, Cancel(j) PROVE \A i \in JobIds : Quiet(i)
  <2>1. SaveWithEvent(j, RequestCancellation(jobs[j]))
    BY <1>2 DEF Cancel
  <2> QED
    BY <1>0, <1>s, <2>1, QueueingFields
<1>3. ASSUME NEW j \in JobIds, Retry(j) PROVE \A i \in JobIds : Quiet(i)
  <2>1. SaveWithEvent(j, RetryManually(jobs[j])) /\ jobs[j].status # "running"
    BY <1>3 DEF Retry
  <2> QED
    BY <1>0, <1>s, <2>1, QueueingFields
<1>4. ASSUME NEW j \in JobIds, ResumeWaitingHuman(j) PROVE \A i \in JobIds : Quiet(i)
  <2>1. SaveWithEvent(j, ResumeAfterHuman(jobs[j])) /\ jobs[j].status # "running"
    BY <1>4 DEF ResumeWaitingHuman
  <2> QED
    BY <1>0, <1>s, <2>1, QueueingFields
<1>5. ASSUME NEW j \in JobIds, VisitResumed(j) PROVE \A i \in JobIds : Quiet(i)
  <2>1. CASE jobs[j].status = "waiting_human"
    <3>1. SaveWithEvent(j, ResumeAfterHuman(jobs[j])) /\ jobs[j].status # "running"
      BY <1>5, <2>1 DEF VisitResumed
    <3> QED
      BY <1>0, <1>s, <3>1, QueueingFields
  <2>2. CASE jobs[j].status # "waiting_human"
    BY <1>5, <1>n, <2>2 DEF VisitResumed
  <2> QED
    BY <2>1, <2>2
<1>6. ASSUME NEW j \in JobIds, NEW s \in Senders, Dispatch(s, j) \/ DispatchLost(s, j)
      PROVE  \A i \in JobIds : Quiet(i)
  BY <1>6, <1>n DEF Dispatch, DispatchLost
<1>7. CASE PauseBatch \/ ResumeBatch \/ ResumeFence
  BY <1>7, <1>n DEF PauseBatch, ResumeBatch, ResumeFence
<1> QED
  BY <1>1, <1>2, <1>3, <1>4, <1>5, <1>6, <1>7 DEF RequestStep

(* A heartbeat that expires is counted, and recovery only takes jobs whose *)
(* heartbeat has expired.                                                  *)
LEMMA SoleSystem ==
    ASSUME IInv, SoleInv, SystemStep
    PROVE  SoleInv'
<1>0. RowsTypeOK /\ (\A j \in JobIds : jobs[j] \in Row) /\ expirations \in [JobIds -> Nat]
  BY DEF IInv, TypeOK, RowsTypeOK
<1>u. UNCHANGED worker
  BY DEF SystemStep, RetryMatures, HeartbeatExpires, Recover
<1>e. \A i \in JobIds : Executing(i)' = Executing(i)
  BY <1>u DEF Executing
<1> SUFFICES ASSUME NEW i \in JobIds PROVE expirations'[i] = 0 => Owned(i)'
  BY DEF SoleInv
<1>i. expirations[i] = 0 => Owned(i)
  BY DEF SoleInv
<1>1. ASSUME NEW j \in JobIds, RetryMatures(j) PROVE expirations'[i] = 0 => Owned(i)'
  <2>1. UNCHANGED expirations
    BY <1>1 DEF RetryMatures
  <2>2. jobs'[i].expired = jobs[i].expired /\ jobs'[i].status = jobs[i].status
    BY <1>0, <1>1 DEF RetryMatures, Row
  <2> QED
    BY <1>e, <1>i, <2>1, <2>2, OwnerKept
<1>2. ASSUME NEW j \in JobIds, HeartbeatExpires(j) PROVE expirations'[i] = 0 => Owned(i)'
  <2>1. expirations' = [expirations EXCEPT ![j] = @ + 1]
    BY <1>2 DEF HeartbeatExpires
  <2>2. CASE i = j
    BY <1>0, <2>1, <2>2
  <2>3. CASE i # j
    <3>1. expirations'[i] = expirations[i]
      BY <1>0, <2>1, <2>3
    <3>2. jobs'[i] = jobs[i]
      BY <1>0, <1>2, <2>3 DEF HeartbeatExpires, RowsTypeOK
    <3> QED
      BY <1>e, <1>i, <3>1, <3>2, OwnerKept
  <2> QED
    BY <2>2, <2>3
<1>3. ASSUME NEW A \in SUBSET Abandoned, Recover(A) PROVE expirations'[i] = 0 => Owned(i)'
  <2>1. UNCHANGED expirations
    BY <1>3 DEF Recover
  <2>2. CASE i \in A
    BY <1>i, <2>1, <2>2 DEF Abandoned, Owned
  <2>3. CASE i \notin A
    <3>1. jobs'[i] = jobs[i]
      BY <1>3, <2>3 DEF Recover
    <3> QED
      BY <1>e, <1>i, <2>1, <3>1, OwnerKept
  <2> QED
    BY <2>2, <2>3
<1> QED
  BY <1>1, <1>2, <1>3 DEF SystemStep

(* A delivery claims a queued job, which nobody is executing.              *)
LEMMA SoleDeliver ==
    ASSUME IInv, SoleInv, NEW w \in Workers, NEW j \in JobIds, Deliver(w, j)
    PROVE  SoleInv'
<1> DEFINE r == jobs[j]
<1>0. RowsTypeOK /\ r \in Row /\ WorkersTypeOK
  BY DEF IInv, TypeOK, RowsTypeOK
<1>u. UNCHANGED expirations /\ worker[w].pc = "idle"
  BY DEF Deliver
<1> SUFFICES ASSUME NEW i \in JobIds PROVE expirations'[i] = 0 => Owned(i)'
  BY DEF SoleInv
<1>i. (expirations[i] = 0 => Owned(i)) /\ expirations'[i] = expirations[i]
  BY <1>u DEF SoleInv
<1>n. UNCHANGED worker => Executing(i)' = Executing(i)
  BY DEF Executing
<1>k. ASSUME Executing(i)' \subseteq Executing(i), jobs'[i].expired => jobs[i].expired,
             jobs[i].status = "running" => jobs'[i].status = "running"
      PROVE  expirations'[i] = 0 => Owned(i)'
  BY <1>i, <1>k, OwnerKept
<1>1. CASE UNCHANGED <<jobs, journal, worker>>
  BY <1>1, <1>n, <1>k
<1>2. CASE Save(j, [r EXCEPT !.retry = "none"]) /\ UNCHANGED worker
  <2>1. /\ [r EXCEPT !.retry = "none"].expired = r.expired
        /\ [r EXCEPT !.retry = "none"].status = r.status
    BY <1>0 DEF Row
  <2>2. jobs'[i].expired = jobs[i].expired /\ jobs'[i].status = jobs[i].status
    BY <1>0, <1>2, <2>1, SavedRows
  <2> QED
    BY <1>2, <1>n, <1>k, <2>2
<1>3. CASE ReturnJob(w, j, r) /\ UNCHANGED <<jobs, journal>>
  <2>1. Executing(i)' = Executing(i) \ {w}
    BY <1>0, <1>3, Executions
  <2> QED
    BY <1>3, <1>k, <2>1
<1>4. CASE r.status = "queued" /\ SaveWithEvent(j, MarkCancelled(r)) /\ UNCHANGED worker
  <2>1. /\ jobs'[i].expired => jobs[i].expired
        /\ jobs[i].status = "running" => jobs'[i].status = "running"
    BY <1>0, <1>4, SavedRows, EndingFields
  <2> QED
    BY <1>4, <1>n, <1>k, <2>1
<1>5. CASE /\ CanStart(j) /\ SaveWithEvent(j, Start(r))
           /\ worker' = [worker EXCEPT ![w] = [pc |-> "handler", job |-> j]]
  <2>1. /\ worker'[w].job = j /\ worker'[w].pc = "handler"
        /\ \A v \in Workers : v # w => worker'[v] = worker[v]
    BY <1>0, <1>5 DEF WorkersTypeOK
  <2>2. CASE i = j
    <3>1. expirations[i] = 0 => Executing(i) = {}
      BY <1>i, <1>5, <2>2 DEF Owned, CanStart
    <3>2. expirations[i] = 0 => \A v \in Executing(i)' : v = w
      BY <2>1, <3>1 DEF Executing
    <3>3. jobs'[i].status = "running" /\ ~jobs'[i].expired
      BY <1>0, <1>5, <2>2, SavedRows, QueueingFields
    <3> QED
      BY <1>i, <3>2, <3>3 DEF Owned
  <2>3. CASE i # j
    <3>1. Executing(i)' \subseteq Executing(i) /\ jobs'[i] = jobs[i]
      BY <1>0, <1>5, <2>1, <2>3, SavedRows DEF Executing
    <3> QED
      BY <1>k, <3>1
  <2> QED
    BY <2>2, <2>3
<1> QED
  BY <1>1, <1>2, <1>3, <1>4, <1>5 DEF Deliver

(* A busy worker writes the row of its own job, and stops executing it     *)
(* with the write that takes it out of running.                            *)
LEMMA SoleBusy ==
    ASSUME IInv, SoleInv, NEW w \in Workers, BusyStep(w)
    PROVE  SoleInv'
<1> DEFINE j == worker[w].job
           r == jobs[j]
<1>i. worker[w].pc # "idle"
  BY DEF BusyStep, Touch, HandlerWaits, Reread, HandlerSucceeds, HandlerErrors, HandlerCrashes,
         FailJob, Resend, WorkerDies
<1>0. RowsTypeOK /\ WorkersTypeOK /\ j \in JobIds /\ r \in Row
  BY <1>i DEF IInv, TypeOK, RowsTypeOK, WorkersTypeOK
<1>u. UNCHANGED expirations
  BY DEF BusyStep, Touch, HandlerWaits, Reread, HandlerSucceeds, HandlerErrors, HandlerCrashes,
         FailJob, Resend, WorkerDies
<1> SUFFICES ASSUME NEW i \in JobIds PROVE expirations'[i] = 0 => Owned(i)'
  BY DEF SoleInv
<1>a. (expirations[i] = 0 => Owned(i)) /\ expirations'[i] = expirations[i]
  BY <1>u DEF SoleInv
<1>n. ASSUME Executing(i)' \subseteq Executing(i), UNCHANGED jobs
      PROVE  expirations'[i] = 0 => Owned(i)'
  BY <1>a, <1>n, OwnerKept
<1>b. /\ Return(w) \/ Goto(w, "reread") => Executing(i)' = Executing(i) \ {w}
      /\ \A row : ReturnJob(w, j, row) => Executing(i)' = Executing(i) \ {w}
      /\ UNCHANGED worker => Executing(i)' = Executing(i)
      /\ worker[w].pc = "handler" /\ Goto(w, "failing") => Executing(i)' = Executing(i)
  BY <1>0, Executions
<1>e. ASSUME NEW row, SaveWithEvent(j, row) \/ Save(j, row), ~row.expired,
             worker[w].pc \in {"handler", "failing"},
             Executing(i)' = Executing(i) \ {w}
      PROVE  expirations'[i] = 0 => Owned(i)'
  <2>1. CASE i = j
    <3>1. jobs'[i] = row /\ w \in Executing(i) /\ w \notin Executing(i)'
      BY <1>0, <1>e, <2>1, SavedRows DEF Executing
    <3> QED
      BY <1>a, <1>e, <3>1, OwnerKept
  <2>2. CASE i # j
    <3>1. jobs'[i] = jobs[i]
      BY <1>0, <1>e, <2>2, SavedRows
    <3> QED
      BY <1>a, <1>e, <3>1, OwnerKept
  <2> QED
    BY <2>1, <2>2
<1>d. ASSUME NEW outcome, ~outcome.expired PROVE ~Ended(r, outcome).expired
  BY <1>0, <1>d, EndingFields DEF Ended
<1> HIDE DEF j, r
<1>1. CASE Touch(w)
  <2>h. worker[w].pc = "handler"
    BY <1>1 DEF Touch
  <2>1. CASE SaveWithEvent(j, MarkCancelled(r)) /\ Goto(w, "reread")
    BY <1>0, <1>b, <1>e, <2>h, <2>1, EndingFields
  <2>2. CASE Save(j, ReportProgress(r)) /\ UNCHANGED worker
    <3>1. ReportProgress(r).status = r.status /\ ~ReportProgress(r).expired
      BY <1>0, QueueingFields
    <3>2. ~jobs'[j].expired /\ jobs'[j].status = jobs[j].status
      BY <1>0, <2>2, <3>1, SavedRows DEF r
    <3>3. i # j => jobs'[i] = jobs[i]
      BY <1>0, <2>2, SavedRows
    <3>4. /\ jobs'[i].expired => jobs[i].expired
          /\ jobs[i].status = "running" => jobs'[i].status = "running"
      BY <3>2, <3>3
    <3> QED
      BY <1>a, <1>b, <2>2, <3>4, OwnerKept
  <2>3. CASE Goto(w, "failing") /\ UNCHANGED <<jobs, journal>>
    BY <1>n, <1>b, <2>h, <2>3
  <2> QED
    BY <1>1, <2>1, <2>2, <2>3 DEF Touch, j, r
<1>2. CASE HandlerWaits(w)
  <2>h. worker[w].pc = "handler"
    BY <1>2 DEF HandlerWaits
  <2>1. CASE Save(j, WaitForHuman(r)) /\ Goto(w, "reread")
    BY <1>0, <1>b, <1>e, <2>h, <2>1, EndingFields
  <2>2. CASE Goto(w, "failing") /\ UNCHANGED <<jobs, journal>>
    BY <1>n, <1>b, <2>h, <2>2
  <2> QED
    BY <1>2, <2>1, <2>2 DEF HandlerWaits, j, r
<1>3. CASE Reread(w)
  <2>1. ReturnJob(w, j, r) /\ UNCHANGED jobs
    BY <1>3 DEF Reread, j, r
  <2> QED
    BY <1>n, <1>b, <2>1
<1>4. CASE HandlerSucceeds(w)
  <2>h. worker[w].pc = "handler"
    BY <1>4 DEF HandlerSucceeds
  <2>1. CASE SaveWithEvent(j, Ended(r, Succeed(r))) /\ Return(w)
    <3>1. ~Ended(r, Succeed(r)).expired
      BY <1>0, <1>d, EndingFields
    <3> QED
      BY <1>b, <1>e, <2>h, <2>1, <3>1
  <2>2. CASE Goto(w, "failing") /\ UNCHANGED <<jobs, journal>>
    BY <1>n, <1>b, <2>h, <2>2
  <2> QED
    BY <1>4, <2>1, <2>2 DEF HandlerSucceeds, j, r
<1>5. ASSUME NEW transient \in BOOLEAN, HandlerErrors(w, transient)
      PROVE  expirations'[i] = 0 => Owned(i)'
  <2> DEFINE outcome == IF transient /\ r.attempt < MaxAttempts[j]
                        THEN ScheduleRetry(r) ELSE Fail(r, "handler")
  <2>h. worker[w].pc = "handler"
    BY <1>5 DEF HandlerErrors
  <2>1. CASE SaveWithEvent(j, WaitForHuman(r)) /\ Return(w)
    BY <1>0, <1>b, <1>e, <2>h, <2>1, EndingFields
  <2>2. CASE SaveWithEvent(j, Ended(r, outcome)) /\ ReturnJob(w, j, Ended(r, outcome))
    <3>1. ~outcome.expired
      BY <1>0, EndingFields, QueueingFields
    <3> HIDE DEF outcome
    <3>2. ~Ended(r, outcome).expired
      BY <1>d, <3>1
    <3>3. Executing(i)' = Executing(i) \ {w}
      BY <1>b, <2>2
    <3> QED
      BY <1>e, <2>h, <2>2, <3>2, <3>3
  <2>3. CASE Return(w) /\ UNCHANGED <<jobs, journal>>
    BY <1>n, <1>b, <2>3
  <2> QED
    BY <1>5, <2>1, <2>2, <2>3 DEF HandlerErrors, j, r
<1>6. CASE HandlerCrashes(w)
  BY <1>n, <1>b, <1>6 DEF HandlerCrashes
<1>7. CASE FailJob(w)
  <2>h. worker[w].pc = "failing"
    BY <1>7 DEF FailJob
  <2>1. CASE SaveWithEvent(j, Ended(r, Fail(r, "handler"))) /\ Return(w)
    <3>1. ~Ended(r, Fail(r, "handler")).expired
      BY <1>0, <1>d, EndingFields
    <3> QED
      BY <1>b, <1>e, <2>h, <2>1, <3>1
  <2>2. CASE Return(w) /\ UNCHANGED <<jobs, journal>>
    BY <1>n, <1>b, <2>2
  <2> QED
    BY <1>7, <2>1, <2>2 DEF FailJob, j, r
<1>8. CASE Resend(w) \/ WorkerDies(w)
  BY <1>n, <1>b, <1>8 DEF Resend, WorkerDies
<1> QED
  BY <1>1, <1>2, <1>3, <1>4, <1>5, <1>6, <1>7, <1>8 DEF BusyStep

(* While no heartbeat of a job has expired, one worker at most executes    *)
(* it, whatever the number of workers and of copies of its message.        *)
THEOREM OneExecutorPerJob == Spec => []SoleExecutor
<1>1. Init => SoleInv
  BY DEF Init, SoleInv, Owned, Executing, Idle, AbsentRow
<1>2. ASSUME IInv, SoleInv, [Next]_vars PROVE SoleInv'
  <2>1. CASE UNCHANGED vars
    BY <1>2, <2>1 DEF vars, SoleInv, Owned, Executing
  <2>2. CASE \E w \in Workers : WorkerStep(w)
    BY <1>2, <2>2, SoleDeliver, SoleBusy DEF WorkerStep
  <2> QED
    BY <1>2, <2>1, <2>2, SoleRequests, SoleSystem DEF Next
<1>3. SoleInv => SoleExecutor
  BY DEF SoleInv, Owned, SoleExecutor
<1> QED
  BY <1>1, <1>2, <1>3, Invariance, PTL DEF Spec

-----------------------------------------------------------------------------
(* A paused batch.  Every write that spends an attempt, starts a backoff   *)
(* or takes a job back from running to queued asks JobBatchIsPaused first. *)

HeldBack(r, s) ==
    /\ s.attempt <= r.attempt
    /\ s.retry = "future" => r.retry = "future"
    /\ r.status = "running" => s.status # "queued"

(* A row that is left alone, ended, parked, resumed or asked to cancel is  *)
(* held back.                                                              *)
LEMMA MethodsHoldBack ==
    ASSUME NEW r \in Row
    PROVE  /\ HeldBack(r, r)
           /\ HeldBack(r, WaitForHuman(r)) /\ HeldBack(r, Succeed(r))
           /\ \A code : HeldBack(r, Fail(r, code))
           /\ HeldBack(r, MarkCancelled(r))
           /\ HeldBack(r, ReportProgress(r)) /\ HeldBack(r, RequestCancellation(r))
           /\ r.status = "waiting_human" => HeldBack(r, ResumeAfterHuman(r))
           /\ r.status # "running" => HeldBack(r, [r EXCEPT !.retry = "none"])
           /\ HeldBack(r, [r EXCEPT !.retry = "due"])
           /\ HeldBack(r, [r EXCEPT !.expired = TRUE])
<1>0. r.attempt \in Nat
  BY DEF Row
<1>1. HeldBack(r, r)
  BY <1>0 DEF HeldBack
<1>2. /\ HeldBack(r, WaitForHuman(r)) /\ HeldBack(r, Succeed(r))
      /\ \A code : HeldBack(r, Fail(r, code))
      /\ HeldBack(r, MarkCancelled(r))
  BY <1>0, EndingFields DEF HeldBack
<1>3. HeldBack(r, ReportProgress(r))
  BY <1>0, QueueingFields DEF HeldBack
<1>4. HeldBack(r, RequestCancellation(r))
  <2>1. /\ RequestCancellation(r).attempt = r.attempt
        /\ RequestCancellation(r).retry \in {"none", r.retry}
        /\ r.status = "running" => RequestCancellation(r).status = "running"
    BY QueueingFields
  <2> QED
    BY <1>0, <2>1 DEF HeldBack
<1>5. r.status = "waiting_human" => HeldBack(r, ResumeAfterHuman(r))
  <2>1. GiveBackAttempt(r.attempt) <= r.attempt
    BY <1>0 DEF GiveBackAttempt
  <2> QED
    BY <2>1, QueueingFields DEF HeldBack
<1>6. r.status # "running" => HeldBack(r, [r EXCEPT !.retry = "none"])
  BY <1>0 DEF HeldBack, Row
<1>7. HeldBack(r, [r EXCEPT !.retry = "due"]) /\ HeldBack(r, [r EXCEPT !.expired = TRUE])
  <2>1. /\ [r EXCEPT !.retry = "due"].attempt = r.attempt
        /\ [r EXCEPT !.retry = "due"].retry = "due"
        /\ [r EXCEPT !.retry = "due"].status = r.status
    BY DEF Row
  <2>2. /\ [r EXCEPT !.expired = TRUE].attempt = r.attempt
        /\ [r EXCEPT !.expired = TRUE].retry = r.retry
        /\ [r EXCEPT !.expired = TRUE].status = r.status
    BY DEF Row
  <2> QED
    BY <1>0, <2>1, <2>2 DEF HeldBack
<1> QED
  BY <1>1, <1>2, <1>3, <1>4, <1>5, <1>6, <1>7

AllHeldBack == \A i \in ProductionJobs : paused => HeldBack(jobs[i], jobs'[i])

(* A transaction that saves a row of the batch holds it back.              *)
LEMMA HeldBackSave ==
    ASSUME IInv, NEW j \in JobIds, NEW row, SaveWithEvent(j, row) \/ Save(j, row),
           JobBatchIsPaused(j) => HeldBack(jobs[j], row)
    PROVE  AllHeldBack
<1> SUFFICES ASSUME NEW i \in ProductionJobs, paused PROVE HeldBack(jobs[i], jobs'[i])
  BY DEF AllHeldBack
<1>0. RowsTypeOK /\ i \in JobIds /\ jobs[i] \in Row
  BY JobsAssumption DEF JobsAssumption, IInv, TypeOK, RowsTypeOK
<1>1. CASE i = j
  BY <1>0, <1>1, SavedRows DEF JobBatchIsPaused
<1>2. CASE i # j
  BY <1>0, <1>2, SavedRows, MethodsHoldBack
<1> QED
  BY <1>1, <1>2

(* No row is written.                                                      *)
LEMMA HeldBackIdle ==
    ASSUME IInv, UNCHANGED jobs
    PROVE  AllHeldBack
  BY JobsAssumption, MethodsHoldBack DEF JobsAssumption, AllHeldBack, IInv, TypeOK, RowsTypeOK

(* Requests: a manual retry is refused while the batch is paused.          *)
LEMMA HeldBackRequests ==
    ASSUME IInv, RequestStep
    PROVE  AllHeldBack
<1>0. \A j \in JobIds : jobs[j] \in Row
  BY DEF IInv, TypeOK, RowsTypeOK
<1>1. ASSUME NEW j \in JobIds, Submit(j) PROVE AllHeldBack
  <2> DEFINE row == [AbsentRow EXCEPT !.status = "queued"]
  <2>1. row.attempt = 0 /\ row.retry = "none"
    BY DEF AbsentRow
  <2>2. SaveWithEvent(j, row) /\ jobs[j].status = "absent"
    BY <1>1 DEF Submit
  <2> HIDE DEF row
  <2>3. HeldBack(jobs[j], row)
    BY <1>0, <2>1, <2>2 DEF HeldBack, Row
  <2> QED
    BY <2>2, <2>3, HeldBackSave
<1>2. ASSUME NEW j \in JobIds, Cancel(j) PROVE AllHeldBack
  BY <1>0, <1>2, MethodsHoldBack, HeldBackSave DEF Cancel
<1>3. ASSUME NEW j \in JobIds, Retry(j) PROVE AllHeldBack
  BY <1>3, HeldBackSave DEF Retry
<1>4. ASSUME NEW j \in JobIds, ResumeWaitingHuman(j) PROVE AllHeldBack
  BY <1>0, <1>4, MethodsHoldBack, HeldBackSave DEF ResumeWaitingHuman
<1>5. ASSUME NEW j \in JobIds, VisitResumed(j) PROVE AllHeldBack
  <2>1. CASE jobs[j].status = "waiting_human"
    BY <1>0, <1>5, <2>1, MethodsHoldBack, HeldBackSave DEF VisitResumed
  <2>2. CASE jobs[j].status # "waiting_human"
    BY <1>5, <2>2, HeldBackIdle DEF VisitResumed
  <2> QED
    BY <2>1, <2>2
<1>6. ASSUME NEW j \in JobIds, NEW s \in Senders, Dispatch(s, j) \/ DispatchLost(s, j)
      PROVE  AllHeldBack
  BY <1>6, HeldBackIdle DEF Dispatch, DispatchLost
<1>7. CASE PauseBatch \/ ResumeBatch \/ ResumeFence
  BY <1>7, HeldBackIdle DEF PauseBatch, ResumeBatch, ResumeFence
<1> QED
  BY <1>1, <1>2, <1>3, <1>4, <1>5, <1>6, <1>7 DEF RequestStep

(* The clock, and recovery, which skips the jobs of a paused batch.        *)
LEMMA HeldBackSystem ==
    ASSUME IInv, SystemStep
    PROVE  AllHeldBack
<1>0. \A j \in JobIds : jobs[j] \in Row
  BY DEF IInv, TypeOK, RowsTypeOK
<1>1. ASSUME NEW j \in JobIds, RetryMatures(j) PROVE AllHeldBack
  BY <1>0, <1>1, MethodsHoldBack, HeldBackSave DEF RetryMatures, Save
<1>2. ASSUME NEW j \in JobIds, HeartbeatExpires(j) PROVE AllHeldBack
  BY <1>0, <1>2, MethodsHoldBack, HeldBackSave DEF HeartbeatExpires, Save
<1>3. ASSUME NEW A \in SUBSET Abandoned, Recover(A) PROVE AllHeldBack
  <2> SUFFICES ASSUME NEW i \in ProductionJobs, paused PROVE HeldBack(jobs[i], jobs'[i])
    BY DEF AllHeldBack
  <2>1. i \in JobIds /\ i \notin A
    BY JobsAssumption DEF JobsAssumption, Abandoned, JobBatchIsPaused
  <2>2. jobs'[i] = jobs[i]
    BY <1>3, <2>1 DEF Recover
  <2> QED
    BY <1>0, <2>1, <2>2, MethodsHoldBack
<1> QED
  BY <1>1, <1>2, <1>3 DEF SystemStep

(* A delivery under a pause clears the backoff and claims nothing; a late  *)
(* worker may end or park its job, and a transient error parks it.         *)
LEMMA HeldBackWorkers ==
    ASSUME IInv, NEW w \in Workers, WorkerStep(w)
    PROVE  AllHeldBack
<1>0. \A j \in JobIds : jobs[j] \in Row
  BY DEF IInv, TypeOK, RowsTypeOK
<1>1. ASSUME NEW j \in JobIds, Deliver(w, j) PROVE AllHeldBack
  <2>1. CASE UNCHANGED jobs
    BY <2>1, HeldBackIdle
  <2>2. CASE jobs[j].status = "queued" /\ Save(j, [jobs[j] EXCEPT !.retry = "none"])
    BY <1>0, <2>2, MethodsHoldBack, HeldBackSave
  <2>3. CASE SaveWithEvent(j, MarkCancelled(jobs[j]))
    BY <1>0, <2>3, MethodsHoldBack, HeldBackSave
  <2>4. CASE ~JobBatchIsPaused(j) /\ SaveWithEvent(j, Start(jobs[j]))
    BY <2>4, HeldBackSave
  <2> QED
    BY <1>1, <2>1, <2>2, <2>3, <2>4 DEF Deliver
<1>2. CASE BusyStep(w)
  <2> DEFINE j == worker[w].job
             r == jobs[j]
  <2>i. worker[w].pc # "idle"
    BY <1>2 DEF BusyStep, Touch, HandlerWaits, Reread, HandlerSucceeds, HandlerErrors,
           HandlerCrashes, FailJob, Resend, WorkerDies
  <2>0. j \in JobIds /\ r \in Row
    BY <1>0, <2>i DEF IInv, TypeOK, WorkersTypeOK
  <2>n. UNCHANGED jobs => AllHeldBack
    BY HeldBackIdle
  <2>s. ASSUME NEW row, SaveWithEvent(j, row) \/ Save(j, row),
               JobBatchIsPaused(j) => HeldBack(r, row)
        PROVE  AllHeldBack
    BY <2>0, <2>s, HeldBackSave
  <2>e. ASSUME NEW outcome, JobBatchIsPaused(j) => HeldBack(r, outcome)
        PROVE  JobBatchIsPaused(j) => HeldBack(r, Ended(r, outcome))
    BY <2>0, <2>e, MethodsHoldBack DEF Ended
  <2>m. /\ HeldBack(r, WaitForHuman(r)) /\ HeldBack(r, Succeed(r))
        /\ HeldBack(r, Fail(r, "handler"))
        /\ HeldBack(r, MarkCancelled(r)) /\ HeldBack(r, ReportProgress(r))
    BY <2>0, MethodsHoldBack
  <2> HIDE DEF j, r
  <2>1. CASE Touch(w)
    <3>1. \/ SaveWithEvent(j, MarkCancelled(r))
          \/ Save(j, ReportProgress(r))
          \/ UNCHANGED jobs
      BY <2>1 DEF Touch, j, r
    <3> QED
      BY <2>n, <2>s, <2>m, <3>1
  <2>2. CASE HandlerWaits(w)
    <3>1. Save(j, WaitForHuman(r)) \/ UNCHANGED jobs
      BY <2>2 DEF HandlerWaits, j, r
    <3> QED
      BY <2>n, <2>s, <2>m, <3>1
  <2>3. CASE HandlerSucceeds(w)
    <3>1. SaveWithEvent(j, Ended(r, Succeed(r))) \/ UNCHANGED jobs
      BY <2>3 DEF HandlerSucceeds, j, r
    <3> QED
      BY <2>n, <2>s, <2>e, <2>m, <3>1
  <2>4. ASSUME NEW transient \in BOOLEAN, HandlerErrors(w, transient) PROVE AllHeldBack
    <3> DEFINE outcome == IF transient /\ r.attempt < MaxAttempts[j]
                          THEN ScheduleRetry(r) ELSE Fail(r, "handler")
    <3>1. CASE SaveWithEvent(j, WaitForHuman(r))
      BY <2>s, <2>m, <3>1
    <3>2. CASE ~(transient /\ JobBatchIsPaused(j)) /\ SaveWithEvent(j, Ended(r, outcome))
      <4>1. JobBatchIsPaused(j) => HeldBack(r, outcome)
        BY <2>m, <3>2
      <4> HIDE DEF outcome
      <4> QED
        BY <2>s, <2>e, <3>2, <4>1
    <3>3. CASE UNCHANGED jobs
      BY <2>n, <3>3
    <3> QED
      BY <2>4, <3>1, <3>2, <3>3 DEF HandlerErrors, j, r
  <2>5. CASE FailJob(w)
    <3>1. SaveWithEvent(j, Ended(r, Fail(r, "handler"))) \/ UNCHANGED jobs
      BY <2>5 DEF FailJob, j, r
    <3> QED
      BY <2>n, <2>s, <2>e, <2>m, <3>1
  <2>6. CASE Reread(w) \/ HandlerCrashes(w) \/ Resend(w) \/ WorkerDies(w)
    BY <2>n, <2>6 DEF Reread, HandlerCrashes, Resend, WorkerDies
  <2> QED
    BY <1>2, <2>1, <2>2, <2>3, <2>4, <2>5, <2>6 DEF BusyStep
<1> QED
  BY <1>1, <1>2 DEF WorkerStep

(* A paused batch spends no attempt, starts no backoff and is left alone   *)
(* by recovery, whatever its workers were doing when it was paused.        *)
THEOREM PausedBatchesHold == Spec => PauseHolds
<1> DEFINE Kept == \A j \in ProductionJobs : paused =>
        /\ jobs'[j].attempt <= jobs[j].attempt
        /\ jobs'[j].retry = "future" => jobs[j].retry = "future"
        /\ jobs[j].status = "running" => jobs'[j].status # "queued"
<1>1. ASSUME IInv, [Next]_vars PROVE Kept
  <2>1. CASE UNCHANGED vars
    BY <1>1, <2>1, HeldBackIdle DEF vars, AllHeldBack, HeldBack
  <2>2. CASE Next
    BY <1>1, <2>2, HeldBackRequests, HeldBackSystem, HeldBackWorkers
       DEF Next, AllHeldBack, HeldBack
  <2> QED
    BY <1>1, <2>1, <2>2
<1> HIDE DEF Kept
<1>2. IInv /\ [Next]_vars => [Kept]_vars
  BY <1>1
<1> QED
  BY <1>2, Invariance, PTL DEF Spec, PauseHolds, Kept

-----------------------------------------------------------------------------
(* No message is lost.  NoStrandedJob is inductive with the types: who     *)
(* takes the last message of a queued job away hands the duty to send      *)
(* another one to a process whose next step is bound to keep it.           *)

Carried(j) ==
    \/ queue[j] > 0
    \/ \E s \in Senders : <<s, j>> \in owed
    \/ \E w \in Workers : worker[w] = [pc |-> "resend", job |-> j]
    \/ j \in ProductionJobs /\ (resumer.fence \/ j \in resumer.todo)

Awaited(j) == jobs[j].status = "queued" /\ ~JobBatchIsPaused(j)

(* A request that queues a job again owes it a message; one that writes a  *)
(* row otherwise leaves messages alone.                                    *)
LEMMA OwedMessage ==
    ASSUME IInv, NoStrandedJob, ~LossyDispatch, NEW j \in JobIds, NEW row,
           SaveWithEvent(j, row),
           row.status = "queued" => owed' = owed \union {<<"api", j>>},
           owed \subseteq owed',
           UNCHANGED <<paused, queue, worker>>,
           \A i \in JobIds : i # j => (i \in resumer'.todo <=> i \in resumer.todo),
           resumer'.fence = resumer.fence
    PROVE  NoStrandedJob'
<1> SUFFICES ASSUME NEW i \in JobIds, Awaited(i)' PROVE Carried(i)'
  BY DEF NoStrandedJob, Awaited, Carried
<1>0. RowsTypeOK
  BY DEF IInv, TypeOK
<1>1. CASE i = j
  <2>1. <<"api", i>> \in owed'
    BY <1>0, <1>1, SavedRows DEF Awaited
  <2> QED
    BY <2>1 DEF Carried, Senders
<1>2. CASE i # j
  <2>1. Awaited(i)
    BY <1>0, <1>2, SavedRows DEF Awaited, JobBatchIsPaused
  <2>2. Carried(i)
    BY <2>1 DEF NoStrandedJob, Awaited, Carried
  <2> QED
    BY <1>2, <2>2 DEF Carried
<1> QED
  BY <1>1, <1>2

(* The requests on one job.                                                *)
LEMMA CarriedRequests ==
    ASSUME IInv, NoStrandedJob, ~LossyDispatch, NEW j \in JobIds,
           Submit(j) \/ Cancel(j) \/ Retry(j) \/ ResumeWaitingHuman(j)
    PROVE  NoStrandedJob'
<1>0. jobs[j] \in Row
  BY DEF IInv, TypeOK, RowsTypeOK
<1>1. CASE Submit(j)
  BY <1>1, OwedMessage DEF Submit
<1>2. CASE Cancel(j)
  <2>1. RequestCancellation(jobs[j]).status # "queued"
    BY <1>0, <1>2, QueueingFields DEF Cancel, Cancellable
  <2>2. /\ SaveWithEvent(j, RequestCancellation(jobs[j]))
        /\ UNCHANGED <<paused, queue, owed, worker, resumer>>
    BY <1>2 DEF Cancel
  <2> QED
    BY <2>1, <2>2, OwedMessage
<1>3. CASE Retry(j)
  BY <1>3, OwedMessage DEF Retry
<1>4. CASE ResumeWaitingHuman(j)
  BY <1>4, OwedMessage DEF ResumeWaitingHuman
<1> QED
  BY <1>1, <1>2, <1>3, <1>4

(* The resume of the batch takes over every queued job when it opens the   *)
(* batch, and dispatches what it visits.                                   *)
LEMMA CarriedResume ==
    ASSUME IInv, NoStrandedJob, ~LossyDispatch,
           \/ PauseBatch \/ ResumeBatch \/ ResumeFence
           \/ \E j \in JobIds : VisitResumed(j)
    PROVE  NoStrandedJob'
<1>r. resumer \in [fence : BOOLEAN, todo : SUBSET ProductionJobs]
  BY DEF IInv, TypeOK
<1>1. CASE PauseBatch \/ ResumeBatch \/ ResumeFence
  <2> SUFFICES ASSUME NEW i \in JobIds, Awaited(i)' PROVE Carried(i)'
    BY DEF NoStrandedJob, Awaited, Carried
  <2>u. UNCHANGED <<jobs, queue, owed, worker>>
    BY <1>1 DEF PauseBatch, ResumeBatch, ResumeFence
  <2>1. CASE PauseBatch
    <3>1. Awaited(i) /\ UNCHANGED resumer
      BY <2>u, <2>1 DEF PauseBatch, Awaited, JobBatchIsPaused
    <3> QED
      BY <2>u, <3>1 DEF NoStrandedJob, Awaited, Carried
  <2>2. CASE ResumeBatch
    <3>1. resumer'.fence = TRUE
      BY <1>r, <2>2 DEF ResumeBatch
    <3>2. i \in ProductionJobs => Carried(i)'
      BY <3>1 DEF Carried
    <3>3. ASSUME i \notin ProductionJobs PROVE Carried(i)'
      <4>1. Awaited(i)
        BY <2>u, <3>3 DEF Awaited, JobBatchIsPaused
      <4>2. Carried(i)
        BY <4>1 DEF NoStrandedJob, Awaited, Carried
      <4> QED
        BY <2>u, <3>3, <4>2 DEF Carried
    <3> QED
      BY <3>2, <3>3
  <2>3. CASE ResumeFence
    <3>1. CASE i \in ProductionJobs
      <4>1. ~paused
        BY <2>3, <3>1 DEF ResumeFence, Awaited, JobBatchIsPaused
      <4>2. resumer'.todo = ProductionJobs
        BY <2>3, <4>1 DEF ResumeFence
      <4> QED
        BY <3>1, <4>2 DEF Carried
    <3>2. CASE i \notin ProductionJobs
      <4>1. Awaited(i)
        BY <2>u, <3>2 DEF Awaited, JobBatchIsPaused
      <4>2. Carried(i)
        BY <4>1 DEF NoStrandedJob, Awaited, Carried
      <4> QED
        BY <2>u, <3>2, <4>2 DEF Carried
    <3> QED
      BY <3>1, <3>2
  <2> QED
    BY <1>1, <2>1, <2>2, <2>3
<1>2. ASSUME NEW j \in JobIds, VisitResumed(j) PROVE NoStrandedJob'
  <2>1. /\ UNCHANGED <<paused, queue, worker>>
        /\ resumer' = [resumer EXCEPT !.todo = @ \ {j}]
    BY <1>2 DEF VisitResumed
  <2>2. resumer'.fence = resumer.fence /\ resumer'.todo = resumer.todo \ {j}
    BY <1>r, <2>1
  <2>3. CASE jobs[j].status = "waiting_human"
    <3>1. SaveWithEvent(j, ResumeAfterHuman(jobs[j])) /\ owed' = owed \union {<<"api", j>>}
      BY <1>2, <2>3 DEF VisitResumed
    <3> QED
      BY <2>1, <2>2, <3>1, OwedMessage
  <2>4. CASE jobs[j].status # "waiting_human"
    <3> SUFFICES ASSUME NEW i \in JobIds, Awaited(i)' PROVE Carried(i)'
      BY DEF NoStrandedJob, Awaited, Carried
    <3>1. UNCHANGED jobs
      BY <1>2, <2>4 DEF VisitResumed
    <3>2. Awaited(i) /\ owed \subseteq owed'
      BY <1>2, <2>1, <3>1 DEF VisitResumed, Awaited, JobBatchIsPaused
    <3>3. CASE i = j
      <4>1. <<"api", i>> \in owed'
        BY <1>2, <3>2, <3>3 DEF VisitResumed, Awaited
      <4> QED
        BY <4>1 DEF Carried, Senders
    <3>4. CASE i # j
      <4>1. Carried(i)
        BY <3>2 DEF NoStrandedJob, Awaited, Carried
      <4> QED
        BY <2>1, <2>2, <3>2, <3>4, <4>1 DEF Carried
    <3> QED
      BY <3>3, <3>4
  <2> QED
    BY <2>3, <2>4
<1> QED
  BY <1>1, <1>2

(* A sent message is in the queue, and no other message moves.             *)
LEMMA SentMessage ==
    ASSUME TypeOK, NEW j \in JobIds, SendMessage(j)
    PROVE  queue'[j] > 0 /\ \A i \in JobIds : queue[i] > 0 => queue'[i] > 0
<1>0. MaxMessages \in Nat \ {0} /\ queue \in [JobIds -> 0..MaxMessages]
  BY JobsAssumption DEF JobsAssumption, TypeOK
<1>1. \A i \in JobIds : queue[i] \in 0..MaxMessages
  BY <1>0
<1>2. queue'[j] = IF queue[j] < MaxMessages THEN queue[j] + 1 ELSE queue[j]
  BY <1>0 DEF SendMessage
<1>3. \A i \in JobIds : i # j => queue'[i] = queue[i]
  BY <1>0 DEF SendMessage
<1>4. queue'[j] > 0
  BY <1>0, <1>1, <1>2
<1> QED
  BY <1>3, <1>4

(* The dispatcher keeps its duty.                                          *)
LEMMA CarriedDispatch ==
    ASSUME IInv, NoStrandedJob, ~LossyDispatch, NEW j \in JobIds, NEW s \in Senders,
           Dispatch(s, j) \/ DispatchLost(s, j)
    PROVE  NoStrandedJob'
<1>1. Dispatch(s, j) /\ TypeOK
  BY DEF DispatchLost, IInv
<1>2. /\ queue'[j] > 0
      /\ \A i \in JobIds : queue[i] > 0 => queue'[i] > 0
  BY <1>1, SentMessage DEF Dispatch
<1>3. UNCHANGED <<jobs, paused, worker, resumer>> /\ owed' = owed \ {<<s, j>>}
  BY <1>1 DEF Dispatch
<1> SUFFICES ASSUME NEW i \in JobIds, Awaited(i)' PROVE Carried(i)'
  BY DEF NoStrandedJob, Awaited, Carried
<1>4. Carried(i)
  BY <1>3 DEF NoStrandedJob, Awaited, Carried, JobBatchIsPaused
<1>5. CASE i = j
  BY <1>2, <1>5 DEF Carried
<1>6. CASE i # j
  <2>1. \A t \in Senders : <<t, i>> \in owed => <<t, i>> \in owed'
    BY <1>3, <1>6
  <2> QED
    BY <1>2, <1>3, <1>4, <2>1 DEF Carried
<1> QED
  BY <1>5, <1>6

(* Time queues nothing, and recovery owes a message to what it queues.     *)
LEMMA CarriedSystem ==
    ASSUME IInv, NoStrandedJob, ~LossyDispatch, SystemStep
    PROVE  NoStrandedJob'
<1>0. \A j \in JobIds : jobs[j] \in Row
  BY DEF IInv, TypeOK, RowsTypeOK
<1>r. RowsTypeOK
  BY DEF IInv, TypeOK
<1>u. UNCHANGED <<paused, queue, worker, resumer>> /\ owed \subseteq owed'
  BY DEF SystemStep, RetryMatures, HeartbeatExpires, Recover
<1> SUFFICES ASSUME NEW i \in JobIds, Awaited(i)' PROVE Carried(i)'
  BY DEF NoStrandedJob, Awaited, Carried
<1>k. Awaited(i) => Carried(i)'
  <2>1. Awaited(i) => Carried(i)
    BY DEF NoStrandedJob, Awaited, Carried
  <2> QED
    BY <1>u, <2>1 DEF Carried
<1>s. jobs'[i].status = jobs[i].status => Awaited(i)
  BY <1>u DEF Awaited, JobBatchIsPaused
<1>1. ASSUME NEW j \in JobIds, RetryMatures(j) \/ HeartbeatExpires(j) PROVE Carried(i)'
  <2>1. jobs'[i].status = jobs[i].status
    <3>1. /\ [jobs[j] EXCEPT !.retry = "due"].status = jobs[j].status
          /\ [jobs[j] EXCEPT !.expired = TRUE].status = jobs[j].status
      BY <1>0 DEF Row
    <3>2. \/ Save(j, [jobs[j] EXCEPT !.retry = "due"])
          \/ Save(j, [jobs[j] EXCEPT !.expired = TRUE])
      BY <1>1 DEF RetryMatures, HeartbeatExpires, Save
    <3> QED
      BY <1>r, <3>1, <3>2, SavedRows
  <2> QED
    BY <1>k, <1>s, <2>1
<1>2. ASSUME NEW A \in SUBSET Abandoned, Recover(A) PROVE Carried(i)'
  <2>1. CASE i \in A
    <3>1. jobs'[i] = RecoverAbandoned(i)
      BY <1>2, <2>1 DEF Recover
    <3>2. <<"recovery", i>> \in owed'
      BY <1>2, <2>1, <3>1 DEF Recover, Awaited
    <3> QED
      BY <3>2 DEF Carried, Senders
  <2>2. CASE i \notin A
    <3>1. jobs'[i] = jobs[i]
      BY <1>2, <2>2 DEF Recover
    <3> QED
      BY <1>k, <1>s, <3>1
  <2> QED
    BY <2>1, <2>2
<1> QED
  BY <1>1, <1>2 DEF SystemStep

(* What a worker that is not about to send does to the messages of a job:  *)
(* nothing, and a queued job it returns with a backoff is sent again.      *)
LEMMA CarriedOthers ==
    ASSUME IInv, NEW w \in Workers, NEW i \in JobIds, Carried(i),
           worker[w] # [pc |-> "resend", job |-> i],
           \A v \in Workers : v # w => worker'[v] = worker[v],
           queue[i] > 0 => queue'[i] > 0,
           UNCHANGED <<owed, resumer>>
    PROVE  Carried(i)'
<1>1. CASE \E v \in Workers : worker[v] = [pc |-> "resend", job |-> i]
  BY <1>1 DEF Carried
<1>2. CASE ~\E v \in Workers : worker[v] = [pc |-> "resend", job |-> i]
  BY <1>2 DEF Carried
<1> QED
  BY <1>1, <1>2

(* The row a worker returns.                                               *)
LEMMA ReturnedRow ==
    ASSUME IInv, NEW w \in Workers, NEW j \in JobIds, NEW row,
           ReturnJob(w, j, row), row.status = "queued", row.retry # "none"
    PROVE  Carried(j)'
<1>1. worker'[w] = [pc |-> "resend", job |-> j]
  BY DEF ReturnJob, IInv, TypeOK, WorkersTypeOK
<1> QED
  BY <1>1 DEF Carried

(* A delivery takes a message away: of a job that is not queued, that is   *)
(* held by the pause, that is claimed or cancelled, or that is sent again. *)
LEMMA CarriedDelivery ==
    ASSUME IInv, NoStrandedJob, ~LossyDispatch,
           NEW w \in Workers, NEW j \in JobIds, Deliver(w, j)
    PROVE  NoStrandedJob'
<1> DEFINE r == jobs[j]
<1>0. RowsTypeOK /\ r \in Row /\ WorkersTypeOK /\ queue \in [JobIds -> 0..MaxMessages]
  BY DEF IInv, TypeOK, RowsTypeOK
<1>u. UNCHANGED <<paused, owed, resumer>> /\ worker[w] # [pc |-> "resend", job |-> j]
  BY DEF Deliver
<1>w. \A v \in Workers : v # w => worker'[v] = worker[v]
  BY <1>0 DEF Deliver, ReturnJob, WorkersTypeOK
<1>q. \A i \in JobIds : i # j => queue'[i] = queue[i]
  BY <1>0 DEF Deliver
<1> SUFFICES ASSUME NEW i \in JobIds, Awaited(i)' PROVE Carried(i)'
  BY DEF NoStrandedJob, Awaited, Carried
<1>1. CASE i # j
  <2>1. jobs'[i] = jobs[i]
    BY <1>0, <1>1, SavedRows DEF Deliver
  <2>2. Awaited(i)
    BY <1>u, <2>1 DEF Awaited, JobBatchIsPaused
  <2>3. Carried(i)
    BY <2>2 DEF NoStrandedJob, Awaited, Carried
  <2>4. worker[w] # [pc |-> "resend", job |-> i]
    BY DEF Deliver
  <2> QED
    BY <1>u, <1>w, <1>q, <1>1, <2>3, <2>4, CarriedOthers
<1>2. CASE i = j
  <2>p. ~JobBatchIsPaused(j)
    BY <1>u, <1>2 DEF Awaited, JobBatchIsPaused
  <2>1. CASE r.status # "queued" /\ UNCHANGED jobs
    BY <1>2, <2>1 DEF Awaited
  <2>2. CASE r.status = "queued" /\ r.retry = "future" /\ ReturnJob(w, j, r)
    BY <1>2, <2>2, ReturnedRow
  <2>3. CASE SaveWithEvent(j, MarkCancelled(r))
    BY <1>0, <1>2, <2>3, SavedRows, EndingFields DEF Awaited
  <2>4. CASE SaveWithEvent(j, Start(r))
    BY <1>0, <1>2, <2>4, SavedRows, QueueingFields DEF Awaited
  <2> QED
    BY <2>p, <2>1, <2>2, <2>3, <2>4 DEF Deliver
<1> QED
  BY <1>1, <1>2

(* A busy worker.                                                          *)
LEMMA CarriedByWorkers ==
    ASSUME IInv, NoStrandedJob, ~LossyDispatch, NEW w \in Workers, BusyStep(w)
    PROVE  NoStrandedJob'
<1> DEFINE j == worker[w].job
           r == jobs[j]
<1>i. worker[w].pc # "idle"
  BY DEF BusyStep, Touch, HandlerWaits, Reread, HandlerSucceeds, HandlerErrors, HandlerCrashes,
         FailJob, Resend, WorkerDies
<1>0. RowsTypeOK /\ WorkersTypeOK /\ TypeOK /\ j \in JobIds /\ r \in Row
  BY <1>i DEF IInv, TypeOK, RowsTypeOK, WorkersTypeOK
<1>u. UNCHANGED <<paused, owed, resumer>>
  BY DEF BusyStep, Touch, HandlerWaits, Reread, HandlerSucceeds, HandlerErrors, HandlerCrashes,
         FailJob, Resend, WorkerDies
<1>w. \A v \in Workers : v # w => worker'[v] = worker[v]
  <2>1. \/ Return(w) \/ Goto(w, "reread") \/ Goto(w, "failing") \/ UNCHANGED worker
        \/ \E row : ReturnJob(w, j, row)
    BY DEF BusyStep, Touch, HandlerWaits, Reread, HandlerSucceeds, HandlerErrors, HandlerCrashes,
           FailJob, Resend, WorkerDies
  <2> QED
    BY <1>0, <2>1 DEF Return, Goto, ReturnJob, WorkersTypeOK
<1> SUFFICES ASSUME NEW i \in JobIds, Awaited(i)' PROVE Carried(i)'
  BY DEF NoStrandedJob, Awaited, Carried
<1>k. ASSUME jobs'[i].status = jobs[i].status, queue[i] > 0 => queue'[i] > 0,
             worker[w] # [pc |-> "resend", job |-> i]
      PROVE  Carried(i)'
  <2>1. Awaited(i)
    BY <1>u, <1>k DEF Awaited, JobBatchIsPaused
  <2>2. Carried(i)
    BY <2>1 DEF NoStrandedJob, Awaited, Carried
  <2> QED
    BY <1>u, <1>w, <1>k, <2>2, CarriedOthers
<1>s. ASSUME NEW row, SaveWithEvent(j, row) \/ Save(j, row), UNCHANGED queue,
             worker[w].pc # "resend",
             row.status = "queued" => ReturnJob(w, j, row) /\ row.retry # "none"
      PROVE  Carried(i)'
  <2>1. CASE i = j
    <3>1. row.status = "queued"
      BY <1>0, <1>s, <2>1, SavedRows DEF Awaited
    <3> QED
      BY <1>0, <1>s, <2>1, <3>1, ReturnedRow
  <2>2. CASE i # j
    <3>1. jobs'[i] = jobs[i] /\ worker[w] # [pc |-> "resend", job |-> i]
      BY <1>0, <1>s, <2>2, SavedRows
    <3> QED
      BY <1>k, <1>s, <3>1
  <2> QED
    BY <2>1, <2>2
<1>n. ASSUME UNCHANGED <<jobs, queue>>, worker[w].pc # "resend" PROVE Carried(i)'
  BY <1>k, <1>n
<1> HIDE DEF j, r
<1>1. CASE Touch(w)
  <2>h. worker[w].pc = "handler" /\ UNCHANGED queue
    BY <1>1 DEF Touch
  <2>1. CASE SaveWithEvent(j, MarkCancelled(r))
    BY <1>0, <1>s, <2>h, <2>1, EndingFields
  <2>2. CASE CanEnd(r) /\ ~r.cancel /\ Save(j, ReportProgress(r))
    BY <1>0, <1>s, <2>h, <2>2, QueueingFields DEF CanEnd
  <2>3. CASE UNCHANGED jobs
    BY <1>n, <2>h, <2>3
  <2> QED
    BY <1>1, <2>1, <2>2, <2>3 DEF Touch, j, r
<1>2. CASE HandlerWaits(w)
  <2>h. worker[w].pc = "handler" /\ UNCHANGED queue
    BY <1>2 DEF HandlerWaits
  <2>1. CASE Save(j, WaitForHuman(r))
    BY <1>0, <1>s, <2>h, <2>1, EndingFields
  <2>2. CASE UNCHANGED jobs
    BY <1>n, <2>h, <2>2
  <2> QED
    BY <1>2, <2>1, <2>2 DEF HandlerWaits, j, r
<1>3. CASE Reread(w) \/ HandlerCrashes(w)
  BY <1>n, <1>3 DEF Reread, HandlerCrashes
<1>4. CASE HandlerSucceeds(w)
  <2>h. worker[w].pc = "handler" /\ UNCHANGED queue
    BY <1>4 DEF HandlerSucceeds
  <2>1. CASE SaveWithEvent(j, Ended(r, Succeed(r)))
    <3>1. Ended(r, Succeed(r)).status # "queued"
      BY <1>0, EndingFields DEF Ended
    <3> QED
      BY <1>s, <2>h, <2>1, <3>1
  <2>2. CASE UNCHANGED jobs
    BY <1>n, <2>h, <2>2
  <2> QED
    BY <1>4, <2>1, <2>2 DEF HandlerSucceeds, j, r
<1>5. ASSUME NEW transient \in BOOLEAN, HandlerErrors(w, transient) PROVE Carried(i)'
  <2> DEFINE outcome == IF transient /\ r.attempt < MaxAttempts[j]
                        THEN ScheduleRetry(r) ELSE Fail(r, "handler")
  <2>h. worker[w].pc = "handler" /\ UNCHANGED queue
    BY <1>5 DEF HandlerErrors
  <2>1. CASE SaveWithEvent(j, WaitForHuman(r))
    BY <1>0, <1>s, <2>h, <2>1, EndingFields
  <2>2. CASE SaveWithEvent(j, Ended(r, outcome)) /\ ReturnJob(w, j, Ended(r, outcome))
    <3>1. outcome.status = "queued" => outcome.retry # "none"
      BY <1>0, EndingFields, QueueingFields
    <3> HIDE DEF outcome
    <3>2. Ended(r, outcome).status = "queued" => Ended(r, outcome).retry # "none"
      BY <1>0, <3>1, EndingFields DEF Ended
    <3> QED
      BY <1>s, <2>h, <2>2, <3>2
  <2>3. CASE UNCHANGED jobs
    BY <1>n, <2>h, <2>3
  <2> QED
    BY <1>5, <2>1, <2>2, <2>3 DEF HandlerErrors, j, r
<1>6. CASE FailJob(w)
  <2>h. worker[w].pc = "failing" /\ UNCHANGED queue
    BY <1>6 DEF FailJob
  <2>1. CASE SaveWithEvent(j, Ended(r, Fail(r, "handler")))
    <3>1. Ended(r, Fail(r, "handler")).status # "queued"
      BY <1>0, EndingFields DEF Ended
    <3> QED
      BY <1>s, <2>h, <2>1, <3>1
  <2>2. CASE UNCHANGED jobs
    BY <1>n, <2>h, <2>2
  <2> QED
    BY <1>6, <2>1, <2>2 DEF FailJob, j, r
<1>7. CASE Resend(w) \/ WorkerDies(w)
  <2>1. UNCHANGED jobs
    BY <1>7 DEF Resend, WorkerDies
  <2>2. CASE SendMessage(j)
    <3>1. queue'[j] > 0 /\ (queue[i] > 0 => queue'[i] > 0)
      BY <1>0, <2>2, SentMessage
    <3>2. i # j => worker[w] # [pc |-> "resend", job |-> i]
      BY DEF j
    <3> QED
      BY <1>k, <2>1, <3>1, <3>2 DEF Carried
  <2>3. CASE worker[w].pc # "resend" /\ UNCHANGED queue
    BY <1>n, <2>1, <2>3
  <2> QED
    BY <1>7, <2>2, <2>3 DEF Resend, WorkerDies, j
<1> QED
  BY <1>1, <1>2, <1>3, <1>4, <1>5, <1>6, <1>7 DEF BusyStep

(* If processes do not die between their commit and their send, a queued   *)
(* job outside a paused batch never loses its last message.                *)
THEOREM QueuedJobsAreCarried == Spec => []NoStrandedJob
<1>1. Init => NoStrandedJob
  BY DEF Init, NoStrandedJob, AbsentRow
<1>2. ASSUME IInv, NoStrandedJob, [Next]_vars PROVE NoStrandedJob'
  <2>1. CASE LossyDispatch
    BY <2>1 DEF NoStrandedJob
  <2>2. CASE ~LossyDispatch /\ UNCHANGED vars
    BY <1>2, <2>2 DEF vars, NoStrandedJob, JobBatchIsPaused
  <2>3. CASE ~LossyDispatch /\ RequestStep
    BY <1>2, <2>3, CarriedRequests, CarriedResume, CarriedDispatch DEF RequestStep
  <2>4. CASE ~LossyDispatch /\ SystemStep
    BY <1>2, <2>4, CarriedSystem
  <2>5. CASE ~LossyDispatch /\ \E w \in Workers : WorkerStep(w)
    BY <1>2, <2>5, CarriedDelivery, CarriedByWorkers DEF WorkerStep
  <2> QED
    BY <1>2, <2>1, <2>2, <2>3, <2>4, <2>5 DEF Next
<1> QED
  BY <1>1, <1>2, Invariance, PTL DEF Spec
=============================================================================
