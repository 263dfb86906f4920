---------------------------- MODULE JobLifecycle ----------------------------
(***************************************************************************)
(* What the job engine promises about the life of a job, without workers,  *)
(* messages, heartbeats or batches: which statuses may follow each other,  *)
(* when an attempt is spent or given back, and what a requested            *)
(* cancellation excludes.  Several jobs may move in one step, because the  *)
(* recovery process handles all the jobs it finds in one transaction.      *)
(***************************************************************************)
EXTENDS Integers

CONSTANTS JobIds, MaxAttempts

VARIABLE life   \* per job: status, attempt, cancel, started, refunded

Stage(s, n, c, spent, back) ==
    [status |-> s, attempt |-> n, cancel |-> c, started |-> spent, refunded |-> back]

Unborn == Stage("absent", 0, FALSE, 0, 0)

(* The stage that follows a with another status and flag.                  *)
Then(a, s, c) == Stage(s, a.attempt, c, a.started, a.refunded)

Init == life = [j \in JobIds |-> Unborn]

(* The job is created.                                                     *)
Born(a, b) ==
    /\ a = Unborn
    /\ b = Then(a, "queued", FALSE)

(* A worker claims a queued job nobody asked to cancel.                    *)
Claimed(j, a, b) ==
    /\ a.status = "queued" /\ ~a.cancel /\ a.attempt < MaxAttempts[j]
    /\ b = Stage("running", a.attempt + 1, a.cancel, a.started + 1, a.refunded)

(* An execution ends, unless a cancellation was requested before.          *)
Settled(a, b) ==
    /\ a.status = "running" /\ ~a.cancel
    /\ \E s \in {"succeeded", "failed"} : b = Then(a, s, a.cancel)

(* An execution stops for an analyst.                                      *)
Parked(a, b) ==
    /\ a.status = "running"
    /\ b = Then(a, "waiting_human", a.cancel)

(* Another execution is wanted, and an attempt is left for it.  The manual *)
(* retry of a failed or parked job forgets a requested cancellation.       *)
Requeued(j, a, b) ==
    /\ a.attempt < MaxAttempts[j]
    /\ \/ /\ a.status = "running" /\ ~a.cancel
          /\ b = Then(a, "queued", a.cancel)
       \/ /\ a.status \in {"failed", "waiting_human"}
          /\ b = Then(a, "queued", FALSE)

(* The same attempt is resumed: it is given back, once, and spent again.   *)
Refunded(a, b) ==
    /\ a.attempt > 0
    /\ \/ a.status = "running" /\ ~a.cancel
       \/ a.status = "waiting_human"
    /\ b = Stage("queued", a.attempt - 1, a.cancel, a.started, a.refunded + 1)

(* A cancellation is requested, or carried out.                            *)
Cancelled(a, b) ==
    \/ /\ a.status = "running"
       /\ b = Then(a, a.status, TRUE)
    \/ /\ a.status \in {"queued", "running", "waiting_human"}
       /\ b = Then(a, "cancelled", TRUE)

Step(j, a, b) ==
    \/ b = a
    \/ Born(a, b)
    \/ Claimed(j, a, b)
    \/ Settled(a, b)
    \/ Parked(a, b)
    \/ Requeued(j, a, b)
    \/ Refunded(a, b)
    \/ Cancelled(a, b)

Next ==
    /\ \A j \in JobIds : Step(j, life[j], life'[j])
    /\ DOMAIN life' = JobIds

Spec == Init /\ [][Next]_life
=============================================================================
