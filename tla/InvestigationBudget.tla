------------------------- MODULE InvestigationBudget -------------------------
(***************************************************************************)
(* The budget of one investigation.  The canonical copy lives in the       *)
(* approved G2 envelope and is saved by compare-and-swap on the envelope   *)
(* version; normalised rows mirror it for the external-effect coordinator. *)
(* Bridge turns of the running job, tool calls of the agent and of the     *)
(* operator, G2 decisions, resumptions and reconciliations all change it,  *)
(* each from the envelope it read.                                         *)
(*                                                                         *)
(* One transaction is one action.  A read that a later transaction of the  *)
(* same operation relies on is an action of its own; a read and a save in  *)
(* one transaction are one action when a conflict only aborts it.  Every   *)
(* operation has its cost in one capped dimension.                         *)
(***************************************************************************)
EXTENDS Integers, FiniteSets, FiniteSetsExt

CONSTANTS
    Turns,          \* Bridge turn attempts of one turn, by operation key
    Tools,          \* tool invocations, by operation key
    Kind,           \* of a tool: see BudgetAssumption
    Attempt,        \* attempt number in the key of a Bridge turn
    Cost,           \* amount an operation reserves
    Dims,           \* capped budget dimensions
    ExternalDims,   \* the ones a revocation sets to zero
    Dim,            \* dimension an operation is charged to
    Limit,          \* limits of the first approved envelope
    MaxLimit,       \* bound: limits an analyst may ask for
    MaxDecisions,   \* bound: number of G2 decisions after the first approval
    MaxRuns         \* bound: times a Bridge turn attempt is entered

Ops == Turns \union Tools

(* read: a trusted passive VirusTotal read; advisor: advisor.consult, whose *)
(* cost is measured before it is sent; external: an external tool without   *)
(* a coordinator; local: an independent local effect.                       *)
ASSUME BudgetAssumption ==
    /\ IsFiniteSet(Turns) /\ IsFiniteSet(Tools) /\ Turns \intersect Tools = {}
    /\ Kind \in [Tools -> {"read", "advisor", "external", "local"}]
    /\ Attempt \in [Turns -> Nat]
    /\ Cost \in [Ops -> Nat]
    /\ ExternalDims \subseteq Dims
    /\ Dim \in [Ops -> Dims]
    /\ Limit \in [Dims -> Nat]
    /\ MaxLimit \in Nat /\ MaxDecisions \in Nat /\ MaxRuns \in Nat

VARIABLES
    envelope,   \* row of investigation_envelopes, its budget_snapshot included
    rows,       \* rows of investigation_budget_reservations
    inv,        \* status of the tool invocations
    ops,        \* the coroutine of each operation
    attempt,    \* investigation_bridge_attempt of the working state
    sent,       \* history: operations handed to an external provider
    waived      \* history: operations an analyst declared not executed

vars == <<envelope, rows, inv, ops, attempt, sent, waived>>

-----------------------------------------------------------------------------
(* Reservations.                                                           *)

BudgetReservation == [status : {"none", "reserved", "committed", "released"},
                      amount : Nat, used : Nat]

NoReservation == [status |-> "none", amount |-> 0, used |-> 0]

Reserved(amount) == [status |-> "reserved", amount |-> amount, used |-> 0]

(* commit, release and release_confirmed_non_submission of one reservation. *)
Committed(r, used) == IF r.status = "reserved"
                      THEN [r EXCEPT !.status = "committed", !.used = used] ELSE r

Released(r) == IF r.status = "reserved" THEN [r EXCEPT !.status = "released"] ELSE r

ReleasedConfirmed(r) == IF r.status \in {"reserved", "committed"}
                        THEN [r EXCEPT !.status = "released", !.used = 0] ELSE r

(* consumed plus reserved of a dimension.                                  *)
Charge(r) == IF r.status = "reserved" THEN r.amount ELSE r.used
Spent(res, d) ==
    SumFunctionOnSet([o \in Ops |-> Charge(res[o])], {o \in Ops : Dim[o] = d})

(* The capacity test of reserve and adjust_reservation: the operation's    *)
(* own reservation, if any, is not counted twice.                          *)
Fits(b, o, amount) ==
    Spent(b.res, Dim[o]) - Charge(b.res[o]) + amount <= b.limits[Dim[o]]

-----------------------------------------------------------------------------
(* Types.                                                                  *)

Reservations == [Ops -> BudgetReservation]

(* allowed: providers, acquisition and disclosure rights are not revoked;  *)
(* ceiling: authorization_ceiling retained by the last revocation.         *)
Envelope == [version : Nat, decision : Nat, allowed : BOOLEAN,
             limits : [Dims -> Nat], ceiling : [Dims -> Nat], res : Reservations]

Result == {"none", "success", "reused", "failed", "refused", "uncertain",
           "submitted", "blocked", "exhausted", "unresolved"}

(* seen: the envelope the coroutine read last; expected and approved: the  *)
(* version and the decision its authority carries; amount: reserved_budget *)
(* of the invocation; tries: conflicts met by the current loop.            *)
Op == [pc : {"idle", "reserve", "admitted", "sent", "settle", "save", "review",
             "done", "lost"},
       seen : Envelope, expected : Nat, approved : Nat, amount : Nat,
       tries : 0..2, runs : Nat, result : Result]

TypeOK ==
    /\ envelope \in Envelope
    /\ rows \in Reservations
    /\ inv \in [Tools -> {"none", "running", "needs_review", "closed"}]
    /\ ops \in [Ops -> Op]
    /\ attempt \in Nat
    /\ sent \subseteq Ops
    /\ waived \subseteq Tools

FirstEnvelope ==
    [version |-> 1, decision |-> 0, allowed |-> TRUE, limits |-> Limit,
     ceiling |-> Limit, res |-> [o \in Ops |-> NoReservation]]

Init ==
    /\ envelope = FirstEnvelope
    /\ rows = FirstEnvelope.res
    /\ inv = [o \in Tools |-> "none"]
    /\ ops = [o \in Ops |-> [pc |-> "idle", seen |-> FirstEnvelope, expected |-> 0,
                  approved |-> 0, amount |-> Cost[o], tries |-> 0, runs |-> 0,
                  result |-> "none"]]
    /\ attempt = 0
    /\ sent = {}
    /\ waived = {}

-----------------------------------------------------------------------------
(* Saving the envelope.                                                    *)

At(o, pc) == ops[o].pc = pc

(* save_if_version: the saved copy is the one read, with a new budget.     *)
Current_Mutant(o) == TRUE
Current(o) == envelope.version = ops[o].seen.version

(* The envelope write alone, as G2 decisions and the API do it.            *)
SaveEnvelopeOnly(e) == envelope' = [e EXCEPT !.version = @ + 1]

(* _save_envelope_version: the envelope, then its mirror in the same       *)
(* transaction.                                                            *)
SaveEnvelope(e, res) ==
    /\ SaveEnvelopeOnly([e EXCEPT !.res = res])
    /\ rows' = res

(* A coroutine of o moves to pc; its copy of the envelope is dropped.      *)
Moved(o, pc) == [ops EXCEPT ![o].pc = pc, ![o].seen = FirstEnvelope, ![o].tries = 0]
Goto(o, pc) == ops' = Moved(o, pc)

(* VersionConflictError: another try on the envelope as it is now.         *)
Reread_Mutant(o) ==
    ops' = [ops EXCEPT ![o].seen = envelope, ![o].tries = @ + 1]
Reread(o) ==
    /\ ops[o].tries < 2
    /\ ops' = [ops EXCEPT ![o].seen = envelope, ![o].tries = @ + 1]

BudgetUnchanged == UNCHANGED <<envelope, rows>>
HistoryUnchanged == UNCHANGED <<sent, waived>>

-----------------------------------------------------------------------------
(* Tool invocations: admission.                                            *)

(* The operator's request or the agent's turn reads the envelope.          *)
Read(o) ==
    /\ At(o, "idle")
    /\ o \in Tools => inv[o] = "none"
    /\ o \in Turns => Attempt[o] = attempt /\ ops[o].runs < MaxRuns
    /\ ops' = [ops EXCEPT ![o].pc = "reserve", ![o].seen = envelope,
                          ![o].runs = @ + 1]
    /\ BudgetUnchanged /\ HistoryUnchanged /\ UNCHANGED <<inv, attempt>>

(* budget.reserve; BudgetExceeded leaves the copy without a reservation.   *)
WithReservation(b, o) ==
    IF b.res[o].status = "none" /\ Fits(b, o, Cost[o])
    THEN [b.res EXCEPT ![o] = Reserved(Cost[o])] ELSE b.res

Authority(o) == [ops EXCEPT ![o].pc = "admitted", ![o].seen = FirstEnvelope,
                            ![o].expected = ops[o].seen.version + 1,
                            ![o].approved = ops[o].seen.decision,
                            ![o].tries = 0]

(* The RUNNING journal and its reservation are committed before the        *)
(* effect.                                                                 *)
Admit(o) ==
    /\ At(o, "reserve") /\ Current(o)
    /\ SaveEnvelope(ops[o].seen, WithReservation(ops[o].seen, o))
    /\ inv' = [inv EXCEPT ![o] = "running"]
    /\ ops' = Authority(o)
    /\ HistoryUnchanged /\ UNCHANGED attempt

(* envelope_admission_conflict: only an independent local effect tries     *)
(* again; the others end FAILED without a reservation.                     *)
AdmitConflict(o) ==
    /\ At(o, "reserve") /\ ~Current(o)
    /\ \/ Kind[o] = "local" /\ Reread(o) /\ UNCHANGED inv
       \/ /\ Kind[o] # "local" \/ ops[o].tries = 2
          /\ inv' = [inv EXCEPT ![o] = "closed"]
          /\ Goto(o, "done")
    /\ BudgetUnchanged /\ HistoryUnchanged /\ UNCHANGED attempt

(* An operator's stop is seen before the dispatch.                         *)
StopBeforeDispatch_Mutant(o) ==
    /\ At(o, "admitted") /\ inv[o] = "running"
    /\ inv' = [inv EXCEPT ![o] = "closed"]
    /\ Goto(o, "done")
    /\ BudgetUnchanged /\ HistoryUnchanged /\ UNCHANGED attempt
StopBeforeDispatch(o) ==
    /\ At(o, "admitted") /\ inv[o] = "running"
    /\ SaveEnvelope(envelope, [envelope.res EXCEPT ![o] = Released(@)])
    /\ inv' = [inv EXCEPT ![o] = "closed"]
    /\ Goto(o, "done")
    /\ HistoryUnchanged /\ UNCHANGED attempt

-----------------------------------------------------------------------------
(* Tool invocations: dispatch.                                             *)

(* check_current_admission.                                                *)
AdmissionCurrent(o) ==
    /\ envelope.allowed
    /\ envelope.decision = ops[o].approved
    /\ envelope.res[o] = Reserved(ops[o].amount)

(* _lock_authority and _check_authority of the coordinator, which reads    *)
(* the mirror rows and the envelope's version.                             *)
Consumable_Mutant(o) == envelope.allowed /\ rows[o] = Reserved(ops[o].amount)
Consumable(o) ==
    /\ envelope.allowed
    /\ envelope.version = ops[o].expected
    /\ rows[o] = Reserved(ops[o].amount)
    /\ o \in Tools => inv[o] = "running"

(* adjust_measured_reservation of advisor.consult: the measured prompt     *)
(* replaces the estimate.  Bound: one child of the consultation is         *)
(* measured.                                                               *)
Adjust(o, amount) ==
    /\ At(o, "admitted") /\ Kind[o] = "advisor" /\ inv[o] = "running"
    /\ ops[o].amount = Cost[o] /\ amount # Cost[o]
    /\ AdmissionCurrent(o)
    /\ Fits(envelope, o, amount)
    /\ SaveEnvelope(envelope, [envelope.res EXCEPT ![o].amount = amount])
    /\ ops' = [ops EXCEPT ![o].amount = amount,
                          ![o].expected = envelope.version + 1]
    /\ HistoryUnchanged /\ UNCHANGED <<inv, attempt>>

(* The request leaves the system.                                          *)
Send(o) ==
    /\ At(o, "admitted") /\ o \notin sent
    /\ \/ o \in Turns /\ Consumable(o)
       \/ o \in Tools /\ Kind[o] \in {"read", "advisor"} /\ Consumable(o)
       \/ o \in Tools /\ Kind[o] = "external" /\ AdmissionCurrent(o)
    /\ sent' = sent \union {o}
    /\ Goto(o, "sent")
    /\ BudgetUnchanged /\ UNCHANGED <<inv, attempt, waived>>

(* record_reuse: the answer of an earlier invocation serves this one; the  *)
(* coordinator releases the row, the envelope keeps the reservation.       *)
RecordReuse(o) ==
    /\ At(o, "admitted") /\ Kind[o] = "read" /\ Consumable(o)
    /\ rows' = [rows EXCEPT ![o] = Released(@)]
    /\ ops' = [Moved(o, "settle") EXCEPT ![o].result = "reused"]
    /\ HistoryUnchanged /\ UNCHANGED <<envelope, inv, attempt>>

(* release_refused_reuse_reservation: the earlier answer may not be        *)
(* reused; both copies are released.                                       *)
RefuseReuse(o) ==
    /\ At(o, "admitted") /\ Kind[o] = "read" /\ Consumable(o)
    /\ envelope.res[o].status = "reserved"
    /\ SaveEnvelopeOnly([envelope EXCEPT !.res[o] = Released(@)])
    /\ rows' = [rows EXCEPT ![o] = Released(@)]
    /\ ops' = [Moved(o, "settle") EXCEPT ![o].result = "refused"]
    /\ HistoryUnchanged /\ UNCHANGED <<inv, attempt>>

(* The dispatch ends: with a framework proof that nothing was sent, with   *)
(* an answer, or without a confirmed outcome.                              *)
ToolEnds(o, result) ==
    /\ \/ At(o, "admitted") /\ Kind[o] # "local" /\ result = "refused"
       \/ At(o, "admitted") /\ Kind[o] = "local"
             /\ envelope.res[o].status # "none" /\ result \in {"success", "failed"}
       \/ At(o, "admitted") /\ Kind[o] = "local" /\ result = "refused"
       \/ At(o, "sent") /\ result \in {"success", "uncertain"}
    /\ ops' = [Moved(o, "settle") EXCEPT ![o].result = result]
    /\ BudgetUnchanged /\ HistoryUnchanged /\ UNCHANGED <<inv, attempt>>

-----------------------------------------------------------------------------
(* Tool invocations: _complete_tool_reservation.                           *)

(* The terminal update of the invocation comes first: it fails when        *)
(* another actor moved the row, unless that only marked it for review.     *)
Terminable(o) == \/ inv[o] = "running"
                 \/ inv[o] = "needs_review" /\ ops[o].result = "uncertain"

SettleRead(o) ==
    /\ At(o, "settle")
    /\ IF o \in Turns \/ Terminable(o)
       THEN ops' = [ops EXCEPT ![o].pc = "save", ![o].seen = envelope]
       ELSE Goto(o, "lost")
    /\ BudgetUnchanged /\ HistoryUnchanged /\ UNCHANGED <<inv, attempt>>

(* The reservation to settle: one that admission could not make is         *)
(* restored from the invocation.                                           *)
Restored(b, o) == IF b.res[o].status = "none" THEN Reserved(ops[o].amount) ELSE b.res[o]

Settled(r, o, used) ==
    CASE ops[o].result = "refused" -> ReleasedConfirmed(r)
      [] ops[o].result = "failed" -> Released(r)
      [] OTHER -> Committed(r, used)

Parked(o) == ops[o].result = "uncertain" /\ Kind[o] # "read"

ToolClosed(o) ==
    inv' = [inv EXCEPT ![o] = IF ops[o].result = "uncertain" THEN "needs_review"
                              ELSE "closed"]

(* A reservation that is no longer active is only mirrored, from the       *)
(* envelope that was read.                                                 *)
SettleMirror(o) ==
    /\ At(o, "save") /\ Restored(ops[o].seen, o).status # "reserved"
    /\ rows' = ops[o].seen.res
    /\ ToolClosed(o)
    /\ Goto(o, "done")
    /\ HistoryUnchanged /\ UNCHANGED <<envelope, attempt>>

(* An unconfirmed effect keeps its reservation until it is reconciled.     *)
SettlePark_Mutant(o) ==
    /\ At(o, "save") /\ Restored(ops[o].seen, o).status = "reserved" /\ Parked(o)
    /\ Current(o)
    /\ SaveEnvelope(ops[o].seen, [ops[o].seen.res EXCEPT ![o] = Released(@)])
    /\ ToolClosed(o)
    /\ Goto(o, "review")
    /\ HistoryUnchanged /\ UNCHANGED attempt
SettlePark(o) ==
    /\ At(o, "save") /\ Restored(ops[o].seen, o).status = "reserved" /\ Parked(o)
    /\ ToolClosed(o)
    /\ Goto(o, "review")
    /\ BudgetUnchanged /\ HistoryUnchanged /\ UNCHANGED attempt

SettleSave(o, used) ==
    /\ At(o, "save") /\ Restored(ops[o].seen, o).status = "reserved" /\ ~Parked(o)
    /\ Current(o)
    /\ used <= Restored(ops[o].seen, o).amount
    /\ ops[o].result = "reused" => used = 0
    /\ SaveEnvelope(ops[o].seen, [ops[o].seen.res EXCEPT
                        ![o] = Settled(Restored(ops[o].seen, o), o, used)])
    /\ ToolClosed(o)
    /\ Goto(o, IF ops[o].result = "uncertain" THEN "review" ELSE "done")
    /\ HistoryUnchanged /\ UNCHANGED attempt

(* _complete_bridge_reservation: a confirmed non-submission is released in *)
(* the copy that was read, which is not saved.                             *)
ConfirmedNonSubmission(o) == ops[o].result \in {"exhausted", "unresolved"}

TurnSaves(o) == ~ConfirmedNonSubmission(o) /\ ops[o].seen.res[o].status = "reserved"

(* A conflict is retried; the third one rolls the transaction back.        *)
SettleConflict(o) ==
    /\ At(o, "save") /\ ~Current(o)
    /\ IF o \in Turns THEN TurnSaves(o)
       ELSE Restored(ops[o].seen, o).status = "reserved" /\ ~Parked(o)
    /\ Reread(o) \/ (ops[o].tries = 2 /\ Goto(o, "lost"))
    /\ BudgetUnchanged /\ HistoryUnchanged /\ UNCHANGED <<inv, attempt>>

-----------------------------------------------------------------------------
(* Bridge turns.                                                           *)

(* The run reserves the turn; BudgetExceeded concludes it.  A committed    *)
(* reservation is not saved again.                                         *)
ReserveTurn(o) ==
    /\ At(o, "reserve")
    /\ LET b == ops[o].seen
       IN  \/ /\ b.res[o].status = "none" /\ ~Fits(b, o, Cost[o])
              /\ Goto(o, "done") /\ BudgetUnchanged
           \/ /\ b.res[o].status = "committed"
              /\ ops' = [Moved(o, "admitted") EXCEPT ![o].expected = b.version,
                                                     ![o].approved = b.decision]
              /\ BudgetUnchanged
           \/ /\ b.res[o].status # "committed"
              /\ b.res[o].status = "none" => Fits(b, o, Cost[o])
              /\ IF Current(o)
                 THEN /\ SaveEnvelope(b, WithReservation(b, o))
                      /\ ops' = Authority(o)
                 ELSE Goto(o, "lost") /\ BudgetUnchanged
    /\ HistoryUnchanged /\ UNCHANGED <<inv, attempt>>

(* blocked: no submission (a stop, a changed policy, no authority);        *)
(* exhausted: PRE_SUBMISSION_RETRY_EXHAUSTED; unresolved: the sources of   *)
(* the context were refused; submitted: every outcome that may have        *)
(* reached the provider.  The stop and the policy are asked before the     *)
(* conversation finds a turn that an earlier run of this attempt sent.     *)
TurnEnds(o, result) ==
    /\ \/ At(o, "admitted") /\ result \in {"blocked", "unresolved"}
       \/ At(o, "admitted") /\ o \notin sent /\ result = "exhausted"
       \/ At(o, "sent") /\ result = "submitted"
       \/ At(o, "admitted") /\ o \in sent /\ result = "submitted"
    /\ ops' = [Moved(o, "settle") EXCEPT ![o].result = result]
    /\ BudgetUnchanged /\ HistoryUnchanged /\ UNCHANGED <<inv, attempt>>

AfterTurn(o) ==
    /\ Goto(o, "done")
    /\ attempt' = IF ops[o].result = "exhausted" THEN attempt + 1 ELSE attempt
    /\ HistoryUnchanged /\ UNCHANGED inv

TurnKept(o) ==
    /\ At(o, "save") /\ ~TurnSaves(o)
    /\ BudgetUnchanged
    /\ AfterTurn(o)

TurnSaved(o) ==
    /\ At(o, "save") /\ TurnSaves(o) /\ Current(o)
    /\ LET r == ops[o].seen.res[o]
       IN  SaveEnvelope(ops[o].seen, [ops[o].seen.res EXCEPT
               ![o] = IF ops[o].result = "blocked" THEN Released(r)
                      ELSE Committed(r, r.amount)])
    /\ AfterTurn(o)

(* The job of a lost worker enters run again with the same attempt.        *)
Rerun(o) ==
    /\ At(o, "lost")
    /\ ops' = [Moved(o, "idle") EXCEPT ![o].result = "none"]
    /\ BudgetUnchanged /\ HistoryUnchanged /\ UNCHANGED <<inv, attempt>>

-----------------------------------------------------------------------------
(* The worker disappears between two transactions.                         *)
Crash(o) ==
    /\ ops[o].pc \in {"reserve", "admitted", "sent", "settle", "save"}
    /\ o \in Tools => inv[o] # "none"
    /\ Goto(o, "lost")
    /\ BudgetUnchanged /\ HistoryUnchanged /\ UNCHANGED <<inv, attempt>>

-----------------------------------------------------------------------------
(* resume, by its transactions.                                            *)

Pending(o) == /\ Attempt[o] = attempt
              /\ \/ At(o, "lost")
                 \/ At(o, "done") /\ ops[o].result # "submitted"

(* The pending turn and its earlier attempts, once the owner job is over.  *)
(* A turn that was prepared and never sent is sealed and the next attempt  *)
(* opened; one that may have an answer is charged.  prepared: the turn row *)
(* exists.                                                                 *)
ResumeTurn(o, prepared) ==
    /\ Pending(o)
    /\ o \in sent => prepared
    /\ LET orphaned == prepared /\ o \notin sent
           settled == [p \in Ops |->
               IF p \notin Turns THEN envelope.res[p]
               ELSE IF Attempt[p] < attempt \/ (p = o /\ orphaned)
                    THEN Released(envelope.res[p])
               ELSE IF p = o /\ o \in sent
                    THEN Committed(envelope.res[p], envelope.res[p].amount)
               ELSE envelope.res[p]]
       IN  /\ IF settled # envelope.res THEN SaveEnvelope(envelope, settled)
                                        ELSE BudgetUnchanged
           /\ attempt' = IF orphaned THEN attempt + 1 ELSE attempt
    /\ ops' = [Moved(o, "idle") EXCEPT ![o].result = "none"]
    /\ HistoryUnchanged /\ UNCHANGED inv

(* No other transaction holds the row of the invocation.                   *)
Unlocked(o) == ~At(o, "save")

(* Every invocation still running is put under review.                     *)
ResumeTools ==
    /\ \E o \in Tools : inv[o] = "running"
    /\ \A o \in Tools : inv[o] = "running" => Unlocked(o)
    /\ inv' = [o \in Tools |-> IF inv[o] = "running" THEN "needs_review" ELSE inv[o]]
    /\ BudgetUnchanged /\ HistoryUnchanged /\ UNCHANGED <<ops, attempt>>

(* A durable framework proof of non-submission closes the review.          *)
ResumeProof(o) ==
    /\ inv[o] = "needs_review" /\ Unlocked(o) /\ o \notin sent
    /\ envelope.res[o].status \in {"reserved", "released"}
    /\ IF envelope.res[o].status = "reserved"
       THEN SaveEnvelope(envelope, [envelope.res EXCEPT ![o] = ReleasedConfirmed(@)])
       ELSE rows' = envelope.res /\ UNCHANGED envelope
    /\ inv' = [inv EXCEPT ![o] = "closed"]
    /\ HistoryUnchanged /\ UNCHANGED <<ops, attempt>>

-----------------------------------------------------------------------------
(* Analyst decisions.                                                      *)

(* reconcile_invocation: an outcome that may have executed, or one that an *)
(* agent declares, is charged in full; an analyst may declare the          *)
(* invocation not executed.                                                *)
Reconcile(o, executed) ==
    /\ inv[o] = "needs_review" /\ Unlocked(o)
    /\ envelope.res[o].status # "none"
    /\ executed => envelope.res[o].status # "released"
    /\ SaveEnvelope(envelope, [envelope.res EXCEPT
           ![o] = IF executed THEN Committed(@, @.amount) ELSE Released(@)])
    /\ inv' = [inv EXCEPT ![o] = "closed"]
    /\ waived' = IF executed THEN waived ELSE waived \union {o}
    /\ UNCHANGED <<ops, attempt, sent>>

(* The operator seals an advisor call that provably never reached the      *)
(* transport: only the envelope is saved.                                  *)
SealAdvisor(o) ==
    /\ inv[o] = "needs_review" /\ Unlocked(o) /\ Kind[o] = "advisor" /\ o \notin sent
    /\ envelope.res[o].status # "none"
    /\ IF envelope.res[o].status = "released" THEN UNCHANGED envelope
       ELSE SaveEnvelopeOnly([envelope EXCEPT !.res[o] = ReleasedConfirmed(@)])
    /\ inv' = [inv EXCEPT ![o] = "closed"]
    /\ HistoryUnchanged /\ UNCHANGED <<rows, ops, attempt>>

(* G2 extension: limits do not shrink; a revoked envelope comes back       *)
(* within the retained ceiling.  The reservations are copied.              *)
Extend(limits) ==
    /\ envelope.decision < MaxDecisions
    /\ \A d \in Dims : limits[d] >= envelope.limits[d]
    /\ ~envelope.allowed => \A d \in Dims : limits[d] <= envelope.ceiling[d]
    /\ SaveEnvelopeOnly([envelope EXCEPT !.decision = @ + 1, !.allowed = TRUE,
                                         !.limits = limits])
    /\ HistoryUnchanged /\ UNCHANGED <<rows, inv, ops, attempt>>

Zeroed(limits) == [d \in Dims |-> IF d \in ExternalDims THEN 0 ELSE limits[d]]

(* G2 revocation: the rights go, the outstanding reservations stay.        *)
Revoke ==
    /\ envelope.decision < MaxDecisions
    /\ SaveEnvelopeOnly([envelope EXCEPT !.decision = @ + 1, !.allowed = FALSE,
                             !.ceiling = envelope.limits, !.limits = Zeroed(@)])
    /\ HistoryUnchanged /\ UNCHANGED <<rows, inv, ops, attempt>>

(* Revocation of the inherited OSINT policy: no G2 decision is recorded.   *)
PropagateRevocation ==
    /\ envelope.decision = 0 /\ envelope.allowed
    /\ SaveEnvelopeOnly([envelope EXCEPT !.allowed = FALSE, !.limits = Zeroed(@)])
    /\ HistoryUnchanged /\ UNCHANGED <<rows, inv, ops, attempt>>

-----------------------------------------------------------------------------
ToolStep(o) ==
    \/ Admit(o) \/ AdmitConflict(o) \/ StopBeforeDispatch(o)
    \/ \E amount \in 0..MaxLimit : Adjust(o, amount)
    \/ RecordReuse(o) \/ RefuseReuse(o)
    \/ \E result \in {"success", "failed", "refused", "uncertain"} : ToolEnds(o, result)
    \/ SettleMirror(o) \/ SettlePark(o)
    \/ \E used \in 0..MaxLimit : SettleSave(o, used)

TurnStep(o) ==
    \/ ReserveTurn(o)
    \/ \E result \in {"submitted", "blocked", "exhausted", "unresolved"} :
          TurnEnds(o, result)
    \/ TurnKept(o) \/ TurnSaved(o) \/ Rerun(o)

AnalystStep ==
    \/ \E o \in Turns, prepared \in BOOLEAN : ResumeTurn(o, prepared)
    \/ ResumeTools
    \/ \E o \in Tools : \/ ResumeProof(o) \/ SealAdvisor(o)
                        \/ \E executed \in BOOLEAN : Reconcile(o, executed)
    \/ \E limits \in [Dims -> 0..MaxLimit] : Extend(limits)
    \/ Revoke \/ PropagateRevocation

Next ==
    \/ \E o \in Tools : ToolStep(o)
    \/ \E o \in Turns : TurnStep(o)
    \/ \E o \in Ops : Read(o) \/ Send(o) \/ SettleRead(o) \/ SettleConflict(o)
                      \/ Crash(o)
    \/ AnalystStep

Spec == Init /\ [][Next]_vars

-----------------------------------------------------------------------------
(* Properties.                                                             *)

(* No step may charge a dimension beyond its limit: a reservation is       *)
(* admitted against the envelope it is saved into, never against a copy    *)
(* that another operation has outdated (reserve, adjust_reservation and    *)
(* save_if_version).  Outstanding charges may exceed a limit only because  *)
(* a revocation lowered it.                                                *)
NoOvercommit ==
    [][envelope' # envelope =>
        \A d \in Dims : Spent(envelope'.res, d) > Spent(envelope.res, d)
            => Spent(envelope'.res, d) <= envelope'.limits[d]]_vars

(* What a tool sends is funded: at the moment of the send the canonical    *)
(* budget holds an active reservation of the authorised amount, although   *)
(* the coordinator reads the amount from mirror rows that may be behind    *)
(* the envelope.                                                           *)
FundedSend ==
    [][\A o \in (sent' \ sent) \intersect Tools :
          envelope.res[o] = Reserved(ops[o].amount)]_vars

(* A tool request that reached a provider stays charged (reserved while    *)
(* its outcome is unknown, committed after) unless an analyst declared it  *)
(* not executed, whatever crashes, resumes and late results interleave.    *)
ToolsStayCharged ==
    \A o \in Tools : o \in sent /\ o \notin waived =>
        envelope.res[o].status \in {"reserved", "committed"}

(* A closed tool invocation holds no reservation: no path ends an          *)
(* invocation and leaves its budget locked.                                *)
NoStrandedReservation ==
    \A o \in Tools : inv[o] = "closed" => envelope.res[o].status # "reserved"

(* Settlement is final in the canonical budget: a settled reservation is   *)
(* never active again, a released one is never charged, and a charge is    *)
(* given back only for an operation that was never sent.                   *)
SettlementIsFinal ==
    [][\A o \in Ops :
          /\ envelope.res[o].status \in {"committed", "released"} =>
                envelope'.res[o].status # "reserved"
          /\ envelope.res[o].status = "released" => envelope'.res[o] = envelope.res[o]
          /\ envelope.res[o].status = "committed" /\ o \in sent =>
                envelope'.res[o] = envelope.res[o]]_vars

-----------------------------------------------------------------------------
(* What the repository says and the code does not keep (README, section 5). *)

(* "Once transport submission starts, the external provider may have       *)
(* accepted the request": a Bridge turn that was submitted stays charged.  *)
TurnsStayCharged ==
    \A o \in Turns : o \in sent => envelope.res[o].status \in {"reserved", "committed"}

(* "Release a Bridge reservation when durable evidence proves no request   *)
(* was sent": a turn that ended as a confirmed non-submission holds no     *)
(* reservation.                                                            *)
NonSubmissionReleased ==
    \A o \in Turns : At(o, "done") /\ ConfirmedNonSubmission(o) =>
        envelope.res[o].status # "reserved"

(* "Mirror the envelope's canonical budget into normalized reservation     *)
(* rows": when no coroutine runs and every invocation is closed, the rows  *)
(* repeat the canonical reservations.                                      *)
MirrorAgreesAtRest ==
    /\ \A o \in Ops : ops[o].pc \in {"idle", "review", "done", "lost"}
    /\ \A o \in Tools : inv[o] \in {"none", "closed"}
    => rows = envelope.res
=============================================================================
