--------------------------- MODULE ExternalEffects ---------------------------
(***************************************************************************)
(* The external-effect coordinator: every request that leaves the system   *)
(* (VirusTotal, Shodan, sample download, retrohunt, model submission) is   *)
(* one call of ExternalEffectCoordinator.send_one.  The coordinator keeps  *)
(* a durable claim per effect key, a process-local one-use permit and a    *)
(* one-use send capability, so that one effect key is handed over to a     *)
(* provider at most once, whatever crashes, replays, lost acknowledgements *)
(* or expiries happen in between.                                          *)
(*                                                                         *)
(* One database transaction is one action: each locks the envelope, the    *)
(* invocation, the reservation and the claim row.  A call is interrupted   *)
(* by the others between two transactions and while its transport runs.    *)
(*                                                                         *)
(* The checks of consume on data that never changes during a call (family  *)
(* and scope registration, credentials, disclosure labels, source          *)
(* references, digests) are one nondeterministic refusal.                  *)
(***************************************************************************)
EXTENDS Integers

CONSTANTS
    Calls,          \* calls of send_one, replays of an earlier call included
    Keys,           \* effect keys (investigation, request, occurrence)
    Invocations,    \* tool invocations, each with its budget reservation
    NoCall,         \* handoff_permit_nonce is NULL
    NoInvocation,   \* owner of a claim that does not exist
    KeyOf,          \* effect key of a call
    InvocationOf,   \* authority.invocation_id of a call
    FamilyOf,       \* family of the requests of an invocation
    Deferred,       \* calls with defer_invocation_needs_review=True
    MaxVersion      \* bound: version of the investigation envelope

ASSUME EffectsAssumption ==
    /\ NoCall \notin Calls
    /\ NoInvocation \notin Invocations
    /\ KeyOf \in [Calls -> Keys]
    /\ InvocationOf \in [Calls -> Invocations]
    /\ FamilyOf \in [Invocations -> {"read", "acquisition", "retrohunt", "model"}]
    /\ \A c, d \in Calls : KeyOf[c] = KeyOf[d] =>
          FamilyOf[InvocationOf[c]] = FamilyOf[InvocationOf[d]]
    /\ Deferred \subseteq {c \in Calls : FamilyOf[InvocationOf[c]] = "read"}
    /\ MaxVersion \in Nat

VARIABLES
    claims,     \* rows of external_effect_claims, by effect key
    uses,       \* rows of external_effect_uses: <<key, invocation>> per kind
    tools,      \* per invocation: its row, its reservation, its attempt row
    envelope,   \* the investigation: envelope version and rights, stop
    calls,      \* the calls of send_one
    sends       \* times the transport was allowed to emit each effect

vars == <<claims, uses, tools, envelope, calls, sends>>

-----------------------------------------------------------------------------
(* Types.                                                                  *)

EffectClaimState == {"absent", "consumed", "completed", "needs_review",
                     "definitively_not_submitted"}

(* coded: the claim was completed with an outcome_code (a provider's       *)
(* refusal) instead of a result.                                           *)
Claim == [state : EffectClaimState, nonce : Calls \union {NoCall},
          owner : Invocations \union {NoInvocation}, coded : BOOLEAN]

NoClaim == [state |-> "absent", nonce |-> NoCall, owner |-> NoInvocation,
            coded |-> FALSE]

(* attempt: the row the family locks with the claim: acquisition dispatch, *)
(* retrohunt reservation or model run.                                     *)
Tool == [status : {"running", "needs_review", "failed", "succeeded"},
         reservation : {"reserved", "released", "committed"},
         attempt : {"ready", "submitting", "obtained", "review"}]

CallPc == {"idle", "consume", "existing", "reuse", "release", "gate", "entered",
           "transport", "responded", "zero", "review", "done", "dead"}

(* refused carries a no-send proof of PREPARATION, PRE_CONSUME, an         *)
(* EXISTING_CLAIM or a REUSE_POLICY; reuse_unrecorded one of REUSE_RECORD. *)
Outcome == {"none", "completed", "reused", "refused", "reuse_unrecorded",
            "not_submitted", "ambiguous"}

(* fresh: the monotonic clock has not reached expires_at_monotonic; mark:  *)
(* mark_invocation of the pending needs_review; seen: state of the claim   *)
(* that consume returned as ExistingClaim; retryable: Ambiguous.retryable. *)
Call == [pc : CallPc, outcome : Outcome, expected : Nat, seen : EffectClaimState,
         permit : {"none", "issued", "burnt"}, fresh : BOOLEAN,
         attempted : BOOLEAN, used : BOOLEAN, mark : BOOLEAN,
         retryable : BOOLEAN]

TypeOK ==
    /\ claims \in [Keys -> Claim]
    /\ uses \in [sent : SUBSET (Keys \X Invocations),
                 reused : SUBSET (Keys \X Invocations)]
    /\ tools \in [Invocations -> Tool]
    /\ envelope \in [version : Nat, allowed : BOOLEAN, stopped : BOOLEAN]
    /\ calls \in [Calls -> Call]
    /\ sends \in [Keys -> Nat]

Init ==
    /\ claims = [k \in Keys |-> NoClaim]
    /\ uses = [sent |-> {}, reused |-> {}]
    /\ tools = [i \in Invocations |-> [status |-> "running",
                    reservation |-> "reserved", attempt |-> "ready"]]
    /\ envelope = [version |-> 1, allowed |-> TRUE, stopped |-> FALSE]
    /\ calls = [c \in Calls |-> [pc |-> "idle", outcome |-> "none",
                    expected |-> 0, seen |-> "absent", permit |-> "none",
                    fresh |-> FALSE, attempted |-> FALSE, used |-> FALSE,
                    mark |-> c \notin Deferred, retryable |-> TRUE]]
    /\ sends = [k \in Keys |-> 0]

-----------------------------------------------------------------------------
(* Steps of a call.                                                        *)

At(c, pc) == calls[c].pc = pc

Goto(c, pc) == calls' = [calls EXCEPT ![c].pc = pc]

Return(c, outcome) ==
    calls' = [calls EXCEPT ![c].pc = "done", ![c].outcome = outcome]

ClaimOf(c) == claims[KeyOf[c]]
ToolOf(c) == tools[InvocationOf[c]]
RowsUnchanged == UNCHANGED <<claims, uses, tools>>

(* The caller builds the authority from the envelope it reads.             *)
Begin(c) ==
    /\ At(c, "idle")
    /\ calls' = [calls EXCEPT ![c].pc = "consume",
                              ![c].expected = envelope.version]
    /\ RowsUnchanged /\ UNCHANGED <<envelope, sends>>

-----------------------------------------------------------------------------
(* consume.                                                                *)

(* _lock_authority and _check_authority, on the rows that others change.   *)
Authorised(c, nonRunningAllowed) ==
    /\ ~envelope.stopped
    /\ envelope.version = calls[c].expected
    /\ envelope.allowed
    /\ nonRunningAllowed \/ ToolOf(c).status = "running"

(* Each family accepts its attempt row in other states.                    *)
AttemptIsSendable(i) ==
    CASE FamilyOf[i] = "read"        -> TRUE
      [] FamilyOf[i] = "acquisition" -> tools[i].attempt \in {"ready", "submitting"}
      [] OTHER                       -> tools[i].attempt = "ready"

CanConsume(c) ==
    /\ ClaimOf(c).state = "absent"
    /\ Authorised(c, FALSE)
    /\ ToolOf(c).reservation = "reserved"
    /\ AttemptIsSendable(InvocationOf[c])

InsertClaim(c) ==
    /\ claims' = [claims EXCEPT ![KeyOf[c]] =
            [state |-> "consumed", nonce |-> NoCall,
             owner |-> InvocationOf[c], coded |-> FALSE]]
    /\ tools' = [tools EXCEPT ![InvocationOf[c]].attempt =
            IF FamilyOf[InvocationOf[c]] = "read" THEN @ ELSE "submitting"]
    /\ UNCHANGED uses

(* ConsumeCommitted: the claim is durable and the permit is issued.        *)
ConsumeCommitted(c) ==
    /\ At(c, "consume")
    /\ CanConsume(c)
    /\ InsertClaim(c)
    /\ calls' = [calls EXCEPT ![c].pc = "gate", ![c].permit = "issued",
                              ![c].fresh = TRUE]
    /\ UNCHANGED <<envelope, sends>>

ConsumeExisting(c) ==
    /\ At(c, "consume")
    /\ ClaimOf(c).state # "absent"
    /\ Authorised(c, TRUE)
    /\ ToolOf(c).reservation = "released" => ClaimOf(c).state = "completed"
    /\ calls' = [calls EXCEPT ![c].pc = "existing", ![c].seen = ClaimOf(c).state]
    /\ RowsUnchanged /\ UNCHANGED <<envelope, sends>>

(* The request or its authority is refused.                                *)
ConsumeRefused(c) ==
    /\ At(c, "consume")
    /\ Return(c, "refused")
    /\ RowsUnchanged /\ UNCHANGED <<envelope, sends>>

(* The transaction committed, its acknowledgement was lost: the caller is  *)
(* told consume_unavailable, with a no-send proof, and no permit exists.   *)
ConsumeUnacknowledged(c) ==
    /\ At(c, "consume")
    /\ CanConsume(c)
    /\ InsertClaim(c)
    /\ Return(c, "refused")
    /\ UNCHANGED <<envelope, sends>>

-----------------------------------------------------------------------------
(* submit_through_gate.                                                    *)

(* The five seconds of the permit run out.                                 *)
PermitExpires(c) ==
    /\ calls[c].pc \in {"gate", "entered", "transport"}
    /\ calls[c].fresh
    /\ calls' = [calls EXCEPT ![c].fresh = FALSE]
    /\ RowsUnchanged /\ UNCHANGED <<envelope, sends>>

GateAdmits_Mutant(c) == calls[c].fresh /\ ClaimOf(c).nonce = NoCall

(* enter_handoff: the claim is still consumed and nobody handed it over.   *)
GateAdmits(c) ==
    /\ calls[c].fresh
    /\ ClaimOf(c).state = "consumed"
    /\ ClaimOf(c).nonce = NoCall

EnterHandoff(c) ==
    /\ At(c, "gate")
    /\ GateAdmits(c)
    /\ claims' = [claims EXCEPT ![KeyOf[c]].nonce = c]
    /\ Goto(c, "entered")
    /\ UNCHANGED <<uses, tools, envelope, sends>>

GateRefuses(c) ==
    /\ At(c, "gate")
    /\ ~GateAdmits(c)
    /\ Goto(c, "zero")
    /\ RowsUnchanged /\ UNCHANGED <<envelope, sends>>

(* A cancellation is never retried and always marks the invocation.        *)
Interrupted(c, cancelled) ==
    calls' = [calls EXCEPT ![c].pc = "review", ![c].mark = cancelled \/ @,
                           ![c].retryable = ~cancelled]

(* enter_handoff raises, or the task is cancelled while it runs: its       *)
(* commit may or may not have happened.                                    *)
GateFails(c, committed, cancelled) ==
    /\ At(c, "gate")
    /\ committed => GateAdmits(c)
    /\ claims' = IF committed THEN [claims EXCEPT ![KeyOf[c]].nonce = c] ELSE claims
    /\ Interrupted(c, cancelled)
    /\ UNCHANGED <<uses, tools, envelope, sends>>

(* The capability is handed to the transport unless the permit expired     *)
(* while enter_handoff ran.                                                *)
HandOver(c) ==
    /\ At(c, "entered")
    /\ Goto(c, IF calls[c].fresh THEN "transport" ELSE "review")
    /\ RowsUnchanged /\ UNCHANGED <<envelope, sends>>

CapabilityAdmits_Mutant(c) == calls[c].fresh

CapabilityAdmits(c) ==
    ~calls[c].attempted /\ calls[c].permit = "issued" /\ calls[c].fresh

(* The transport presents the capability and, once it is accepted, emits.  *)
UseCapability(c) ==
    /\ At(c, "transport")
    /\ CapabilityAdmits(c)
    /\ calls' = [calls EXCEPT ![c].attempted = TRUE, ![c].used = TRUE,
                              ![c].permit = "burnt"]
    /\ sends' = [sends EXCEPT ![KeyOf[c]] = @ + 1]
    /\ RowsUnchanged /\ UNCHANGED envelope

(* A refused capability raises into the transport, which may swallow it.   *)
CapabilityRefused(c) ==
    /\ At(c, "transport")
    /\ ~CapabilityAdmits(c)
    /\ ~calls[c].attempted
    /\ calls' = [calls EXCEPT ![c].attempted = TRUE]
    /\ RowsUnchanged /\ UNCHANGED <<envelope, sends>>

ResponseAccepted_Mutant(c) == TRUE

ResponseAccepted(c) == calls[c].used

TransportReturns(c) ==
    /\ At(c, "transport")
    /\ Goto(c, IF ResponseAccepted(c) THEN "responded" ELSE "review")
    /\ RowsUnchanged /\ UNCHANGED <<envelope, sends>>

(* The transport raises, its task is cancelled, or its answer is not a     *)
(* TransportResponse.                                                      *)
TransportFails(c, cancelled) ==
    /\ At(c, "transport")
    /\ Interrupted(c, cancelled)
    /\ RowsUnchanged /\ UNCHANGED <<envelope, sends>>

-----------------------------------------------------------------------------
(* Recording what happened.                                                *)

(* The claim's CAS of complete, the SENT use of the owner and the end of   *)
(* the model run's submission.                                             *)
CanComplete(c) == ClaimOf(c).state = "consumed" /\ ClaimOf(c).nonce # NoCall

SentUses(c) == uses.sent \union {<<KeyOf[c], ClaimOf(c).owner>>}

MarkCompleted(c, coded) ==
    /\ claims' = [claims EXCEPT ![KeyOf[c]].state = "completed",
                                ![KeyOf[c]].coded = coded]
    /\ uses' = [uses EXCEPT !.sent = SentUses(c)]
    /\ tools' = [tools EXCEPT ![ClaimOf(c).owner].attempt =
            IF FamilyOf[ClaimOf(c).owner] = "model" /\ @ = "submitting"
            THEN "obtained" ELSE @]

Complete(c, coded) ==
    /\ At(c, "responded")
    /\ CanComplete(c)
    /\ MarkCompleted(c, coded)
    /\ Return(c, "completed")
    /\ UNCHANGED <<envelope, sends>>

CompleteRefused(c) ==
    /\ At(c, "responded")
    /\ Goto(c, "review")
    /\ RowsUnchanged /\ UNCHANGED <<envelope, sends>>

CompleteUnacknowledged(c, coded) ==
    /\ At(c, "responded")
    /\ CanComplete(c)
    /\ MarkCompleted(c, coded)
    /\ Goto(c, "review")
    /\ UNCHANGED <<envelope, sends>>

(* The CAS of definitely_not_submitted.                                    *)
ProvenUnsent(c) == ClaimOf(c).state = "consumed" /\ ClaimOf(c).nonce = NoCall

MarkNotSubmitted(c) ==
    /\ claims' = [claims EXCEPT ![KeyOf[c]].state = "definitively_not_submitted"]
    /\ tools' = [tools EXCEPT ![ClaimOf(c).owner].status =
            IF @ = "running" THEN "failed" ELSE @]
    /\ UNCHANGED uses

SealZeroHandoff(c) ==
    /\ At(c, "zero")
    /\ ProvenUnsent(c)
    /\ MarkNotSubmitted(c)
    /\ Return(c, "not_submitted")
    /\ UNCHANGED <<envelope, sends>>

(* The CAS failed or the store is unavailable.                             *)
SealZeroRefused(c) ==
    /\ At(c, "zero")
    /\ Goto(c, "review")
    /\ RowsUnchanged /\ UNCHANGED <<envelope, sends>>

SealZeroUnacknowledged(c) ==
    /\ At(c, "zero")
    /\ ProvenUnsent(c)
    /\ MarkNotSubmitted(c)
    /\ Goto(c, "review")
    /\ UNCHANGED <<envelope, sends>>

MarksInvocation_Mutant(c) == FALSE

MarksInvocation(c) == calls[c].mark

(* needs_review takes the attempt row out of the hands of automation: a    *)
(* model run always, the others when they were being submitted.            *)
ReviewedAttempt(i, attempt) ==
    CASE FamilyOf[i] = "read"  -> attempt
      [] FamilyOf[i] = "model" -> "review"
      [] OTHER -> IF attempt = "submitting" THEN "review" ELSE attempt

ReviewedStatus_Mutant(c, status) ==
    IF MarksInvocation(c) THEN "review" ELSE status

ReviewedStatus(c, status) ==
    IF MarksInvocation(c) /\ status = "running" THEN "needs_review" ELSE status

SealNeedsReview(c) ==
    /\ At(c, "review")
    /\ ClaimOf(c).state = "consumed"
    /\ LET i == ClaimOf(c).owner IN
       /\ claims' = [claims EXCEPT ![KeyOf[c]].state = "needs_review"]
       /\ tools' = [tools EXCEPT
                        ![i].status = ReviewedStatus(c, tools[i].status),
                        ![i].attempt = ReviewedAttempt(i, tools[i].attempt)]
    /\ Return(c, "ambiguous")
    /\ UNCHANGED <<uses, envelope, sends>>

(* The claim is no longer consumed, or the store is unavailable: the       *)
(* consumed row itself keeps others from sending.                          *)
SealSkipped(c) ==
    /\ At(c, "review")
    /\ Return(c, "ambiguous")
    /\ RowsUnchanged /\ UNCHANGED <<envelope, sends>>

-----------------------------------------------------------------------------
(* _handle_existing: a replay, or another invocation with the same effect. *)

(* A replayed consumed claim is sealed, with its owner's invocation.       *)
ReplayUnfinished(c) ==
    /\ At(c, "existing")
    /\ calls[c].seen = "consumed"
    /\ calls' = [calls EXCEPT ![c].pc = "review", ![c].mark = TRUE]
    /\ RowsUnchanged /\ UNCHANGED <<envelope, sends>>

ReplayedOutcome(c) ==
    CASE calls[c].seen = "needs_review"               -> "ambiguous"
      [] calls[c].seen = "definitively_not_submitted" -> "not_submitted"
      [] OTHER                                        -> "completed"

ReportedAsIs_Mutant(c) ==
    \/ calls[c].seen = "definitively_not_submitted"
    \/ /\ calls[c].seen = "completed"
       /\ ClaimOf(c).coded /\ ClaimOf(c).owner = InvocationOf[c]

(* What is settled is reported as it is; a coded result only to its owner. *)
ReportedAsIs(c) ==
    \/ calls[c].seen \in {"needs_review", "definitively_not_submitted"}
    \/ /\ calls[c].seen = "completed"
       /\ ClaimOf(c).coded /\ ClaimOf(c).owner = InvocationOf[c]

ReplaySettled(c) ==
    /\ At(c, "existing")
    /\ ReportedAsIs(c)
    /\ Return(c, ReplayedOutcome(c))
    /\ RowsUnchanged /\ UNCHANGED <<envelope, sends>>

(* Nobody may reuse a coded result; the family's reuse policy (its own     *)
(* data: nondeterministic) decides on the others.                          *)
DecideReuse(c, authorised) ==
    /\ At(c, "existing")
    /\ calls[c].seen = "completed"
    /\ ClaimOf(c).coded => ~authorised /\ ClaimOf(c).owner # InvocationOf[c]
    /\ Goto(c, IF authorised THEN "reuse" ELSE "release")
    /\ RowsUnchanged /\ UNCHANGED <<envelope, sends>>

(* A second use row of one invocation and claim is never inserted; only a  *)
(* REUSED one may be returned again.                                       *)
CanRecordReuse_Mutant(c) ==
    /\ Authorised(c, FALSE)
    /\ FamilyOf[InvocationOf[c]] = "read"
    /\ ClaimOf(c).state = "completed"
    /\ ToolOf(c).reservation = "reserved"

CanRecordReuse(c) ==
    /\ Authorised(c, FALSE)
    /\ FamilyOf[InvocationOf[c]] = "read"
    /\ ClaimOf(c).state = "completed"
    /\ \/ ToolOf(c).reservation = "reserved"
          /\ <<KeyOf[c], InvocationOf[c]>> \notin uses.sent
       \/ ToolOf(c).reservation = "released"
          /\ <<KeyOf[c], InvocationOf[c]>> \in uses.reused

MarkReused(c) ==
    /\ uses' = [uses EXCEPT !.reused = @ \union {<<KeyOf[c], InvocationOf[c]>>}]
    /\ tools' = [tools EXCEPT ![InvocationOf[c]].reservation = "released"]
    /\ UNCHANGED claims

RecordReuse(c) ==
    /\ At(c, "reuse")
    /\ CanRecordReuse(c)
    /\ MarkReused(c)
    /\ Return(c, "reused")
    /\ UNCHANGED <<envelope, sends>>

RecordReuseRefused(c) ==
    /\ At(c, "reuse")
    /\ Return(c, "reuse_unrecorded")
    /\ RowsUnchanged /\ UNCHANGED <<envelope, sends>>

RecordReuseUnacknowledged(c) ==
    /\ At(c, "reuse")
    /\ CanRecordReuse(c)
    /\ MarkReused(c)
    /\ Return(c, "reuse_unrecorded")
    /\ UNCHANGED <<envelope, sends>>

(* release_refused_reuse_reservation: another invocation that may not      *)
(* reuse gets its reservation back; the budget moves the envelope version. *)
CanRelease(c) ==
    /\ Authorised(c, TRUE)
    /\ ClaimOf(c).state = "completed"
    /\ ClaimOf(c).owner # InvocationOf[c]
    /\ ToolOf(c).reservation = "reserved"

ReleaseReservation(c) ==
    /\ At(c, "release")
    /\ CanRelease(c)
    /\ envelope.version < MaxVersion
    /\ tools' = [tools EXCEPT ![InvocationOf[c]].reservation = "released"]
    /\ envelope' = [envelope EXCEPT !.version = @ + 1]
    /\ Return(c, "refused")
    /\ UNCHANGED <<claims, uses, sends>>

ReleaseSkipped(c) ==
    /\ At(c, "release")
    /\ Return(c, "refused")
    /\ RowsUnchanged /\ UNCHANGED <<envelope, sends>>

-----------------------------------------------------------------------------
(* The process dies, or the task is cancelled outside the transport.       *)
Crash(c) ==
    /\ calls[c].pc \notin {"idle", "done", "dead"}
    /\ Goto(c, "dead")
    /\ RowsUnchanged /\ UNCHANGED <<envelope, sends>>

-----------------------------------------------------------------------------
(* What the investigation does to the rows meanwhile.                      *)

(* The analyst revokes the rights of the investigation, or extends them.   *)
Govern(allowed) ==
    /\ envelope.version < MaxVersion
    /\ envelope' = [envelope EXCEPT !.version = @ + 1, !.allowed = allowed]
    /\ RowsUnchanged /\ UNCHANGED <<calls, sends>>

(* A stop is requested, or the investigation is resumed.                   *)
SetStopped(stopped) ==
    /\ envelope.stopped # stopped
    /\ stopped \/ \A i \in Invocations : tools[i].status \in {"failed", "succeeded"}
    /\ envelope' = [envelope EXCEPT !.stopped = stopped]
    /\ RowsUnchanged /\ UNCHANGED <<calls, sends>>

(* resume, or a second dispatch, finds the invocation still running.       *)
ReviewTool(i) ==
    /\ tools[i].status = "running"
    /\ tools' = [tools EXCEPT ![i].status = "needs_review"]
    /\ UNCHANGED <<claims, uses, envelope, calls, sends>>

(* The tool call ends, or an analyst reconciles it.  Its reservation is    *)
(* settled with it, which saves the envelope, except after an uncertain    *)
(* result or when it was settled before.                                   *)
SettleTool(i, status, reservation) ==
    /\ tools[i].status \in {"running", "needs_review"}
    /\ tools' = [tools EXCEPT ![i].status = status, ![i].reservation = reservation]
    /\ \/ /\ reservation = tools[i].reservation
          /\ status = "needs_review" \/ reservation # "reserved"
          /\ UNCHANGED envelope
       \/ /\ reservation # "reserved"
          /\ envelope.version < MaxVersion
          /\ envelope' = [envelope EXCEPT !.version = @ + 1]
    /\ UNCHANGED <<claims, uses, calls, sends>>

(* Another operation saves the budget: every reservation row is rewritten  *)
(* from the envelope's copy, which the rows here do not determine.         *)
SaveBudget(i, reservation) ==
    /\ envelope.version < MaxVersion
    /\ tools' = [tools EXCEPT ![i].reservation = reservation]
    /\ envelope' = [envelope EXCEPT !.version = @ + 1]
    /\ UNCHANGED <<claims, uses, calls, sends>>

-----------------------------------------------------------------------------
ConsumeStep(c) ==
    \/ ConsumeCommitted(c) \/ ConsumeExisting(c) \/ ConsumeRefused(c)
    \/ ConsumeUnacknowledged(c)

GateStep(c) ==
    \/ EnterHandoff(c) \/ GateRefuses(c) \/ HandOver(c)
    \/ \E committed, cancelled \in BOOLEAN : GateFails(c, committed, cancelled)

TransportStep(c) ==
    \/ UseCapability(c) \/ CapabilityRefused(c) \/ TransportReturns(c)
    \/ \E cancelled \in BOOLEAN : TransportFails(c, cancelled)

RecordStep(c) ==
    \/ \E coded \in BOOLEAN : Complete(c, coded) \/ CompleteUnacknowledged(c, coded)
    \/ CompleteRefused(c)
    \/ SealZeroHandoff(c) \/ SealZeroRefused(c) \/ SealZeroUnacknowledged(c)
    \/ SealNeedsReview(c) \/ SealSkipped(c)

ExistingStep(c) ==
    \/ ReplayUnfinished(c) \/ ReplaySettled(c)
    \/ \E authorised \in BOOLEAN : DecideReuse(c, authorised)
    \/ RecordReuse(c) \/ RecordReuseRefused(c) \/ RecordReuseUnacknowledged(c)
    \/ ReleaseReservation(c) \/ ReleaseSkipped(c)

(* What a call that runs does next, if nothing kills it.                   *)
Proceed(c) ==
    \/ ConsumeStep(c) \/ GateStep(c) \/ TransportStep(c) \/ RecordStep(c)
    \/ ExistingStep(c)

CallStep(c) == Begin(c) \/ Proceed(c) \/ PermitExpires(c) \/ Crash(c)

InvestigationStep ==
    \/ \E allowed \in BOOLEAN : Govern(allowed)
    \/ \E stopped \in BOOLEAN : SetStopped(stopped)
    \/ \E i \in Invocations :
          \/ ReviewTool(i)
          \/ \E reservation \in {"reserved", "released", "committed"} :
                \/ SaveBudget(i, reservation)
                \/ \E status \in {"needs_review", "failed", "succeeded"} :
                      SettleTool(i, status, reservation)

Next == (\E c \in Calls : CallStep(c)) \/ InvestigationStep

Spec == Init /\ [][Next]_vars

-----------------------------------------------------------------------------
(* Properties.                                                             *)

(* One effect key is emitted at most once, through replays, lost           *)
(* acknowledgements, expired permits and revocations (the one-use permit   *)
(* and capability of submit_through_gate, the nonce of enter_handoff).     *)
AtMostOnce == \A k \in Keys : sends[k] <= 1

(* What the durable claim and the outcome say is true: completed means     *)
(* emitted, definitively_not_submitted means not emitted, at the time and  *)
(* in every later state.                                                   *)
ClaimIsTruthful ==
    /\ \A k \in Keys :
        /\ claims[k].state = "completed" => sends[k] = 1
        /\ claims[k].state = "definitively_not_submitted" => sends[k] = 0
    /\ \A c \in Calls : calls[c].outcome = "not_submitted" => sends[KeyOf[c]] = 0

(* A claim sealed by a replay before its handoff is a barrier: the call    *)
(* that still holds a permit for it can neither enter the handoff nor emit *)
(* (enter_handoff, called with a permit issued before the seal).           *)
SealedIsBarrier ==
    [][\A k \in Keys :
        claims[k].state = "needs_review" /\ claims[k].nonce = NoCall
            => sends'[k] = sends[k] /\ claims'[k] = claims[k]]_vars

(* Once the outcome of an effect is in doubt, nothing automatic repeats    *)
(* it: the dispatch, retrohunt or model attempt behind it is under review, *)
(* and the invocation that owns it no longer runs, so that no new effect   *)
(* is claimed under its authority, unless the caller of a passive read     *)
(* deferred that mark for its one retry (needs_review).                    *)
AmbiguityIsContained ==
    \A k \in Keys : claims[k].state = "needs_review" =>
        LET i == claims[k].owner IN
        /\ FamilyOf[i] # "read" => tools[i].attempt = "review"
        /\ (\A c \in Deferred : KeyOf[c] # k) => tools[i].status # "running"

(* The invocation that sent an effect is charged for it: it never also     *)
(* records a free reuse of its own claim (the unique use row).             *)
OwnSendIsNotReuse ==
    \A k \in Keys : claims[k].state = "completed" =>
        /\ <<k, claims[k].owner>> \in uses.sent
        /\ <<k, claims[k].owner>> \notin uses.reused

(* The coordinator implements the once-only effect.                        *)
EffectStage(k) ==
    CASE claims[k].state = "absent"                     -> "unknown"
      [] claims[k].state = "definitively_not_submitted" -> "withdrawn"
      [] claims[k].state = "completed"                  -> "confirmed"
      [] claims[k].state = "needs_review" /\ claims[k].nonce = NoCall -> "barred"
      [] OTHER -> IF sends[k] = 0 THEN "open" ELSE "emitted"

Promise == INSTANCE OnceOnly WITH effect <- [k \in Keys |-> EffectStage(k)]

(* Each effect key goes through the life that OnceOnly allows, under the   *)
(* mapping of its claim row and of what was emitted.                       *)
ImplementsOnceOnly == Promise!Spec
=============================================================================
