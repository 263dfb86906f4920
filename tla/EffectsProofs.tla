---------------------------- MODULE EffectsProofs ----------------------------
(***************************************************************************)
(* Proofs about the external-effect coordinator, for any calls, effect     *)
(* keys, invocations, families and bounds.                                 *)
(*                                                                         *)
(* The inductive invariant relates a call to the claim row of its key: who *)
(* entered the handoff is named by the row's nonce, which is written once; *)
(* what was emitted is exactly what that call's capability allowed.        *)
(***************************************************************************)
EXTENDS ExternalEffects, TLAPS

(* A call r = calls[c] whose key has the claim row cl.                     *)
RecSound(c, r, cl) ==
    /\ r.pc \in {"entered", "transport", "responded"} => cl.nonce = c
    /\ r.used => cl.nonce = c /\ r.attempted
    /\ r.pc = "responded" => r.used
    /\ r.outcome = "not_submitted" \/ r.seen = "definitively_not_submitted"
          => cl.state = "definitively_not_submitted"
    /\ r.mark \/ c \in Deferred

Users == {c \in Calls : calls[c].used}

(* The claim row cl of key k, of which n emissions were allowed.           *)
KeySound(k, cl, n, users) ==
    /\ cl.nonce # NoCall =>
          KeyOf[cl.nonce] = k /\ cl.state \in {"consumed", "completed", "needs_review"}
    /\ n = IF cl.nonce \in users THEN 1 ELSE 0
    /\ cl.state = "completed" => cl.nonce \in users
    /\ cl.state # "absent" => cl.owner \in Invocations

(* The rows of the claim's owner, t its tool row.                          *)
ToolSound(k, cl, t) ==
    /\ cl.state = "needs_review" /\ (\A c \in Deferred : KeyOf[c] # k)
          => t.status # "running"
    /\ cl.state = "needs_review" /\ FamilyOf[cl.owner] # "read"
          => t.attempt = "review"
    /\ cl.state = "consumed" /\ FamilyOf[cl.owner] \in {"acquisition", "retrohunt"}
          => t.attempt \in {"submitting", "review"}

UseSound(k, cl, u) ==
    /\ cl.state = "completed" => <<k, cl.owner>> \in u.sent /\ <<k, cl.owner>> \notin u.reused
    /\ \A i \in Invocations : <<k, i>> \in u.reused => cl.state = "completed"

CallsSound == \A c \in Calls : RecSound(c, calls[c], claims[KeyOf[c]])
KeysSound == \A k \in Keys : KeySound(k, claims[k], sends[k], Users)
ToolsSound == \A k \in Keys : ToolSound(k, claims[k], tools[claims[k].owner])
UsesSound == \A k \in Keys : UseSound(k, claims[k], uses)

(* The inductive invariant.                                                *)
EInv == TypeOK /\ CallsSound /\ KeysSound /\ ToolsSound /\ UsesSound

-----------------------------------------------------------------------------
(* Init establishes it.                                                    *)
LEMMA InitSound == Init => EInv
<1> SUFFICES ASSUME Init PROVE EInv
  OBVIOUS
<1> USE EffectsAssumption DEF Init
<1>1. TypeOK
  BY DEF TypeOK, Claim, NoClaim, EffectClaimState, Tool, Call, CallPc, Outcome
<1>2. CallsSound
  BY DEF CallsSound, RecSound, NoClaim
<1>3. KeysSound
  BY DEF KeysSound, KeySound, NoClaim, Users
<1>4. ToolsSound
  BY DEF ToolsSound, ToolSound, NoClaim
<1>5. UsesSound
  BY DEF UsesSound, UseSound, NoClaim
<1> QED
  BY <1>1, <1>2, <1>3, <1>4, <1>5 DEF EInv

-----------------------------------------------------------------------------
(* A step of one call that neither emits nor touches a row keeps the       *)
(* invariant if the call stays sound for the unchanged claim row.          *)
LEMMA QuietStep ==
    ASSUME EInv, NEW c \in Calls, NEW r \in Call,
           calls' = [calls EXCEPT ![c] = r],
           r.used = calls[c].used,
           RecSound(c, r, claims[KeyOf[c]]),
           UNCHANGED <<claims, uses, tools, sends>>,
           envelope' \in [version : Nat, allowed : BOOLEAN, stopped : BOOLEAN]
    PROVE  EInv'
<1> USE DEF EInv
<1>1. TypeOK'
  BY DEF TypeOK
<1>2. CallsSound'
  BY DEF CallsSound, TypeOK
<1>3. Users' = Users
  BY DEF Users, TypeOK
<1>4. KeysSound'
  BY <1>3 DEF KeysSound
<1>5. ToolsSound' /\ UsesSound'
  BY DEF ToolsSound, UsesSound
<1> QED
  BY <1>1, <1>2, <1>4, <1>5

(* A step of one call that rewrites the claim row of its key: the nonce    *)
(* and a proof of non-submission are never taken back.                     *)
LEMMA RowStep ==
    ASSUME EInv, NEW c \in Calls, NEW r \in Call, NEW cl \in Claim,
           calls' = [calls EXCEPT ![c] = r],
           r.used = calls[c].used,
           claims' = [claims EXCEPT ![KeyOf[c]] = cl],
           claims[KeyOf[c]].nonce # NoCall => cl.nonce = claims[KeyOf[c]].nonce,
           claims[KeyOf[c]].state = "definitively_not_submitted"
                => cl.state = "definitively_not_submitted",
           RecSound(c, r, cl),
           KeySound(KeyOf[c], cl, sends[KeyOf[c]], Users),
           UNCHANGED sends
    PROVE  CallsSound' /\ KeysSound'
<1> USE EffectsAssumption DEF EInv
<1>1. Users' = Users
  BY DEF Users, TypeOK
<1>2. ASSUME NEW d \in Calls PROVE RecSound(d, calls'[d], claims'[KeyOf[d]])
  <2>1. CASE d = c
    BY <2>1 DEF TypeOK
  <2>2. CASE d # c /\ KeyOf[d] # KeyOf[c]
    BY <2>2 DEF TypeOK, CallsSound
  <2>3. CASE d # c /\ KeyOf[d] = KeyOf[c]
    <3>1. calls'[d] = calls[d] /\ claims'[KeyOf[d]] = cl
      BY <2>3 DEF TypeOK
    <3>2. RecSound(d, calls[d], claims[KeyOf[c]])
      BY <2>3 DEF CallsSound
    <3> QED
      BY <3>1, <3>2 DEF RecSound
  <2> QED
    BY <2>1, <2>2, <2>3
<1>3. CallsSound'
  BY <1>2 DEF CallsSound
<1>4. ASSUME NEW k \in Keys PROVE KeySound(k, claims'[k], sends'[k], Users)
  BY DEF KeysSound, TypeOK
<1>5. KeysSound'
  BY <1>1, <1>4 DEF KeysSound
<1> QED
  BY <1>3, <1>5

-----------------------------------------------------------------------------
(* Moving on, or returning, without touching a row.                        *)
LEMMA GotoSound ==
    ASSUME EInv, NEW c \in Calls, NEW pc \in CallPc,
           pc \notin {"entered", "transport", "responded"},
           Goto(c, pc), UNCHANGED <<claims, uses, tools, sends, envelope>>
    PROVE  EInv'
<1> DEFINE r == [calls[c] EXCEPT !.pc = pc]
<1>1. r \in Call /\ calls' = [calls EXCEPT ![c] = r] /\ r.used = calls[c].used
  BY DEF EInv, TypeOK, Call, Goto
<1>2. RecSound(c, r, claims[KeyOf[c]])
  BY DEF EInv, CallsSound, RecSound, TypeOK, Call
<1>3. envelope' \in [version : Nat, allowed : BOOLEAN, stopped : BOOLEAN]
  BY DEF EInv, TypeOK
<1> HIDE DEF r
<1> QED
  BY <1>1, <1>2, <1>3, QuietStep

LEMMA ReturnSound ==
    ASSUME EInv, NEW c \in Calls, NEW outcome \in Outcome,
           outcome = "not_submitted"
               => claims[KeyOf[c]].state = "definitively_not_submitted",
           Return(c, outcome), UNCHANGED <<claims, uses, tools, sends>>,
           envelope' \in [version : Nat, allowed : BOOLEAN, stopped : BOOLEAN]
    PROVE  EInv'
<1> DEFINE r == [calls[c] EXCEPT !.pc = "done", !.outcome = outcome]
<1>0. calls \in [Calls -> Call] /\ calls[c] \in Call
  BY DEF EInv, TypeOK
<1>1. r \in Call /\ calls' = [calls EXCEPT ![c] = r] /\ r.used = calls[c].used
  <2>1. r \in Call
    BY <1>0 DEF Call, CallPc
  <2>2. r.used = calls[c].used
    BY <1>0 DEF Call
  <2>3. calls' = [calls EXCEPT ![c] = r]
    BY <1>0 DEF Return
  <2> QED
    BY <2>1, <2>2, <2>3
<1>2. RecSound(c, r, claims[KeyOf[c]])
  BY DEF EInv, CallsSound, RecSound, TypeOK, Call
<1> HIDE DEF r
<1> QED
  BY <1>1, <1>2, QuietStep

LEMMA InterruptedSound ==
    ASSUME EInv, NEW c \in Calls, NEW cancelled \in BOOLEAN,
           Interrupted(c, cancelled),
           UNCHANGED <<claims, uses, tools, sends, envelope>>
    PROVE  EInv'
<1> DEFINE r == [calls[c] EXCEPT !.pc = "review", !.mark = cancelled \/ @,
                                 !.retryable = ~cancelled]
<1>0. calls \in [Calls -> Call] /\ calls[c] \in Call
  BY DEF EInv, TypeOK
<1>1. r \in Call /\ calls' = [calls EXCEPT ![c] = r] /\ r.used = calls[c].used
  <2>1. r \in Call
    BY <1>0 DEF Call, CallPc
  <2>2. r.used = calls[c].used
    BY <1>0 DEF Call
  <2>3. calls' = [calls EXCEPT ![c] = r]
    BY <1>0 DEF Interrupted
  <2> QED
    BY <2>1, <2>2, <2>3
<1>2. RecSound(c, r, claims[KeyOf[c]])
  BY DEF EInv, CallsSound, RecSound, TypeOK, Call
<1>3. envelope' \in [version : Nat, allowed : BOOLEAN, stopped : BOOLEAN]
  BY DEF EInv, TypeOK
<1> HIDE DEF r
<1> QED
  BY <1>1, <1>2, <1>3, QuietStep

(* The steps of a call that leave every row alone.                         *)
QuietCallStep(c) ==
    \/ Begin(c) \/ PermitExpires(c) \/ Crash(c)
    \/ ConsumeExisting(c) \/ ConsumeRefused(c)
    \/ GateRefuses(c) \/ HandOver(c) \/ CapabilityRefused(c)
    \/ TransportReturns(c)
    \/ CompleteRefused(c) \/ SealZeroRefused(c) \/ SealSkipped(c)
    \/ ReplayUnfinished(c) \/ ReplaySettled(c)
    \/ RecordReuseRefused(c) \/ ReleaseSkipped(c)

LEMMA QuietCallStepSound ==
    ASSUME EInv, NEW c \in Calls, QuietCallStep(c)
    PROVE  EInv'
<1> USE DEF RowsUnchanged, At
<1>0. /\ TypeOK /\ calls[c] \in Call
      /\ RecSound(c, calls[c], claims[KeyOf[c]])
      /\ KeyOf[c] \in Keys /\ claims[KeyOf[c]] \in Claim
      /\ KeySound(KeyOf[c], claims[KeyOf[c]], sends[KeyOf[c]], Users)
  BY EffectsAssumption DEF EInv, TypeOK, CallsSound, KeysSound
<1>e. envelope \in [version : Nat, allowed : BOOLEAN, stopped : BOOLEAN]
  BY <1>0 DEF TypeOK
<1>1. CASE Begin(c)
  <2> DEFINE r == [calls[c] EXCEPT !.pc = "consume", !.expected = envelope.version]
  <2>1. r \in Call /\ calls' = [calls EXCEPT ![c] = r] /\ r.used = calls[c].used
    BY <1>0, <1>1, <1>e DEF TypeOK, Call, CallPc, Begin
  <2>2. RecSound(c, r, claims[KeyOf[c]])
    BY <1>0 DEF RecSound, Call
  <2> HIDE DEF r
  <2> QED
    BY <2>1, <2>2, <1>e, <1>1, QuietStep DEF Begin
<1>2. CASE PermitExpires(c)
  <2> DEFINE r == [calls[c] EXCEPT !.fresh = FALSE]
  <2>1. r \in Call /\ calls' = [calls EXCEPT ![c] = r] /\ r.used = calls[c].used
    BY <1>0, <1>2 DEF TypeOK, Call, PermitExpires
  <2>2. RecSound(c, r, claims[KeyOf[c]])
    BY <1>0 DEF RecSound, Call
  <2> HIDE DEF r
  <2> QED
    BY <2>1, <2>2, <1>e, <1>2, QuietStep DEF PermitExpires
<1>3. CASE ConsumeExisting(c)
  <2> DEFINE r == [calls[c] EXCEPT !.pc = "existing", !.seen = claims[KeyOf[c]].state]
  <2>1. r \in Call /\ calls' = [calls EXCEPT ![c] = r] /\ r.used = calls[c].used
    BY <1>0, <1>3 DEF TypeOK, Call, CallPc, Claim, ConsumeExisting, ClaimOf
  <2>2. RecSound(c, r, claims[KeyOf[c]])
    BY <1>0 DEF RecSound, Call
  <2> HIDE DEF r
  <2> QED
    BY <2>1, <2>2, <1>e, <1>3, QuietStep DEF ConsumeExisting
<1>4. CASE HandOver(c)
  <2> DEFINE r == [calls[c] EXCEPT !.pc =
                      IF calls[c].fresh THEN "transport" ELSE "review"]
  <2>1. r \in Call /\ calls' = [calls EXCEPT ![c] = r] /\ r.used = calls[c].used
    BY <1>0, <1>4 DEF TypeOK, Call, CallPc, HandOver, Goto
  <2>2. RecSound(c, r, claims[KeyOf[c]])
    BY <1>0, <1>4 DEF RecSound, Call, HandOver
  <2> HIDE DEF r
  <2> QED
    BY <2>1, <2>2, <1>e, <1>4, QuietStep DEF HandOver
<1>5. CASE CapabilityRefused(c)
  <2> DEFINE r == [calls[c] EXCEPT !.attempted = TRUE]
  <2>1. r \in Call /\ calls' = [calls EXCEPT ![c] = r] /\ r.used = calls[c].used
    BY <1>0, <1>5 DEF TypeOK, Call, CapabilityRefused
  <2>2. RecSound(c, r, claims[KeyOf[c]])
    BY <1>0, <1>5 DEF RecSound, Call, CapabilityRefused
  <2> HIDE DEF r
  <2> QED
    BY <2>1, <2>2, <1>e, <1>5, QuietStep DEF CapabilityRefused
<1>6. CASE TransportReturns(c)
  <2> DEFINE r == [calls[c] EXCEPT !.pc =
                      IF calls[c].used THEN "responded" ELSE "review"]
  <2>1. r \in Call /\ calls' = [calls EXCEPT ![c] = r] /\ r.used = calls[c].used
    BY <1>0, <1>6 DEF TypeOK, Call, CallPc, TransportReturns, ResponseAccepted, Goto
  <2>2. RecSound(c, r, claims[KeyOf[c]])
    BY <1>0, <1>6 DEF RecSound, Call, TransportReturns
  <2> HIDE DEF r
  <2> QED
    BY <2>1, <2>2, <1>e, <1>6, QuietStep DEF TransportReturns
<1>7. CASE ReplayUnfinished(c)
  <2> DEFINE r == [calls[c] EXCEPT !.pc = "review", !.mark = TRUE]
  <2>1. r \in Call /\ calls' = [calls EXCEPT ![c] = r] /\ r.used = calls[c].used
    BY <1>0, <1>7 DEF TypeOK, Call, CallPc, ReplayUnfinished
  <2>2. RecSound(c, r, claims[KeyOf[c]])
    BY <1>0 DEF RecSound, Call
  <2> HIDE DEF r
  <2> QED
    BY <2>1, <2>2, <1>e, <1>7, QuietStep DEF ReplayUnfinished
<1>8. CASE ReplaySettled(c)
  <2>1. ReplayedOutcome(c) \in Outcome
    BY DEF ReplayedOutcome, Outcome
  <2>2. ReplayedOutcome(c) = "not_submitted"
            => claims[KeyOf[c]].state = "definitively_not_submitted"
    BY <1>0 DEF ReplayedOutcome, RecSound
  <2> QED
    BY <2>1, <2>2, <1>e, <1>8, ReturnSound DEF ReplaySettled
<1>9. CASE ConsumeRefused(c) \/ ReleaseSkipped(c)
  BY <1>9, <1>e, ReturnSound DEF ConsumeRefused, ReleaseSkipped, Outcome
<1>10. CASE RecordReuseRefused(c)
  BY <1>10, <1>e, ReturnSound DEF RecordReuseRefused, Outcome
<1>11. CASE SealSkipped(c)
  BY <1>11, <1>e, ReturnSound DEF SealSkipped, Outcome
<1>12. CASE GateRefuses(c)
  BY <1>12, GotoSound DEF GateRefuses, CallPc
<1>13. CASE CompleteRefused(c) \/ SealZeroRefused(c)
  BY <1>13, GotoSound DEF CompleteRefused, SealZeroRefused, CallPc
<1>14. CASE Crash(c)
  BY <1>14, GotoSound DEF Crash, CallPc
<1> QED
  BY QuietCallStep(c), <1>1, <1>2, <1>3, <1>4, <1>5, <1>6, <1>7, <1>8, <1>9,
     <1>10, <1>11, <1>12, <1>13, <1>14 DEF QuietCallStep

LEMMA QuietChoiceSound ==
    ASSUME EInv, NEW c \in Calls, NEW b \in BOOLEAN,
           TransportFails(c, b) \/ DecideReuse(c, b) \/ GateFails(c, FALSE, b)
    PROVE  EInv'
<1>1. CASE TransportFails(c, b)
  BY <1>1, InterruptedSound DEF TransportFails, RowsUnchanged
<1>2. CASE GateFails(c, FALSE, b)
  BY <1>2, InterruptedSound DEF GateFails
<1>3. CASE DecideReuse(c, b)
  <2>1. /\ Goto(c, "reuse") \/ Goto(c, "release")
        /\ UNCHANGED <<claims, uses, tools, sends, envelope>>
    BY <1>3 DEF DecideReuse, RowsUnchanged
  <2> QED
    BY <2>1, GotoSound DEF CallPc
<1> QED
  BY <1>1, <1>2, <1>3

-----------------------------------------------------------------------------
(* The insertion of a claim.                                               *)
LEMMA InsertSound ==
    ASSUME EInv, NEW c \in Calls, CanConsume(c), InsertClaim(c),
           UNCHANGED <<envelope, sends>>,
           NEW r \in Call, calls' = [calls EXCEPT ![c] = r],
           r.used = calls[c].used, r.mark = calls[c].mark,
           r.seen = calls[c].seen, r.pc \in {"gate", "done"},
           r.outcome \in {calls[c].outcome, "refused"}
    PROVE  EInv'
<1> DEFINE k == KeyOf[c]
           i == InvocationOf[c]
           cl == [state |-> "consumed", nonce |-> NoCall, owner |-> i, coded |-> FALSE]
<1>0. /\ k \in Keys /\ i \in Invocations /\ TypeOK
      /\ calls[c] \in Call /\ claims[k] \in Claim /\ tools[i] \in Tool
      /\ claims[k].state = "absent" /\ NoCall \notin Calls
      /\ RecSound(c, calls[c], claims[k])
      /\ KeySound(k, claims[k], sends[k], Users)
      /\ UseSound(k, claims[k], uses)
      /\ FamilyOf[i] \in {"read", "acquisition", "retrohunt", "model"}
  BY EffectsAssumption
     DEF EInv, TypeOK, CallsSound, KeysSound, UsesSound, CanConsume, ClaimOf
<1>1. cl \in Claim /\ claims' = [claims EXCEPT ![k] = cl]
  BY <1>0 DEF Claim, EffectClaimState, InsertClaim
<1>2. tools' \in [Invocations -> Tool]
  BY <1>0 DEF InsertClaim, Tool, TypeOK
<1>3. TypeOK'
  BY <1>0, <1>1, <1>2 DEF TypeOK, InsertClaim
<1>4. claims[k].nonce = NoCall /\ ~calls[c].used /\ NoCall \notin Users
  BY <1>0 DEF KeySound, RecSound, Users
<1>5. RecSound(c, r, cl)
  BY <1>0, <1>4 DEF RecSound
<1>6. KeySound(k, cl, sends[k], Users)
  BY <1>0, <1>4 DEF KeySound
<1>7. CallsSound' /\ KeysSound'
  BY <1>0, <1>1, <1>4, <1>5, <1>6, RowStep
<1>8. ASSUME NEW x \in Keys PROVE ToolSound(x, claims'[x], tools'[claims'[x].owner])
  <2>1. AttemptIsSendable(i)
    BY DEF CanConsume
  <2>2. CASE x = k
    BY <2>2, <1>0, <1>1 DEF ToolSound, InsertClaim, TypeOK, Tool
  <2>3. CASE x # k /\ claims[x].owner # i
    BY <2>3, <1>0, <1>1 DEF EInv, ToolsSound, InsertClaim, TypeOK, Tool
  <2>4. CASE x # k /\ claims[x].owner = i
    <3>1. claims'[x] = claims[x] /\ ToolSound(x, claims[x], tools[i])
      BY <2>4, <1>0, <1>1 DEF EInv, ToolsSound, TypeOK
    <3>2. tools'[i].status = tools[i].status
      BY <1>0 DEF InsertClaim, Tool, TypeOK
    <3>3. tools'[i].attempt =
              IF FamilyOf[i] = "read" THEN tools[i].attempt ELSE "submitting"
      BY <1>0 DEF InsertClaim, Tool, TypeOK
    <3>4. FamilyOf[i] # "read" => tools[i].attempt # "review"
      BY <2>1, <1>0 DEF AttemptIsSendable
    <3> QED
      BY <2>4, <3>1, <3>2, <3>3, <3>4 DEF ToolSound
  <2> QED
    BY <2>2, <2>3, <2>4
<1>9. ASSUME NEW x \in Keys PROVE UseSound(x, claims'[x], uses')
  <2>1. uses' = uses
    BY DEF InsertClaim
  <2>2. CASE x = k
    BY <2>1, <2>2, <1>0, <1>1 DEF UseSound, TypeOK
  <2>3. CASE x # k
    BY <2>1, <2>3, <1>0, <1>1 DEF EInv, UsesSound, TypeOK
  <2> QED
    BY <2>2, <2>3
<1> QED
  BY <1>3, <1>7, <1>8, <1>9 DEF EInv, ToolsSound, UsesSound

LEMMA ConsumeSound ==
    ASSUME EInv, NEW c \in Calls,
           ConsumeCommitted(c) \/ ConsumeUnacknowledged(c)
    PROVE  EInv'
<1>0. calls \in [Calls -> Call] /\ calls[c] \in Call
  BY DEF EInv, TypeOK
<1>1. CASE ConsumeCommitted(c)
  <2> DEFINE r == [calls[c] EXCEPT !.pc = "gate", !.permit = "issued", !.fresh = TRUE]
  <2>1. r \in Call
    BY <1>0 DEF Call, CallPc
  <2>2. /\ r.used = calls[c].used /\ r.mark = calls[c].mark /\ r.seen = calls[c].seen
        /\ r.pc = "gate" /\ r.outcome = calls[c].outcome
    BY <1>0 DEF Call
  <2>3. calls' = [calls EXCEPT ![c] = r]
    BY <1>0, <1>1 DEF ConsumeCommitted
  <2> HIDE DEF r
  <2> QED
    BY <1>1, <2>1, <2>2, <2>3, InsertSound DEF ConsumeCommitted
<1>2. CASE ConsumeUnacknowledged(c)
  <2> DEFINE r == [calls[c] EXCEPT !.pc = "done", !.outcome = "refused"]
  <2>1. r \in Call
    BY <1>0 DEF Call, CallPc, Outcome
  <2>2. /\ r.used = calls[c].used /\ r.mark = calls[c].mark /\ r.seen = calls[c].seen
        /\ r.pc = "done" /\ r.outcome = "refused"
    BY <1>0 DEF Call
  <2>3. calls' = [calls EXCEPT ![c] = r]
    BY <1>0, <1>2 DEF ConsumeUnacknowledged, Return
  <2> HIDE DEF r
  <2> QED
    BY <1>2, <2>1, <2>2, <2>3, InsertSound DEF ConsumeUnacknowledged
<1> QED
  BY <1>1, <1>2

-----------------------------------------------------------------------------
(* The handoff: the nonce is written, once, by the call that enters.       *)
LEMMA NonceSound ==
    ASSUME EInv, NEW c \in Calls, GateAdmits(c),
           claims' = [claims EXCEPT ![KeyOf[c]].nonce = c],
           UNCHANGED <<uses, tools, envelope, sends>>,
           NEW r \in Call, calls' = [calls EXCEPT ![c] = r],
           r.used = calls[c].used, r.pc \in {"entered", "review"},
           r.seen = calls[c].seen, r.outcome = calls[c].outcome,
           r.mark \/ c \in Deferred
    PROVE  EInv'
<1> DEFINE k == KeyOf[c]
           cl == [claims[k] EXCEPT !.nonce = c]
<1>0. /\ k \in Keys /\ TypeOK /\ claims \in [Keys -> Claim]
      /\ calls[c] \in Call /\ claims[k] \in Claim /\ NoCall \notin Calls
      /\ claims[k].state = "consumed" /\ claims[k].nonce = NoCall
      /\ RecSound(c, calls[c], claims[k])
      /\ KeySound(k, claims[k], sends[k], Users)
  BY EffectsAssumption
     DEF EInv, TypeOK, CallsSound, KeysSound, GateAdmits, ClaimOf
<1>1. /\ cl \in Claim /\ claims' = [claims EXCEPT ![k] = cl]
      /\ cl.nonce = c /\ cl.state = "consumed" /\ cl.owner = claims[k].owner
  BY <1>0 DEF Claim
<1>2. TypeOK'
  BY <1>0, <1>1 DEF TypeOK
<1>3. ~calls[c].used /\ c \notin Users /\ NoCall \notin Users
  BY <1>0 DEF RecSound, Users
<1> HIDE DEF cl
<1>4. RecSound(c, r, cl)
  BY <1>0, <1>1, <1>3 DEF RecSound
<1>5. KeySound(k, cl, sends[k], Users)
  BY <1>0, <1>1, <1>3 DEF KeySound
<1>6. CallsSound' /\ KeysSound'
  BY <1>0, <1>1, <1>4, <1>5, RowStep
<1>7. \A x \in Keys : /\ claims'[x].state = claims[x].state
                      /\ claims'[x].owner = claims[x].owner
  BY <1>0, <1>1
<1>8. ToolsSound'
  BY <1>7 DEF EInv, ToolsSound, ToolSound
<1>9. UsesSound'
  BY <1>7 DEF EInv, UsesSound, UseSound
<1> QED
  BY <1>2, <1>6, <1>8, <1>9 DEF EInv

LEMMA HandoffSound ==
    ASSUME EInv, NEW c \in Calls, NEW cancelled \in BOOLEAN,
           EnterHandoff(c) \/ GateFails(c, TRUE, cancelled)
    PROVE  EInv'
<1>0. /\ calls \in [Calls -> Call] /\ calls[c] \in Call
      /\ calls[c].mark \/ c \in Deferred
  BY DEF EInv, TypeOK, CallsSound, RecSound
<1>1. CASE EnterHandoff(c)
  <2> DEFINE r == [calls[c] EXCEPT !.pc = "entered"]
  <2>1. r \in Call
    BY <1>0 DEF Call, CallPc
  <2>2. /\ r.used = calls[c].used /\ r.mark = calls[c].mark /\ r.seen = calls[c].seen
        /\ r.pc = "entered" /\ r.outcome = calls[c].outcome
    BY <1>0 DEF Call
  <2>3. calls' = [calls EXCEPT ![c] = r]
    BY <1>0, <1>1 DEF EnterHandoff, Goto
  <2> HIDE DEF r
  <2> QED
    BY <1>0, <1>1, <2>1, <2>2, <2>3, NonceSound DEF EnterHandoff
<1>2. CASE GateFails(c, TRUE, cancelled)
  <2> DEFINE r == [calls[c] EXCEPT !.pc = "review", !.mark = cancelled \/ @,
                                   !.retryable = ~cancelled]
  <2>1. r \in Call
    BY <1>0 DEF Call, CallPc
  <2>2. /\ r.used = calls[c].used /\ r.seen = calls[c].seen
        /\ r.pc = "review" /\ r.outcome = calls[c].outcome
    BY <1>0 DEF Call
  <2>3. r.mark \/ c \in Deferred
    BY <1>0 DEF Call
  <2>4. calls' = [calls EXCEPT ![c] = r]
    BY <1>0, <1>2 DEF GateFails, Interrupted
  <2> HIDE DEF r
  <2> QED
    BY <1>2, <2>1, <2>2, <2>3, <2>4, NonceSound DEF GateFails
<1> QED
  BY <1>1, <1>2

(* The capability: the only step that emits.                               *)
LEMMA UseSendSound ==
    ASSUME EInv, NEW c \in Calls, UseCapability(c)
    PROVE  EInv'
<1> DEFINE k == KeyOf[c]
           r == [calls[c] EXCEPT !.attempted = TRUE, !.used = TRUE, !.permit = "burnt"]
<1>0. /\ k \in Keys /\ TypeOK /\ calls[c] \in Call /\ sends \in [Keys -> Nat]
      /\ RecSound(c, calls[c], claims[k])
      /\ KeySound(k, claims[k], sends[k], Users)
      /\ calls[c].pc = "transport" /\ ~calls[c].attempted
      /\ UNCHANGED <<claims, uses, tools, envelope>>
      /\ sends' = [sends EXCEPT ![k] = @ + 1]
  BY EffectsAssumption
     DEF EInv, TypeOK, CallsSound, KeysSound, UseCapability, CapabilityAdmits,
         At, RowsUnchanged
<1>1. r \in Call
  BY <1>0 DEF Call
<1>2. calls' = [calls EXCEPT ![c] = r]
  BY <1>0 DEF UseCapability, TypeOK
<1>3. /\ r.pc = "transport" /\ r.used /\ r.attempted /\ r.mark = calls[c].mark
      /\ r.outcome = calls[c].outcome /\ r.seen = calls[c].seen
  BY <1>0 DEF Call
<1> HIDE DEF r
<1>4. claims[k].nonce = c /\ c \notin Users
  BY <1>0 DEF RecSound, Users
<1>5. sends[k] = 0 /\ sends'[k] = 1 /\ \A x \in Keys \ {k} : sends'[x] = sends[x]
  BY <1>0, <1>4 DEF KeySound
<1>6. TypeOK'
  BY <1>0, <1>1, <1>2 DEF TypeOK
<1>7. RecSound(c, r, claims[k])
  BY <1>0, <1>3, <1>4 DEF RecSound
<1>8. CallsSound'
  BY <1>0, <1>2, <1>7 DEF EInv, CallsSound, TypeOK
<1>9. Users' = Users \union {c}
  BY <1>0, <1>2, <1>3 DEF Users, TypeOK
<1>10. ASSUME NEW x \in Keys PROVE KeySound(x, claims'[x], sends'[x], Users')
  <2>1. KeySound(x, claims[x], sends[x], Users)
    BY DEF EInv, KeysSound
  <2>2. CASE x = k
    BY <2>1, <2>2, <1>0, <1>4, <1>5, <1>9 DEF KeySound
  <2>3. CASE x # k
    <3>1. claims[x].nonce # c
      BY <2>1, <2>3, EffectsAssumption DEF KeySound
    <3> QED
      BY <2>1, <2>3, <3>1, <1>0, <1>5, <1>9 DEF KeySound
  <2> QED
    BY <2>2, <2>3
<1>11. KeysSound'
  BY <1>10 DEF KeysSound
<1>12. ToolsSound' /\ UsesSound'
  BY <1>0 DEF EInv, ToolsSound, UsesSound
<1> QED
  BY <1>6, <1>8, <1>11, <1>12 DEF EInv

-----------------------------------------------------------------------------
(* A consumed claim is settled as completed.                               *)
LEMMA CompletedSound ==
    ASSUME EInv, NEW c \in Calls, NEW coded \in BOOLEAN,
           calls[c].pc = "responded", CanComplete(c), MarkCompleted(c, coded),
           UNCHANGED <<envelope, sends>>,
           NEW r \in Call, calls' = [calls EXCEPT ![c] = r],
           r.used = calls[c].used, r.attempted = calls[c].attempted,
           r.seen = calls[c].seen, r.mark = calls[c].mark,
           r.pc \in {"done", "review"},
           r.outcome \in {calls[c].outcome, "completed"}
    PROVE  EInv'
<1> DEFINE k == KeyOf[c]
           i == claims[k].owner
           cl == [claims[k] EXCEPT !.state = "completed", !.coded = coded]
<1>0. /\ k \in Keys /\ TypeOK /\ claims \in [Keys -> Claim]
      /\ calls[c] \in Call /\ claims[k] \in Claim
      /\ claims[k].state = "consumed"
      /\ RecSound(c, calls[c], claims[k])
      /\ KeySound(k, claims[k], sends[k], Users)
      /\ UseSound(k, claims[k], uses)
  BY EffectsAssumption
     DEF EInv, TypeOK, CallsSound, KeysSound, UsesSound, CanComplete, ClaimOf
<1>1. i \in Invocations /\ tools[i] \in Tool /\ tools \in [Invocations -> Tool]
  BY <1>0 DEF KeySound, TypeOK
<1>2. /\ cl \in Claim /\ claims' = [claims EXCEPT ![k] = cl]
      /\ cl.nonce = claims[k].nonce /\ cl.state = "completed" /\ cl.owner = i
  BY <1>0 DEF Claim, EffectClaimState, MarkCompleted
<1> HIDE DEF cl
<1>3. claims[k].nonce = c /\ calls[c].used /\ c \in Users
  BY <1>0 DEF RecSound, Users
<1>4. /\ tools' \in [Invocations -> Tool]
      /\ \A j \in Invocations \ {i} : tools'[j] = tools[j]
      /\ tools'[i].status = tools[i].status
      /\ tools[i].attempt = "review" => tools'[i].attempt = "review"
      /\ FamilyOf[i] # "model" => tools'[i].attempt = tools[i].attempt
  BY <1>1 DEF MarkCompleted, ClaimOf, Tool
<1>5. /\ uses'.sent = uses.sent \union {<<k, i>>} /\ uses'.reused = uses.reused
      /\ uses' \in [sent : SUBSET (Keys \X Invocations),
                    reused : SUBSET (Keys \X Invocations)]
  BY <1>0, <1>1 DEF MarkCompleted, SentUses, ClaimOf, TypeOK
<1>6. TypeOK'
  BY <1>0, <1>2, <1>4, <1>5 DEF TypeOK
<1>7. RecSound(c, r, cl)
  BY <1>0, <1>2, <1>3 DEF RecSound
<1>8. KeySound(k, cl, sends[k], Users)
  BY <1>0, <1>2, <1>3 DEF KeySound
<1>9. CallsSound' /\ KeysSound'
  BY <1>0, <1>2, <1>7, <1>8, RowStep
<1>10. ASSUME NEW x \in Keys PROVE ToolSound(x, claims'[x], tools'[claims'[x].owner])
  <2>1. CASE x = k
    BY <2>1, <1>0, <1>2 DEF ToolSound
  <2>2. CASE x # k
    <3>1. claims'[x] = claims[x] /\ ToolSound(x, claims[x], tools[claims[x].owner])
      BY <2>2, <1>0, <1>2 DEF EInv, ToolsSound
    <3>2. claims[x].state # "absent" => claims[x].owner \in Invocations
      BY DEF EInv, KeysSound, KeySound
    <3> QED
      BY <3>1, <3>2, <1>4 DEF ToolSound
  <2> QED
    BY <2>1, <2>2
<1>11. ASSUME NEW x \in Keys PROVE UseSound(x, claims'[x], uses')
  <2>1. CASE x = k
    BY <2>1, <1>0, <1>1, <1>2, <1>5 DEF UseSound
  <2>2. CASE x # k
    BY <2>2, <1>0, <1>2, <1>5 DEF EInv, UsesSound, UseSound
  <2> QED
    BY <2>1, <2>2
<1> QED
  BY <1>6, <1>9, <1>10, <1>11 DEF EInv, ToolsSound, UsesSound

LEMMA CompleteSound ==
    ASSUME EInv, NEW c \in Calls, NEW coded \in BOOLEAN,
           Complete(c, coded) \/ CompleteUnacknowledged(c, coded)
    PROVE  EInv'
<1>0. calls \in [Calls -> Call] /\ calls[c] \in Call
  BY DEF EInv, TypeOK
<1>1. CASE Complete(c, coded)
  <2> DEFINE r == [calls[c] EXCEPT !.pc = "done", !.outcome = "completed"]
  <2>1. r \in Call
    BY <1>0 DEF Call, CallPc, Outcome
  <2>2. /\ r.used = calls[c].used /\ r.attempted = calls[c].attempted
        /\ r.mark = calls[c].mark /\ r.seen = calls[c].seen
        /\ r.pc = "done" /\ r.outcome = "completed"
    BY <1>0 DEF Call
  <2>3. calls' = [calls EXCEPT ![c] = r]
    BY <1>0, <1>1 DEF Complete, Return
  <2> HIDE DEF r
  <2> QED
    BY <1>1, <2>1, <2>2, <2>3, CompletedSound DEF Complete, At
<1>2. CASE CompleteUnacknowledged(c, coded)
  <2> DEFINE r == [calls[c] EXCEPT !.pc = "review"]
  <2>1. r \in Call
    BY <1>0 DEF Call, CallPc
  <2>2. /\ r.used = calls[c].used /\ r.attempted = calls[c].attempted
        /\ r.mark = calls[c].mark /\ r.seen = calls[c].seen
        /\ r.pc = "review" /\ r.outcome = calls[c].outcome
    BY <1>0 DEF Call
  <2>3. calls' = [calls EXCEPT ![c] = r]
    BY <1>0, <1>2 DEF CompleteUnacknowledged, Goto
  <2> HIDE DEF r
  <2> QED
    BY <1>2, <2>1, <2>2, <2>3, CompletedSound DEF CompleteUnacknowledged, At
<1> QED
  BY <1>1, <1>2

(* A consumed claim without a nonce is settled as not submitted.           *)
LEMMA NotSubmittedSound ==
    ASSUME EInv, NEW c \in Calls, ProvenUnsent(c), MarkNotSubmitted(c),
           UNCHANGED <<envelope, sends>>,
           NEW r \in Call, calls' = [calls EXCEPT ![c] = r],
           r.used = calls[c].used, r.attempted = calls[c].attempted,
           r.mark = calls[c].mark, r.pc \in {"done", "review"}
    PROVE  EInv'
<1> DEFINE k == KeyOf[c]
           i == claims[k].owner
           cl == [claims[k] EXCEPT !.state = "definitively_not_submitted"]
<1>0. /\ k \in Keys /\ TypeOK /\ claims \in [Keys -> Claim]
      /\ calls[c] \in Call /\ claims[k] \in Claim /\ NoCall \notin Calls
      /\ claims[k].state = "consumed" /\ claims[k].nonce = NoCall
      /\ RecSound(c, calls[c], claims[k])
      /\ KeySound(k, claims[k], sends[k], Users)
      /\ UseSound(k, claims[k], uses)
  BY EffectsAssumption
     DEF EInv, TypeOK, CallsSound, KeysSound, UsesSound, ProvenUnsent, ClaimOf
<1>1. i \in Invocations /\ tools[i] \in Tool /\ tools \in [Invocations -> Tool]
  BY <1>0 DEF KeySound, TypeOK
<1>2. /\ cl \in Claim /\ claims' = [claims EXCEPT ![k] = cl]
      /\ cl.nonce = NoCall /\ cl.state = "definitively_not_submitted" /\ cl.owner = i
  BY <1>0 DEF Claim, EffectClaimState, MarkNotSubmitted
<1> HIDE DEF cl
<1>3. /\ tools' \in [Invocations -> Tool]
      /\ \A j \in Invocations \ {i} : tools'[j] = tools[j]
      /\ tools'[i].status # "running"
      /\ tools'[i].attempt = tools[i].attempt
  BY <1>1 DEF MarkNotSubmitted, ClaimOf, Tool
<1>4. TypeOK'
  BY <1>0, <1>2, <1>3 DEF TypeOK, MarkNotSubmitted
<1>5. ~calls[c].used /\ NoCall \notin Users
  BY <1>0 DEF RecSound, Users
<1>6. RecSound(c, r, cl)
  BY <1>0, <1>2, <1>5 DEF RecSound
<1>7. KeySound(k, cl, sends[k], Users)
  BY <1>0, <1>1, <1>2, <1>5 DEF KeySound
<1>8. CallsSound' /\ KeysSound'
  BY <1>0, <1>2, <1>6, <1>7, RowStep
<1>9. ASSUME NEW x \in Keys PROVE ToolSound(x, claims'[x], tools'[claims'[x].owner])
  <2>1. CASE x = k
    BY <2>1, <1>0, <1>2 DEF ToolSound
  <2>2. CASE x # k
    <3>1. claims'[x] = claims[x] /\ ToolSound(x, claims[x], tools[claims[x].owner])
      BY <2>2, <1>0, <1>2 DEF EInv, ToolsSound
    <3>2. claims[x].state # "absent" => claims[x].owner \in Invocations
      BY DEF EInv, KeysSound, KeySound
    <3> QED
      BY <3>1, <3>2, <1>3 DEF ToolSound
  <2> QED
    BY <2>1, <2>2
<1>10. ASSUME NEW x \in Keys PROVE UseSound(x, claims'[x], uses')
  <2>1. uses' = uses
    BY DEF MarkNotSubmitted
  <2>2. CASE x = k
    BY <2>1, <2>2, <1>0, <1>2 DEF UseSound
  <2>3. CASE x # k
    BY <2>1, <2>3, <1>0, <1>2 DEF EInv, UsesSound
  <2> QED
    BY <2>2, <2>3
<1> QED
  BY <1>4, <1>8, <1>9, <1>10 DEF EInv, ToolsSound, UsesSound

LEMMA SealZeroSound ==
    ASSUME EInv, NEW c \in Calls,
           SealZeroHandoff(c) \/ SealZeroUnacknowledged(c)
    PROVE  EInv'
<1>0. calls \in [Calls -> Call] /\ calls[c] \in Call
  BY DEF EInv, TypeOK
<1>1. CASE SealZeroHandoff(c)
  <2> DEFINE r == [calls[c] EXCEPT !.pc = "done", !.outcome = "not_submitted"]
  <2>1. r \in Call
    BY <1>0 DEF Call, CallPc, Outcome
  <2>2. /\ r.used = calls[c].used /\ r.attempted = calls[c].attempted
        /\ r.mark = calls[c].mark /\ r.pc = "done"
    BY <1>0 DEF Call
  <2>3. calls' = [calls EXCEPT ![c] = r]
    BY <1>0, <1>1 DEF SealZeroHandoff, Return
  <2> HIDE DEF r
  <2> QED
    BY <1>1, <2>1, <2>2, <2>3, NotSubmittedSound DEF SealZeroHandoff
<1>2. CASE SealZeroUnacknowledged(c)
  <2> DEFINE r == [calls[c] EXCEPT !.pc = "review"]
  <2>1. r \in Call
    BY <1>0 DEF Call, CallPc
  <2>2. /\ r.used = calls[c].used /\ r.attempted = calls[c].attempted
        /\ r.mark = calls[c].mark /\ r.pc = "review"
    BY <1>0 DEF Call
  <2>3. calls' = [calls EXCEPT ![c] = r]
    BY <1>0, <1>2 DEF SealZeroUnacknowledged, Goto
  <2> HIDE DEF r
  <2> QED
    BY <1>2, <2>1, <2>2, <2>3, NotSubmittedSound DEF SealZeroUnacknowledged
<1> QED
  BY <1>1, <1>2

(* A consumed claim is sealed for review, with the rows of its owner.      *)
LEMMA NeedsReviewSound ==
    ASSUME EInv, NEW c \in Calls, SealNeedsReview(c)
    PROVE  EInv'
<1> DEFINE k == KeyOf[c]
           i == claims[k].owner
           cl == [claims[k] EXCEPT !.state = "needs_review"]
           r == [calls[c] EXCEPT !.pc = "done", !.outcome = "ambiguous"]
<1>0. /\ k \in Keys /\ TypeOK /\ claims \in [Keys -> Claim]
      /\ calls \in [Calls -> Call]
      /\ calls[c] \in Call /\ claims[k] \in Claim
      /\ claims[k].state = "consumed"
      /\ RecSound(c, calls[c], claims[k])
      /\ KeySound(k, claims[k], sends[k], Users)
      /\ UseSound(k, claims[k], uses)
      /\ UNCHANGED <<uses, envelope, sends>>
  BY EffectsAssumption
     DEF EInv, TypeOK, CallsSound, KeysSound, UsesSound, SealNeedsReview, ClaimOf
<1>1. /\ i \in Invocations /\ tools[i] \in Tool /\ tools \in [Invocations -> Tool]
      /\ FamilyOf[i] \in {"read", "acquisition", "retrohunt", "model"}
      /\ ToolSound(k, claims[k], tools[i])
  BY <1>0, EffectsAssumption DEF KeySound, TypeOK, EInv, ToolsSound
<1>2. /\ cl \in Claim /\ claims' = [claims EXCEPT ![k] = cl]
      /\ cl.nonce = claims[k].nonce /\ cl.state = "needs_review" /\ cl.owner = i
  BY <1>0 DEF Claim, EffectClaimState, SealNeedsReview, ClaimOf
<1> HIDE DEF cl
<1>3. r \in Call
  BY <1>0 DEF Call, CallPc, Outcome
<1>4. /\ r.used = calls[c].used /\ r.attempted = calls[c].attempted
      /\ r.mark = calls[c].mark /\ r.seen = calls[c].seen
      /\ r.pc = "done" /\ r.outcome = "ambiguous"
  BY <1>0 DEF Call
<1>5. calls' = [calls EXCEPT ![c] = r]
  BY <1>0 DEF SealNeedsReview, Return
<1> HIDE DEF r
<1>6. /\ ReviewedStatus(c, tools[i].status)
            \in {"running", "needs_review", "failed", "succeeded"}
      /\ calls[c].mark => ReviewedStatus(c, tools[i].status) # "running"
      /\ tools[i].status # "running"
            => ReviewedStatus(c, tools[i].status) = tools[i].status
  BY <1>1 DEF ReviewedStatus, MarksInvocation, Tool
<1>7. /\ ReviewedAttempt(i, tools[i].attempt)
            \in {"ready", "submitting", "obtained", "review"}
      /\ FamilyOf[i] # "read" => ReviewedAttempt(i, tools[i].attempt) = "review"
      /\ FamilyOf[i] = "read" => ReviewedAttempt(i, tools[i].attempt) = tools[i].attempt
  BY <1>0, <1>1 DEF ReviewedAttempt, Tool, ToolSound
<1>8. /\ tools' \in [Invocations -> Tool]
      /\ \A j \in Invocations \ {i} : tools'[j] = tools[j]
      /\ tools'[i].status = ReviewedStatus(c, tools[i].status)
      /\ tools'[i].attempt = ReviewedAttempt(i, tools[i].attempt)
  BY <1>1, <1>6, <1>7 DEF SealNeedsReview, ClaimOf, Tool
<1>9. TypeOK'
  BY <1>0, <1>2, <1>3, <1>5, <1>8 DEF TypeOK
<1>10. RecSound(c, r, cl)
  BY <1>0, <1>2, <1>4 DEF RecSound
<1>11. KeySound(k, cl, sends[k], Users)
  BY <1>0, <1>1, <1>2 DEF KeySound
<1>12. CallsSound' /\ KeysSound'
  BY <1>0, <1>2, <1>3, <1>4, <1>5, <1>10, <1>11, RowStep
<1>13. ASSUME NEW x \in Keys PROVE ToolSound(x, claims'[x], tools'[claims'[x].owner])
  <2>1. CASE x = k
    BY <2>1, <1>0, <1>2, <1>6, <1>7, <1>8 DEF ToolSound, RecSound
  <2>2. CASE x # k
    <3>1. claims'[x] = claims[x] /\ ToolSound(x, claims[x], tools[claims[x].owner])
      BY <2>2, <1>0, <1>2 DEF EInv, ToolsSound
    <3>2. claims[x].state # "absent" => claims[x].owner \in Invocations
      BY DEF EInv, KeysSound, KeySound
    <3> QED
      BY <3>1, <3>2, <1>6, <1>7, <1>8 DEF ToolSound
  <2> QED
    BY <2>1, <2>2
<1>14. ASSUME NEW x \in Keys PROVE UseSound(x, claims'[x], uses')
  <2>1. CASE x = k
    BY <2>1, <1>0, <1>2 DEF UseSound
  <2>2. CASE x # k
    BY <2>2, <1>0, <1>2 DEF EInv, UsesSound
  <2> QED
    BY <2>1, <2>2
<1> QED
  BY <1>9, <1>12, <1>13, <1>14 DEF EInv, ToolsSound, UsesSound

-----------------------------------------------------------------------------
(* Steps that only rewrite tool rows: no tool starts running again, and no *)
(* attempt row changes.                                                    *)
LEMMA ToolStep ==
    ASSUME EInv, tools' \in [Invocations -> Tool],
           \A i \in Invocations :
               /\ tools[i].status # "running" => tools'[i].status # "running"
               /\ tools'[i].attempt = tools[i].attempt,
           UNCHANGED <<claims, sends>>
    PROVE  ToolsSound'
<1>1. ASSUME NEW x \in Keys PROVE ToolSound(x, claims'[x], tools'[claims'[x].owner])
  <2>1. /\ ToolSound(x, claims[x], tools[claims[x].owner])
        /\ claims[x].state # "absent" => claims[x].owner \in Invocations
    BY DEF EInv, ToolsSound, KeysSound, KeySound
  <2> QED
    BY <2>1 DEF ToolSound
<1> QED
  BY <1>1 DEF ToolsSound

(* A reuse is recorded for another invocation than the owner's.            *)
LEMMA ReuseSound ==
    ASSUME EInv, NEW c \in Calls, NEW outcome \in {"reused", "reuse_unrecorded"},
           CanRecordReuse(c), MarkReused(c), Return(c, outcome),
           UNCHANGED <<envelope, sends>>
    PROVE  EInv'
<1> DEFINE k == KeyOf[c]
           i == InvocationOf[c]
           r == [calls[c] EXCEPT !.pc = "done", !.outcome = outcome]
<1>0. /\ k \in Keys /\ i \in Invocations /\ TypeOK
      /\ calls \in [Calls -> Call] /\ calls[c] \in Call
      /\ tools \in [Invocations -> Tool] /\ tools[i] \in Tool
      /\ RecSound(c, calls[c], claims[k]) /\ UseSound(k, claims[k], uses)
      /\ claims[k].state = "completed"
      /\ <<k, i>> \notin uses.sent \/ <<k, i>> \in uses.reused
      /\ UNCHANGED <<claims, envelope, sends>>
  BY EffectsAssumption
     DEF EInv, TypeOK, CallsSound, UsesSound, CanRecordReuse, MarkReused, ClaimOf
<1>1. r \in Call
  BY <1>0 DEF Call, CallPc, Outcome
<1>2. /\ r.used = calls[c].used /\ r.attempted = calls[c].attempted
      /\ r.mark = calls[c].mark /\ r.seen = calls[c].seen
      /\ r.pc = "done" /\ r.outcome = outcome
  BY <1>0 DEF Call
<1>3. calls' = [calls EXCEPT ![c] = r]
  BY <1>0 DEF Return
<1> HIDE DEF r
<1>4. /\ tools' \in [Invocations -> Tool]
      /\ \A j \in Invocations : /\ tools'[j].status = tools[j].status
                                /\ tools'[j].attempt = tools[j].attempt
  BY <1>0 DEF MarkReused, Tool
<1>5. /\ uses'.sent = uses.sent /\ uses'.reused = uses.reused \union {<<k, i>>}
      /\ uses' \in [sent : SUBSET (Keys \X Invocations),
                    reused : SUBSET (Keys \X Invocations)]
  BY <1>0 DEF MarkReused, TypeOK
<1>6. TypeOK'
  BY <1>0, <1>1, <1>3, <1>4, <1>5 DEF TypeOK
<1>7. RecSound(c, r, claims[k])
  BY <1>0, <1>2 DEF RecSound
<1>8. CallsSound'
  BY <1>0, <1>3, <1>7 DEF EInv, CallsSound
<1>9. Users' = Users
  BY <1>0, <1>2, <1>3 DEF Users
<1>10. KeysSound'
  BY <1>0, <1>9 DEF EInv, KeysSound
<1>11. ToolsSound'
  BY <1>0, <1>4, ToolStep
<1>12. ASSUME NEW x \in Keys PROVE UseSound(x, claims'[x], uses')
  <2>1. UseSound(x, claims[x], uses)
    BY DEF EInv, UsesSound
  <2>2. CASE x = k
    BY <2>1, <2>2, <1>0, <1>5 DEF UseSound
  <2>3. CASE x # k
    BY <2>1, <2>3, <1>0, <1>5 DEF UseSound
  <2> QED
    BY <2>2, <2>3
<1> QED
  BY <1>6, <1>8, <1>10, <1>11, <1>12 DEF EInv, UsesSound

(* A released reservation touches no row the invariant speaks of.          *)
LEMMA ReleaseSound ==
    ASSUME EInv, NEW c \in Calls, ReleaseReservation(c)
    PROVE  EInv'
<1> DEFINE i == InvocationOf[c]
           r == [calls[c] EXCEPT !.pc = "done", !.outcome = "refused"]
<1>0. /\ KeyOf[c] \in Keys /\ i \in Invocations /\ TypeOK
      /\ calls \in [Calls -> Call] /\ calls[c] \in Call
      /\ tools \in [Invocations -> Tool] /\ tools[i] \in Tool
      /\ RecSound(c, calls[c], claims[KeyOf[c]])
      /\ UNCHANGED <<claims, uses, sends>>
  BY EffectsAssumption DEF EInv, TypeOK, CallsSound, ReleaseReservation
<1>1. r \in Call
  BY <1>0 DEF Call, CallPc, Outcome
<1>2. /\ r.used = calls[c].used /\ r.attempted = calls[c].attempted
      /\ r.mark = calls[c].mark /\ r.seen = calls[c].seen
      /\ r.pc = "done" /\ r.outcome = "refused"
  BY <1>0 DEF Call
<1>3. calls' = [calls EXCEPT ![c] = r]
  BY <1>0 DEF ReleaseReservation, Return
<1> HIDE DEF r
<1>4. /\ tools' \in [Invocations -> Tool]
      /\ \A j \in Invocations : /\ tools'[j].status = tools[j].status
                                /\ tools'[j].attempt = tools[j].attempt
  BY <1>0 DEF ReleaseReservation, Tool
<1>5. envelope' \in [version : Nat, allowed : BOOLEAN, stopped : BOOLEAN]
  BY <1>0 DEF ReleaseReservation, TypeOK
<1>6. TypeOK'
  BY <1>0, <1>1, <1>3, <1>4, <1>5 DEF TypeOK
<1>7. RecSound(c, r, claims[KeyOf[c]])
  BY <1>0, <1>2 DEF RecSound
<1>8. CallsSound'
  BY <1>0, <1>3, <1>7 DEF EInv, CallsSound
<1>9. Users' = Users
  BY <1>0, <1>2, <1>3 DEF Users
<1>10. KeysSound' /\ UsesSound'
  BY <1>0, <1>9 DEF EInv, KeysSound, UsesSound
<1>11. ToolsSound'
  BY <1>0, <1>4, ToolStep
<1> QED
  BY <1>6, <1>8, <1>10, <1>11 DEF EInv

(* The investigation's own steps.                                          *)
LEMMA InvestigationSound ==
    ASSUME EInv, InvestigationStep
    PROVE  EInv'
<1> DEFINE Kept ==
             /\ tools' \in [Invocations -> Tool]
             /\ \A i \in Invocations :
                   /\ tools[i].status # "running" => tools'[i].status # "running"
                   /\ tools'[i].attempt = tools[i].attempt
           Typed == envelope' \in [version : Nat, allowed : BOOLEAN, stopped : BOOLEAN]
<1>0. /\ TypeOK /\ tools \in [Invocations -> Tool]
      /\ envelope \in [version : Nat, allowed : BOOLEAN, stopped : BOOLEAN]
  BY DEF EInv, TypeOK
<1>1. UNCHANGED <<claims, uses, calls, sends>>
  BY DEF InvestigationStep, Govern, SetStopped, ReviewTool, SettleTool, SaveBudget,
         RowsUnchanged
<1>2. Kept
  <2>1. CASE UNCHANGED tools
    BY <2>1, <1>0
  <2>2. ASSUME NEW i \in Invocations, ReviewTool(i) PROVE Kept
    BY <2>2, <1>0 DEF ReviewTool, Tool
  <2>3. ASSUME NEW i \in Invocations,
               NEW reservation \in {"reserved", "released", "committed"},
               NEW status \in {"needs_review", "failed", "succeeded"},
               SettleTool(i, status, reservation)
        PROVE  Kept
    BY <2>3, <1>0 DEF SettleTool, Tool
  <2>4. ASSUME NEW i \in Invocations,
               NEW reservation \in {"reserved", "released", "committed"},
               SaveBudget(i, reservation)
        PROVE  Kept
    BY <2>4, <1>0 DEF SaveBudget, Tool
  <2> QED
    BY <2>1, <2>2, <2>3, <2>4 DEF InvestigationStep, Govern, SetStopped, RowsUnchanged
<1>3. Typed
  <2>1. CASE UNCHANGED envelope
    BY <2>1, <1>0
  <2>2. ASSUME NEW allowed \in BOOLEAN, Govern(allowed) PROVE Typed
    <3>1. envelope' = [version |-> envelope.version + 1, allowed |-> allowed,
                       stopped |-> envelope.stopped]
      BY <2>2, <1>0 DEF Govern
    <3> QED
      BY <3>1, <1>0
  <2>3. ASSUME NEW stopped \in BOOLEAN, SetStopped(stopped) PROVE Typed
    BY <2>3, <1>0 DEF SetStopped
  <2>4. ASSUME NEW i \in Invocations,
               NEW reservation \in {"reserved", "released", "committed"},
               SaveBudget(i, reservation)
        PROVE  Typed
    BY <2>4, <1>0 DEF SaveBudget
  <2>5. ASSUME NEW i \in Invocations,
               NEW reservation \in {"reserved", "released", "committed"},
               NEW status \in {"needs_review", "failed", "succeeded"},
               SettleTool(i, status, reservation)
        PROVE  Typed
    BY <2>1, <2>5, <1>0 DEF SettleTool
  <2> QED
    BY <2>1, <2>2, <2>3, <2>4, <2>5 DEF InvestigationStep, ReviewTool
<1>4. TypeOK'
  BY <1>0, <1>1, <1>2, <1>3 DEF TypeOK
<1>5. CallsSound' /\ KeysSound' /\ UsesSound'
  BY <1>1 DEF EInv, CallsSound, KeysSound, UsesSound, Users
<1>6. ToolsSound'
  BY <1>1, <1>2, ToolStep
<1> QED
  BY <1>4, <1>5, <1>6 DEF EInv

-----------------------------------------------------------------------------
(* Every step of a call.                                                   *)
LEMMA CallStepSound ==
    ASSUME EInv, NEW c \in Calls, CallStep(c)
    PROVE  EInv'
<1>1. CASE QuietCallStep(c)
  BY <1>1, QuietCallStepSound
<1>2. CASE ConsumeCommitted(c) \/ ConsumeUnacknowledged(c)
  BY <1>2, ConsumeSound
<1>3. CASE EnterHandoff(c)
  BY <1>3, HandoffSound
<1>4. ASSUME NEW committed \in BOOLEAN, NEW cancelled \in BOOLEAN,
             GateFails(c, committed, cancelled)
      PROVE  EInv'
  <2>1. CASE committed = TRUE
    BY <1>4, <2>1, HandoffSound
  <2>2. CASE committed = FALSE
    BY <1>4, <2>2, QuietChoiceSound
  <2> QED
    BY <2>1, <2>2
<1>5. CASE UseCapability(c)
  BY <1>5, UseSendSound
<1>6. ASSUME NEW b \in BOOLEAN, TransportFails(c, b) \/ DecideReuse(c, b) PROVE EInv'
  BY <1>6, QuietChoiceSound
<1>7. ASSUME NEW coded \in BOOLEAN,
             Complete(c, coded) \/ CompleteUnacknowledged(c, coded)
      PROVE  EInv'
  BY <1>7, CompleteSound
<1>8. CASE SealZeroHandoff(c) \/ SealZeroUnacknowledged(c)
  BY <1>8, SealZeroSound
<1>9. CASE SealNeedsReview(c)
  BY <1>9, NeedsReviewSound
<1>10. CASE RecordReuse(c) \/ RecordReuseUnacknowledged(c)
  BY <1>10, ReuseSound DEF RecordReuse, RecordReuseUnacknowledged
<1>11. CASE ReleaseReservation(c)
  BY <1>11, ReleaseSound
<1> QED
  BY <1>1, <1>2, <1>3, <1>4, <1>5, <1>6, <1>7, <1>8, <1>9, <1>10, <1>11
     DEF CallStep, Proceed, ConsumeStep, GateStep, TransportStep, RecordStep,
         ExistingStep, QuietCallStep

LEMMA StepSound == EInv /\ [Next]_vars => EInv'
<1> SUFFICES ASSUME EInv, [Next]_vars PROVE EInv'
  OBVIOUS
<1>1. ASSUME NEW c \in Calls, CallStep(c) PROVE EInv'
  BY <1>1, CallStepSound
<1>2. CASE InvestigationStep
  BY <1>2, InvestigationSound
<1>3. CASE UNCHANGED vars
  BY <1>3 DEF vars, EInv, TypeOK, CallsSound, KeysSound, ToolsSound, UsesSound, Users
<1> QED
  BY <1>1, <1>2, <1>3 DEF Next

-----------------------------------------------------------------------------
(* The invariant holds in every reachable state of the coordinator.        *)
THEOREM EffectsInvariance == Spec => []EInv
<1>1. Init => EInv
  BY InitSound
<1>2. EInv /\ [Next]_vars => EInv'
  BY StepSound
<1> QED
  BY <1>1, <1>2, PTL DEF Spec

(* Every claim, invocation, call and reservation has its type, in every    *)
(* state the coordinator and its faults can reach.                         *)
THEOREM EffectTypes == Spec => []TypeOK
<1>1. EInv => TypeOK
  BY DEF EInv
<1> QED
  BY <1>1, EffectsInvariance, PTL

(* Each effect key is emitted at most once.                                *)
THEOREM EffectsAreEmittedOnce == Spec => []AtMostOnce
<1>1. EInv => AtMostOnce
  BY DEF EInv, KeysSound, KeySound, AtMostOnce
<1> QED
  BY <1>1, EffectsInvariance, PTL

(* Completed and not-submitted claims, and outcomes, tell the truth.       *)
THEOREM ClaimsAreTruthful == Spec => []ClaimIsTruthful
<1>1. EInv => ClaimIsTruthful
  <2> SUFFICES ASSUME EInv PROVE ClaimIsTruthful
    OBVIOUS
  <2> USE EffectsAssumption
  <2>1. ASSUME NEW k \in Keys
        PROVE  /\ claims[k].state = "completed" => sends[k] = 1
               /\ claims[k].state = "definitively_not_submitted" => sends[k] = 0
    <3>1. KeySound(k, claims[k], sends[k], Users) /\ Users \subseteq Calls
      BY DEF EInv, KeysSound, Users
    <3> QED
      BY <3>1 DEF KeySound
  <2>2. ASSUME NEW c \in Calls, calls[c].outcome = "not_submitted"
        PROVE  sends[KeyOf[c]] = 0
    <3>1. claims[KeyOf[c]].state = "definitively_not_submitted"
      BY <2>2 DEF EInv, CallsSound, RecSound
    <3> QED
      BY <2>1, <3>1
  <2> QED
    BY <2>1, <2>2 DEF ClaimIsTruthful
<1> QED
  BY <1>1, EffectsInvariance, PTL

(* An effect in doubt is not repeated by anything automatic.               *)
THEOREM AmbiguityStaysContained == Spec => []AmbiguityIsContained
<1>1. EInv => AmbiguityIsContained
  BY DEF EInv, ToolsSound, ToolSound, AmbiguityIsContained
<1> QED
  BY <1>1, EffectsInvariance, PTL

(* The sender of an effect never records a free reuse of it.               *)
THEOREM SendersPayTheirSend == Spec => []OwnSendIsNotReuse
<1>1. EInv => OwnSendIsNotReuse
  BY DEF EInv, UsesSound, UseSound, OwnSendIsNotReuse
<1> QED
  BY <1>1, EffectsInvariance, PTL

-----------------------------------------------------------------------------
(* What a step may do to the row of one key and to what was emitted: the   *)
(* row is inserted, entered, or settled in one of three ways, or the       *)
(* effect is emitted for the first time.                                   *)
Inserted(k) ==
    claims[k].state = "absent" /\ claims'[k].state = "consumed"
    /\ claims[k].nonce = NoCall /\ claims'[k].nonce = NoCall
Entered(k) ==
    claims[k].state = "consumed" /\ claims'[k].state = "consumed"
    /\ claims[k].nonce = NoCall
Settles(k) ==
    /\ claims[k].state = "consumed" /\ claims'[k].nonce = claims[k].nonce
    /\ \/ claims'[k].state = "completed" /\ claims[k].nonce \in Users
       \/ claims'[k].state = "definitively_not_submitted" /\ claims[k].nonce = NoCall
       \/ claims'[k].state = "needs_review"
Emitted(k) ==
    /\ claims'[k] = claims[k] /\ sends[k] = 0 /\ sends'[k] = 1
    /\ claims[k].nonce # NoCall /\ claims[k].state \in {"consumed", "needs_review"}

Moves(k) ==
    /\ \A x \in Keys \ {k} : claims'[x] = claims[x] /\ sends'[x] = sends[x]
    /\ \/ claims'[k] = claims[k] /\ sends'[k] = sends[k]
       \/ (Inserted(k) \/ Entered(k) \/ Settles(k)) /\ sends'[k] = sends[k]
       \/ Emitted(k)

LEMMA CallMoves ==
    ASSUME EInv, NEW c \in Calls, CallStep(c)
    PROVE  Moves(KeyOf[c])
<1> DEFINE k == KeyOf[c]
<1>0. /\ k \in Keys /\ claims \in [Keys -> Claim] /\ claims[k] \in Claim
      /\ sends \in [Keys -> Nat] /\ NoCall \notin Calls
      /\ RecSound(c, calls[c], claims[k])
      /\ KeySound(k, claims[k], sends[k], Users)
  BY EffectsAssumption DEF EInv, TypeOK, CallsSound, KeysSound
<1>1. CASE UNCHANGED <<claims, sends>>
  BY <1>1 DEF Moves
<1>2. CASE ConsumeCommitted(c) \/ ConsumeUnacknowledged(c)
  <2>1. /\ InsertClaim(c) /\ claims[k].state = "absent" /\ UNCHANGED sends
    BY <1>2 DEF ConsumeCommitted, ConsumeUnacknowledged, CanConsume, ClaimOf
  <2>2. claims[k].nonce = NoCall
    BY <1>0, <2>1 DEF KeySound
  <2>3. Inserted(k) /\ \A x \in Keys \ {k} : claims'[x] = claims[x]
    BY <1>0, <2>1, <2>2 DEF Inserted, InsertClaim
  <2> QED
    BY <2>1, <2>3 DEF Moves
<1>3. ASSUME GateAdmits(c), UNCHANGED sends,
             claims' = [claims EXCEPT ![k].nonce = c]
      PROVE  Moves(k)
  <2>1. Entered(k) /\ \A x \in Keys \ {k} : claims'[x] = claims[x]
    BY <1>0, <1>3 DEF Entered, GateAdmits, ClaimOf, Claim
  <2> QED
    BY <1>3, <2>1 DEF Moves
<1>4. CASE UseCapability(c)
  <2>1. /\ calls[c].pc = "transport" /\ ~calls[c].attempted /\ UNCHANGED claims
        /\ sends' = [sends EXCEPT ![k] = @ + 1]
    BY <1>4 DEF UseCapability, CapabilityAdmits, At, RowsUnchanged
  <2>2. claims[k].nonce = c /\ c \notin Users
    BY <1>0, <2>1 DEF RecSound, Users
  <2>3. sends[k] = 0 /\ claims[k].state \in {"consumed", "needs_review"}
    BY <1>0, <2>2 DEF KeySound
  <2>4. Emitted(k) /\ \A x \in Keys \ {k} : sends'[x] = sends[x]
    BY <1>0, <2>1, <2>2, <2>3 DEF Emitted
  <2> QED
    BY <2>1, <2>4 DEF Moves
<1>5. ASSUME NEW coded \in BOOLEAN,
             Complete(c, coded) \/ CompleteUnacknowledged(c, coded)
      PROVE  Moves(k)
  <2>1. /\ MarkCompleted(c, coded) /\ claims[k].state = "consumed" /\ UNCHANGED sends
        /\ calls[c].pc = "responded"
    BY <1>5 DEF Complete, CompleteUnacknowledged, CanComplete, ClaimOf, At
  <2>2. claims[k].nonce \in Users
    BY <1>0, <2>1 DEF RecSound, Users
  <2>3. Settles(k) /\ \A x \in Keys \ {k} : claims'[x] = claims[x]
    BY <1>0, <2>1, <2>2 DEF Settles, MarkCompleted, Claim
  <2> QED
    BY <2>1, <2>3 DEF Moves
<1>6. CASE SealZeroHandoff(c) \/ SealZeroUnacknowledged(c)
  <2>1. /\ MarkNotSubmitted(c) /\ claims[k].state = "consumed" /\ UNCHANGED sends
        /\ claims[k].nonce = NoCall
    BY <1>6 DEF SealZeroHandoff, SealZeroUnacknowledged, ProvenUnsent, ClaimOf
  <2>2. Settles(k) /\ \A x \in Keys \ {k} : claims'[x] = claims[x]
    BY <1>0, <2>1 DEF Settles, MarkNotSubmitted, Claim
  <2> QED
    BY <2>1, <2>2 DEF Moves
<1>7. CASE SealNeedsReview(c)
  <2>1. /\ claims' = [claims EXCEPT ![k].state = "needs_review"]
        /\ claims[k].state = "consumed" /\ UNCHANGED sends
    BY <1>7 DEF SealNeedsReview, ClaimOf
  <2>2. Settles(k) /\ \A x \in Keys \ {k} : claims'[x] = claims[x]
    BY <1>0, <2>1 DEF Settles, Claim
  <2> QED
    BY <2>1, <2>2 DEF Moves
<1>8. CASE EnterHandoff(c)
  BY <1>3, <1>8 DEF EnterHandoff
<1>9. ASSUME NEW committed \in BOOLEAN, NEW cancelled \in BOOLEAN,
             GateFails(c, committed, cancelled)
      PROVE  Moves(k)
  BY <1>1, <1>3, <1>9 DEF GateFails
<1>10. CASE QuietCallStep(c)
  <2>1. UNCHANGED <<claims, sends>>
    BY <1>10 DEF QuietCallStep, Begin, PermitExpires, Crash, ConsumeExisting,
       ConsumeRefused, GateRefuses, HandOver, CapabilityRefused, TransportReturns,
       CompleteRefused, SealZeroRefused, SealSkipped, ReplayUnfinished,
       ReplaySettled, RecordReuseRefused, ReleaseSkipped, RowsUnchanged
  <2> QED
    BY <1>1, <2>1
<1>11. ASSUME NEW b \in BOOLEAN, TransportFails(c, b) \/ DecideReuse(c, b)
       PROVE  Moves(k)
  BY <1>1, <1>11 DEF TransportFails, DecideReuse, RowsUnchanged
<1>12. CASE RecordReuse(c) \/ RecordReuseUnacknowledged(c) \/ ReleaseReservation(c)
  BY <1>1, <1>12 DEF RecordReuse, RecordReuseUnacknowledged, MarkReused,
     ReleaseReservation
<1> QED
  BY <1>2, <1>4, <1>5, <1>6, <1>7, <1>8, <1>9, <1>10, <1>11, <1>12
     DEF CallStep, Proceed, ConsumeStep, GateStep, TransportStep, RecordStep,
         ExistingStep, QuietCallStep

LEMMA StepMoves ==
    ASSUME EInv, [Next]_vars
    PROVE  UNCHANGED <<claims, sends>> \/ \E k \in Keys : Moves(k)
<1>1. ASSUME NEW c \in Calls, CallStep(c) PROVE \E k \in Keys : Moves(k)
  BY <1>1, CallMoves, EffectsAssumption
<1>2. CASE InvestigationStep
  BY <1>2 DEF InvestigationStep, Govern, SetStopped, ReviewTool, SettleTool,
     SaveBudget, RowsUnchanged
<1>3. CASE UNCHANGED vars
  BY <1>3 DEF vars
<1> QED
  BY <1>1, <1>2, <1>3 DEF Next

(* A claim sealed before its handoff stays as it is and is never emitted,  *)
(* whatever permit is still held for it.                                   *)
THEOREM SealsAreBarriers == Spec => SealedIsBarrier
<1> DEFINE Barrier ==
      \A k \in Keys : claims[k].state = "needs_review" /\ claims[k].nonce = NoCall
          => sends'[k] = sends[k] /\ claims'[k] = claims[k]
<1>1. EInv /\ [Next]_vars => [Barrier]_vars
  <2> SUFFICES ASSUME EInv, [Next]_vars, NEW k \in Keys,
                      claims[k].state = "needs_review", claims[k].nonce = NoCall
               PROVE  sends'[k] = sends[k] /\ claims'[k] = claims[k]
    OBVIOUS
  <2>1. CASE UNCHANGED <<claims, sends>>
    BY <2>1
  <2>2. ASSUME NEW m \in Keys, Moves(m) PROVE sends'[k] = sends[k] /\ claims'[k] = claims[k]
    BY <2>2 DEF Moves, Inserted, Entered, Settles, Emitted
  <2> QED
    BY <2>1, <2>2, StepMoves
<1> QED
  BY <1>1, EffectsInvariance, PTL DEF Spec, SealedIsBarrier

-----------------------------------------------------------------------------
(* The abstract stage of a key follows the promise.                        *)
LEMMA StageMoves ==
    ASSUME EInv, NEW k \in Keys, Moves(k)
    PROVE  /\ \A x \in Keys \ {k} : EffectStage(x)' = EffectStage(x)
           /\ \/ EffectStage(k)' = EffectStage(k)
              \/ <<EffectStage(k), EffectStage(k)'>> \in Promise!Follows
<1>0. /\ KeySound(k, claims[k], sends[k], Users) /\ claims[k] \in Claim
      /\ NoCall \notin Users
  BY EffectsAssumption DEF EInv, KeysSound, TypeOK, Users
<1>1. \A x \in Keys \ {k} : EffectStage(x)' = EffectStage(x)
  BY DEF Moves, EffectStage
<1>2. CASE claims'[k] = claims[k] /\ sends'[k] = sends[k]
  BY <1>1, <1>2 DEF EffectStage
<1>3. CASE Inserted(k) /\ sends'[k] = sends[k]
  <2>1. EffectStage(k) = "unknown" /\ EffectStage(k)' = "open"
    BY <1>0, <1>3 DEF EffectStage, Inserted, KeySound
  <2> QED
    BY <1>1, <2>1 DEF Promise!Follows
<1>4. CASE Entered(k) /\ sends'[k] = sends[k]
  <2>1. EffectStage(k)' = EffectStage(k)
    BY <1>4 DEF EffectStage, Entered
  <2> QED
    BY <1>1, <2>1
<1>5. CASE Settles(k) /\ sends'[k] = sends[k]
  <2>1. EffectStage(k) = IF claims[k].nonce \in Users THEN "emitted" ELSE "open"
    BY <1>0, <1>5 DEF EffectStage, Settles, KeySound
  <2>2. CASE claims'[k].state = "completed"
    <3>1. EffectStage(k)' = "confirmed" /\ claims[k].nonce \in Users
      BY <1>0, <1>5, <2>2 DEF EffectStage, Settles
    <3> QED
      BY <1>1, <2>1, <3>1 DEF Promise!Follows
  <2>3. CASE claims'[k].state = "definitively_not_submitted"
    <3>1. EffectStage(k)' = "withdrawn" /\ claims[k].nonce = NoCall
      BY <1>5, <2>3 DEF EffectStage, Settles
    <3> QED
      BY <1>0, <1>1, <2>1, <3>1 DEF Promise!Follows
  <2>4. CASE claims'[k].state = "needs_review" /\ claims[k].nonce = NoCall
    <3>1. EffectStage(k)' = "barred"
      BY <1>5, <2>4 DEF EffectStage, Settles
    <3> QED
      BY <1>0, <1>1, <2>1, <2>4, <3>1 DEF Promise!Follows
  <2>5. CASE claims'[k].state = "needs_review" /\ claims[k].nonce # NoCall
    <3>1. EffectStage(k)' = EffectStage(k)
      BY <1>5, <2>5 DEF EffectStage, Settles
    <3> QED
      BY <1>1, <3>1
  <2> QED
    BY <1>5, <2>2, <2>3, <2>4, <2>5 DEF Settles
<1>6. CASE Emitted(k)
  <2>1. EffectStage(k) = "open" /\ EffectStage(k)' = "emitted"
    BY <1>6 DEF EffectStage, Emitted
  <2> QED
    BY <1>1, <2>1 DEF Promise!Follows
<1> QED
  BY <1>2, <1>3, <1>4, <1>5, <1>6 DEF Moves

LEMMA StepRefines ==
    ASSUME EInv, [Next]_vars
    PROVE  [Promise!Next]_([k \in Keys |-> EffectStage(k)])
<1>1. CASE UNCHANGED <<claims, sends>>
  BY <1>1 DEF EffectStage
<1>2. ASSUME NEW k \in Keys, Moves(k)
      PROVE  [Promise!Next]_([x \in Keys |-> EffectStage(x)])
  <2>0. /\ \A x \in Keys \ {k} : EffectStage(x)' = EffectStage(x)
        /\ \/ EffectStage(k)' = EffectStage(k)
           \/ <<EffectStage(k), EffectStage(k)'>> \in Promise!Follows
    BY <1>2, StageMoves
  <2>1. CASE EffectStage(k)' = EffectStage(k)
    BY <2>0, <2>1
  <2>2. CASE <<EffectStage(k), EffectStage(k)'>> \in Promise!Follows
    <3>1. EffectStage(k)' \in Promise!Stage
      BY <2>2 DEF Promise!Follows, Promise!Stage
    <3>2. [x \in Keys |-> EffectStage(x)]' =
              [[x \in Keys |-> EffectStage(x)] EXCEPT ![k] = EffectStage(k)']
      BY <2>0
    <3>3. Promise!Advance(k, EffectStage(k)')
      BY <2>2, <3>2 DEF Promise!Advance
    <3> QED
      BY <3>1, <3>3 DEF Promise!Next
  <2> QED
    BY <2>0, <2>1, <2>2
<1> QED
  BY <1>1, <1>2, StepMoves

(* The coordinator implements the once-only effect.                        *)
THEOREM CoordinatorImplementsOnceOnly == Spec => ImplementsOnceOnly
<1>1. Init => Promise!Init
  BY DEF Init, Promise!Init, EffectStage, NoClaim
<1>2. EInv /\ [Next]_vars => [Promise!Next]_([k \in Keys |-> EffectStage(k)])
  BY StepRefines
<1> QED
  BY <1>1, <1>2, EffectsInvariance, PTL DEF Spec, ImplementsOnceOnly, Promise!Spec
=============================================================================
