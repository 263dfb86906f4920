---------------------------- MODULE BudgetProofs ----------------------------
(***************************************************************************)
(* Proofs about the budget of an investigation, for any turns and tools of *)
(* any kind and cost, any limits, and any number of decisions.             *)
(*                                                                         *)
(* A copy of the envelope that can still be saved is the envelope itself,  *)
(* since whoever changes it counts its version; older copies lag behind in *)
(* one direction only: a reservation never vanishes, and once settled it   *)
(* stays settled. So what a step does to the canonical budget is said by   *)
(* what it does to each reservation of the envelope it finds (BudgetStep   *)
(* and Moves below), and each property follows from that.                  *)
(*                                                                         *)
(* Bridge turns are only held to this where two checks are made that the   *)
(* code lacks (MirrorsCurrent, StopsUnsent): the rows that the coordinator *)
(* reads then repeat the envelope, and the attempt a turn belongs to is    *)
(* only superseded when nothing was sent for it (TurnsSound).              *)
(***************************************************************************)
EXTENDS InvestigationBudget, FiniteSetTheorems, SetLemmas, TLAPS

Settlement(r) == r.status \in {"committed", "released"}

(* Copies, of which only those about to be saved matter to the versions.   *)
CopySound(o) ==
    LET seen == ops[o].seen IN
    /\ ops[o].pc \in {"reserve", "save"} =>
         /\ seen.version <= envelope.version
         /\ seen.version = envelope.version => seen = envelope
    /\ \A p \in Ops :
         /\ envelope.res[p].status = "none" => seen.res[p].status = "none"
         /\ Settlement(seen.res[p]) => Settlement(envelope.res[p])

CopiesSound == \A o \in Ops : CopySound(o)

RowsSound == \A o \in Ops :
    envelope.res[o].status = "none" => rows[o].status = "none"

(* What was not settled was not used.                                      *)
UseSound == \A o \in Ops : ~Settlement(envelope.res[o]) => envelope.res[o].used = 0

(* A tool has no reservation before its admission; one that is admitted    *)
(* has the amount of its authority as long as the envelope is the one it   *)
(* admitted into, or none at all; what it sends was reserved and is not    *)
(* released by whoever knows that nothing was sent.                        *)
ToolSound(o) ==
    LET r == envelope.res[o]
        op == ops[o] IN
    /\ op.pc \in {"idle", "reserve"} =>
         r.status = "none" /\ op.amount = Cost[o] /\ inv[o] = "none"
    /\ op.pc \in {"idle", "reserve", "admitted"} => o \notin sent
    /\ op.pc = "admitted" =>
         /\ op.expected <= envelope.version
         /\ op.expected = envelope.version => r.status = "none" \/ r = Reserved(op.amount)
    /\ op.pc \in {"settle", "save"} =>
         /\ op.result \in {"refused", "failed", "reused"} => o \notin sent
         /\ op.result \in {"refused", "reused"} \/ r.status # "none"
    /\ o \in sent => r.status # "none"
    /\ o \in sent /\ o \notin waived => r.status \in {"reserved", "committed"}
    /\ op.pc = "sent" => o \in sent
    /\ inv[o] = "closed" => r.status # "reserved"

ToolsSound == \A o \in Tools : ToolSound(o)

(* The inductive invariant.                                                *)
BudInv == TypeOK /\ CopiesSound /\ RowsSound /\ UseSound /\ ToolsSound

-----------------------------------------------------------------------------
(* Types.                                                                  *)

LEMMA ResTypes ==
  /\ NoReservation \in BudgetReservation
  /\ \A amount \in Nat : Reserved(amount) \in BudgetReservation
  /\ \A r \in BudgetReservation :
       /\ Charge(r) \in Nat /\ r.amount \in Nat /\ r.used \in Nat
       /\ Released(r) \in BudgetReservation /\ ReleasedConfirmed(r) \in BudgetReservation
       /\ \A used \in Nat : Committed(r, used) \in BudgetReservation
<1>1. NoReservation \in BudgetReservation
  BY DEF NoReservation, BudgetReservation
<1>2. \A amount \in Nat : Reserved(amount) \in BudgetReservation
  BY DEF Reserved, BudgetReservation
<1>3. ASSUME NEW r \in BudgetReservation
      PROVE  /\ Charge(r) \in Nat /\ r.amount \in Nat /\ r.used \in Nat
             /\ Released(r) \in BudgetReservation
             /\ ReleasedConfirmed(r) \in BudgetReservation
             /\ \A used \in Nat : Committed(r, used) \in BudgetReservation
  BY DEF BudgetReservation, Charge, Released, ReleasedConfirmed, Committed
<1> QED
  BY <1>1, <1>2, <1>3

LEMMA EnvelopeTypes ==
  ASSUME NEW e \in Envelope
  PROVE  /\ e.version \in Nat /\ e.decision \in Nat /\ e.allowed \in BOOLEAN
         /\ e.limits \in [Dims -> Nat] /\ e.ceiling \in [Dims -> Nat]
         /\ e.res \in Reservations /\ \A o \in Ops : e.res[o] \in BudgetReservation
         /\ \A n \in Nat : [e EXCEPT !.version = n] \in Envelope
         /\ \A res \in Reservations : [e EXCEPT !.res = res] \in Envelope
         /\ \A n \in Nat : [e EXCEPT !.decision = n] \in Envelope
         /\ \A b \in BOOLEAN : [e EXCEPT !.allowed = b] \in Envelope
         /\ \A l \in [Dims -> Nat] : /\ [e EXCEPT !.limits = l] \in Envelope
                                     /\ [e EXCEPT !.ceiling = l] \in Envelope
<1>1. e.res \in Reservations /\ \A o \in Ops : e.res[o] \in BudgetReservation
  BY DEF Envelope, Reservations
<1> QED
  BY <1>1 DEF Envelope

LEMMA FirstTypes ==
  /\ FirstEnvelope \in Envelope
  /\ \A o \in Ops : FirstEnvelope.res[o] = NoReservation
<1>1. [o \in Ops |-> NoReservation] \in Reservations
  BY ResTypes DEF Reservations
<1>2. FirstEnvelope \in Envelope
  BY <1>1, BudgetAssumption DEF FirstEnvelope, Envelope
<1>3. \A o \in Ops : FirstEnvelope.res[o] = NoReservation
  BY DEF FirstEnvelope
<1> QED
  BY <1>2, <1>3

OpPc == {"idle", "reserve", "admitted", "sent", "settle", "save", "review",
         "done", "lost"}

LEMMA OpFields ==
  ASSUME NEW r \in Op
  PROVE  /\ r.pc \in OpPc /\ r.seen \in Envelope /\ r.expected \in Nat
         /\ r.approved \in Nat /\ r.amount \in Nat /\ r.tries \in 0..2
         /\ r.runs \in Nat /\ r.result \in Result
         /\ \A pc \in OpPc : [r EXCEPT !.pc = pc] \in Op
         /\ \A e \in Envelope : [r EXCEPT !.seen = e] \in Op
         /\ \A n \in Nat : /\ [r EXCEPT !.expected = n] \in Op
                           /\ [r EXCEPT !.approved = n] \in Op
                           /\ [r EXCEPT !.amount = n] \in Op
                           /\ [r EXCEPT !.runs = n] \in Op
         /\ \A n \in 0..2 : [r EXCEPT !.tries = n] \in Op
         /\ \A x \in Result : [r EXCEPT !.result = x] \in Op
<1>1. Op = [pc : OpPc, seen : Envelope, expected : Nat, approved : Nat, amount : Nat,
            tries : 0..2, runs : Nat, result : Result]
  BY DEF Op, OpPc
<1> QED
  BY <1>1

-----------------------------------------------------------------------------
(* What a step does to the canonical budget.                               *)

(* A reservation of operation o may become s.                              *)
Moves(o, r, s) ==
    /\ s \in BudgetReservation
    /\ r.status # "none" => s.status # "none"
    /\ Settlement(r) => Settlement(s)
    /\ r.status = "released" => s = r
    /\ r.status = "committed" /\ o \in sent => s = r
    /\ ~Settlement(s) => s.used = 0

(* Nothing is charged more, or one operation within the limit it meets.    *)
ChargeStep ==
    \/ \A o \in Ops : Charge(envelope'.res[o]) <= Charge(envelope.res[o])
    \/ \E o \in Ops :
         /\ Fits(envelope, o, Charge(envelope'.res[o]))
         /\ \A p \in Ops : p # o => envelope'.res[p] = envelope.res[p]
         /\ envelope'.limits = envelope.limits

EnvelopeSaved ==
    /\ envelope' \in Envelope
    /\ envelope'.version = envelope.version + 1
    /\ \A o \in Ops : Moves(o, envelope.res[o], envelope'.res[o])
    /\ ChargeStep

BudgetStep == envelope' = envelope \/ EnvelopeSaved

LEMMA MovesFacts ==
  ASSUME NEW o \in Ops, NEW r \in BudgetReservation, ~Settlement(r) => r.used = 0
  PROVE  /\ Moves(o, r, r) /\ Charge(r) <= Charge(r)
         /\ Moves(o, r, Released(r)) /\ Charge(Released(r)) <= Charge(r)
         /\ Released(r).status # "reserved"
         /\ r.status # "none" => Settlement(Released(r))
         /\ r.status = "reserved" => Released(r).status = "released"
         /\ \A used \in Nat : r.status = "reserved" /\ used <= r.amount =>
              /\ Moves(o, r, Committed(r, used)) /\ Charge(Committed(r, used)) <= Charge(r)
         /\ \A used \in Nat : /\ r.status # "reserved" => Committed(r, used) = r
                              /\ r.status = "reserved" =>
                                   Committed(r, used).status = "committed"
         /\ r.status = "reserved" \/ (r.status = "committed" /\ o \notin sent) =>
              /\ Moves(o, r, ReleasedConfirmed(r))
              /\ Charge(ReleasedConfirmed(r)) <= Charge(r)
         /\ ReleasedConfirmed(r).status \notin {"reserved", "committed"}
         /\ r.status # "none" => ReleasedConfirmed(r).status = "released"
         /\ \A amount \in Nat : ~Settlement(r) => Moves(o, r, Reserved(amount))
<1> USE ResTypes
<1>1. r.status \in {"none", "reserved", "committed", "released"} /\ r.amount \in Nat
      /\ r.used \in Nat
  BY DEF BudgetReservation
<1>2. Moves(o, r, r) /\ Charge(r) <= Charge(r)
  BY <1>1 DEF Moves
<1>3. /\ Moves(o, r, Released(r)) /\ Charge(Released(r)) <= Charge(r)
      /\ Released(r).status # "reserved"
      /\ r.status # "none" => Settlement(Released(r))
      /\ r.status = "reserved" => Released(r).status = "released"
  BY <1>1 DEF Moves, Released, Settlement, Charge, BudgetReservation
<1>4. ASSUME NEW used \in Nat
      PROVE  /\ r.status = "reserved" /\ used <= r.amount =>
                  /\ Moves(o, r, Committed(r, used))
                  /\ Charge(Committed(r, used)) <= Charge(r)
             /\ r.status # "reserved" => Committed(r, used) = r
             /\ r.status = "reserved" => Committed(r, used).status = "committed"
  BY <1>1 DEF Moves, Committed, Settlement, Charge, BudgetReservation
<1>5. \A amount \in Nat : ~Settlement(r) => Moves(o, r, Reserved(amount))
  BY <1>1 DEF Moves, Reserved, Settlement, BudgetReservation
<1>6. CASE r.status \in {"reserved", "committed"}
  <2>1. /\ ReleasedConfirmed(r) = [r EXCEPT !.status = "released", !.used = 0]
        /\ ReleasedConfirmed(r) \in BudgetReservation
    BY <1>6 DEF ReleasedConfirmed
  <2>2. ReleasedConfirmed(r).status = "released" /\ ReleasedConfirmed(r).used = 0
    BY <2>1 DEF BudgetReservation
  <2>3. Charge(ReleasedConfirmed(r)) <= Charge(r)
    BY <2>2, <1>1 DEF Charge
  <2>4. r.status = "reserved" \/ o \notin sent => Moves(o, r, ReleasedConfirmed(r))
    BY <2>1, <2>2, <1>6 DEF Moves, Settlement
  <2> QED
    BY <2>2, <2>3, <2>4, <1>2, <1>3, <1>4, <1>5
<1>7. CASE r.status \notin {"reserved", "committed"}
  <2>1. ReleasedConfirmed(r) = r
    BY <1>7 DEF ReleasedConfirmed
  <2> QED
    BY <2>1, <1>1, <1>7, <1>2, <1>3, <1>4, <1>5
<1> QED
  BY <1>6, <1>7

(* The canonical budget, typed.                                            *)
LEMMA BudgetTypes ==
  ASSUME BudInv
  PROVE  /\ envelope \in Envelope /\ envelope.version \in Nat
         /\ envelope.res \in Reservations
         /\ \A o \in Ops : /\ envelope.res[o] \in BudgetReservation
                           /\ ~Settlement(envelope.res[o]) => envelope.res[o].used = 0
                           /\ envelope.res[o].status \in
                                {"none", "reserved", "committed", "released"}
         /\ rows \in Reservations /\ ops \in [Ops -> Op]
         /\ \A o \in Ops : ops[o] \in Op /\ ops[o].seen \in Envelope
<1>1. /\ envelope \in Envelope /\ rows \in Reservations /\ ops \in [Ops -> Op]
      /\ UseSound
  BY DEF BudInv, TypeOK
<1>2. \A o \in Ops : ops[o] \in Op /\ ops[o].seen \in Envelope
  BY <1>1, OpFields
<1>3. /\ envelope.version \in Nat /\ envelope.res \in Reservations
      /\ \A o \in Ops : envelope.res[o] \in BudgetReservation
  BY <1>1, EnvelopeTypes
<1>4. \A o \in Ops : envelope.res[o].status \in
                       {"none", "reserved", "committed", "released"}
  BY <1>3 DEF BudgetReservation
<1> QED
  BY <1>1, <1>2, <1>3, <1>4 DEF UseSound

(* One reservation of the envelope changes, and the envelope is saved.     *)
SavedWith(o, s) ==
    envelope' = [[envelope EXCEPT !.res = [envelope.res EXCEPT ![o] = s]]
                   EXCEPT !.version = envelope.version + 1]

OthersKept(o) == \A p \in Ops : p # o => envelope'.res[p] = envelope.res[p]

LEMMA OneSaved ==
  ASSUME BudInv, NEW o \in Ops, NEW s, Moves(o, envelope.res[o], s), SavedWith(o, s),
         Charge(s) <= Charge(envelope.res[o]) \/ Fits(envelope, o, Charge(s))
  PROVE  /\ EnvelopeSaved /\ envelope'.res[o] = s /\ OthersKept(o)
         /\ envelope'.res = [envelope.res EXCEPT ![o] = s]
         /\ envelope'.res \in Reservations
<1>1. /\ envelope \in Envelope /\ envelope.version \in Nat
      /\ envelope.res \in [Ops -> BudgetReservation]
  BY BudgetTypes DEF Reservations
<1>2. s \in BudgetReservation
  BY DEF Moves
<1> DEFINE res == [envelope.res EXCEPT ![o] = s]
<1>3. /\ res \in Reservations /\ res[o] = s
      /\ \A p \in Ops : p # o => res[p] = envelope.res[p]
  BY <1>1, <1>2 DEF Reservations
<1>4. [envelope EXCEPT !.res = res] \in Envelope
  BY <1>1, <1>3, EnvelopeTypes
<1>5. envelope' = [[envelope EXCEPT !.res = res] EXCEPT !.version = envelope.version + 1]
  BY DEF SavedWith
<1> HIDE DEF res
<1>6. envelope' \in Envelope
  <2>1. envelope.version + 1 \in Nat
    BY <1>1
  <2>2. \A e \in Envelope, n \in Nat : [e EXCEPT !.version = n] \in Envelope
    BY EnvelopeTypes
  <2> QED
    BY <2>1, <2>2, <1>4, <1>5
<1>7. /\ envelope'.res = res /\ envelope'.version = envelope.version + 1
      /\ envelope'.limits = envelope.limits
  BY <1>1, <1>5 DEF Envelope
<1>8. \A p \in Ops : Moves(p, envelope.res[p], envelope'.res[p])
  BY <1>3, <1>7, BudgetTypes, MovesFacts
<1>9. ChargeStep
  <2>1. CASE Charge(s) <= Charge(envelope.res[o])
    <3>1. \A p \in Ops : Charge(envelope.res[p]) <= Charge(envelope.res[p])
      BY BudgetTypes, ResTypes
    <3> QED
      BY <2>1, <3>1, <1>3, <1>7 DEF ChargeStep
  <2>2. CASE Fits(envelope, o, Charge(s))
    BY <2>2, <1>3, <1>7 DEF ChargeStep
  <2> QED
    BY <2>1, <2>2
<1> QED
  BY <1>3, <1>6, <1>7, <1>8, <1>9 DEF EnvelopeSaved, OthersKept, res

(* The copy of an operation, before and after a step.                      *)
CopyStep(o) ==
    \/ /\ ops'[o].seen = ops[o].seen
       /\ ops'[o].pc = ops[o].pc \/ ops'[o].pc \notin {"reserve", "save"}
    \/ ops'[o].seen = envelope /\ envelope' = envelope
    \/ ops'[o].seen = FirstEnvelope /\ ops'[o].pc \notin {"reserve", "save"}

LEMMA CopyKept ==
  ASSUME BudInv, BudgetStep, NEW o \in Ops, CopyStep(o)
  PROVE  CopySound(o)'
<1>1. CopySound(o) /\ ops[o].seen \in Envelope /\ envelope.version \in Nat
  BY BudgetTypes DEF BudInv, CopiesSound
<1>2. \A p \in Ops : /\ envelope'.res[p].status = "none" => envelope.res[p].status = "none"
                     /\ Settlement(envelope.res[p]) => Settlement(envelope'.res[p])
  BY DEF BudgetStep, EnvelopeSaved, Moves
<1>3. CASE /\ ops'[o].seen = ops[o].seen
           /\ ops'[o].pc = ops[o].pc \/ ops'[o].pc \notin {"reserve", "save"}
  <2>1. \A p \in Ops :
         /\ envelope'.res[p].status = "none" => ops'[o].seen.res[p].status = "none"
         /\ Settlement(ops'[o].seen.res[p]) => Settlement(envelope'.res[p])
    BY <1>1, <1>2, <1>3 DEF CopySound
  <2>2. ops'[o].pc \in {"reserve", "save"} =>
         /\ ops'[o].seen.version <= envelope'.version
         /\ ops'[o].seen.version = envelope'.version => ops'[o].seen = envelope'
    <3>1. SUFFICES ASSUME ops'[o].pc \in {"reserve", "save"}
                   PROVE  /\ ops'[o].seen.version <= envelope'.version
                          /\ ops'[o].seen.version = envelope'.version =>
                               ops'[o].seen = envelope'
      OBVIOUS
    <3>2. /\ ops[o].seen.version <= envelope.version
          /\ ops[o].seen.version = envelope.version => ops[o].seen = envelope
          /\ ops[o].seen.version \in Nat
      BY <3>1, <1>1, <1>3, EnvelopeTypes DEF CopySound
    <3>3. CASE envelope' = envelope
      BY <3>2, <3>3, <1>3
    <3>4. CASE envelope'.version = envelope.version + 1
      BY <3>2, <3>4, <1>1, <1>3
    <3> QED
      BY <3>3, <3>4 DEF BudgetStep, EnvelopeSaved
  <2> QED
    BY <2>1, <2>2 DEF CopySound
<1>4. CASE ops'[o].seen = envelope /\ envelope' = envelope
  BY <1>1, <1>4 DEF CopySound
<1>5. CASE ops'[o].seen = FirstEnvelope /\ ops'[o].pc \notin {"reserve", "save"}
  <2>1. \A p \in Ops : FirstEnvelope.res[p].status = "none"
    BY FirstTypes DEF NoReservation
  <2> QED
    BY <2>1, <1>5 DEF CopySound, Settlement
<1> QED
  BY <1>3, <1>4, <1>5 DEF CopyStep

RowsStep == \A o \in Ops : envelope'.res[o].status = "none" => rows'[o].status = "none"

LEMMA Frame ==
  ASSUME BudInv, BudgetStep, TypeOK', RowsStep, \A o \in Ops : CopyStep(o), ToolsSound'
  PROVE  BudInv'
<1>1. CopiesSound'
  BY CopyKept DEF CopiesSound
<1>2. RowsSound'
  BY DEF RowsStep, RowsSound
<1>3. UseSound'
  BY DEF BudInv, UseSound, BudgetStep, EnvelopeSaved, Moves
<1> QED
  BY <1>1, <1>2, <1>3 DEF BudInv

(* A tool of which nothing changes but perhaps its copy.                   *)
ToolUnmoved(o) ==
    /\ ops'[o].pc = ops[o].pc /\ ops'[o].result = ops[o].result
    /\ ops'[o].expected = ops[o].expected /\ ops'[o].amount = ops[o].amount
    /\ envelope'.res[o] = envelope.res[o] /\ inv'[o] = inv[o]
    /\ (o \in sent') = (o \in sent) /\ (o \in waived') = (o \in waived)

LEMMA ToolKept ==
  ASSUME BudInv, BudgetStep, NEW o \in Tools, ToolUnmoved(o)
  PROVE  ToolSound(o)'
<1>1. ToolSound(o) /\ o \in Ops
  BY DEF BudInv, ToolsSound, Ops
<1>2. envelope.version \in Nat /\ ops[o].expected \in Nat
  BY <1>1, BudgetTypes, OpFields
<1>3. envelope' = envelope \/ envelope'.version = envelope.version + 1
  BY DEF BudgetStep, EnvelopeSaved
<1>4. ops[o].pc = "admitted" =>
         /\ ops[o].expected <= envelope'.version
         /\ ops[o].expected = envelope'.version =>
              envelope.res[o].status = "none" \/ envelope.res[o] = Reserved(ops[o].amount)
  BY <1>1, <1>2, <1>3 DEF ToolSound
<1> QED
  BY <1>1, <1>4 DEF ToolSound, ToolUnmoved

InvStatus == {"none", "running", "needs_review", "closed"}

(* An analyst declares at most the operation not executed.                 *)
WaivedStep(o) == waived' = waived \/ (o \in Tools /\ waived' = waived \union {o})

(* One operation moves, alone.                                             *)
LEMMA OpMoves ==
  ASSUME BudInv, BudgetStep, NEW o \in Ops, NEW new \in Op, ops' = [ops EXCEPT ![o] = new],
         OthersKept(o), rows' \in Reservations, RowsStep,
         inv' \in [Tools -> InvStatus], \A p \in Tools : p # o => inv'[p] = inv[p],
         attempt' \in Nat, sent' = sent \/ sent' = sent \union {o}, WaivedStep(o),
         CopyStep(o), o \in Tools => ToolSound(o)'
  PROVE  BudInv'
<1>1. ops \in [Ops -> Op] /\ sent \subseteq Ops /\ waived \subseteq Tools
      /\ envelope \in Envelope
  BY DEF BudInv, TypeOK
<1>2. ops' \in [Ops -> Op] /\ \A p \in Ops : p # o => ops'[p] = ops[p]
  BY <1>1
<1>3. envelope' \in Envelope
  BY <1>1 DEF BudgetStep, EnvelopeSaved
<1>4. sent' \subseteq Ops /\ waived' \subseteq Tools
  BY <1>1 DEF WaivedStep
<1>5. TypeOK'
  BY <1>2, <1>3, <1>4 DEF TypeOK, InvStatus
<1>6. \A p \in Ops : CopyStep(p)
  BY <1>2 DEF CopyStep
<1>7. ASSUME NEW p \in Tools, p # o PROVE ToolSound(p)'
  <2>1. p \in Ops
    BY DEF Ops
  <2>2. ToolUnmoved(p)
    BY <2>1, <1>2, <1>7 DEF ToolUnmoved, OthersKept, WaivedStep
  <2> QED
    BY <2>2, ToolKept
<1>8. ToolsSound'
  BY <1>7 DEF ToolsSound
<1> QED
  BY <1>5, <1>6, <1>8, Frame

LEMMA Unchanging ==
  ASSUME BudInv, envelope' = envelope
  PROVE  /\ BudgetStep /\ \A o \in Ops : OthersKept(o)
         /\ rows' = rows => rows' \in Reservations /\ RowsStep
         /\ inv' = inv => inv' \in [Tools -> InvStatus]
         /\ attempt' = attempt => attempt' \in Nat
BY DEF BudInv, TypeOK, BudgetStep, OthersKept, RowsStep, RowsSound, InvStatus

LEMMA OpOnly ==
  ASSUME BudInv, BudgetUnchanged, UNCHANGED <<inv, attempt>>, HistoryUnchanged,
         NEW o \in Ops, NEW new \in Op, ops' = [ops EXCEPT ![o] = new],
         CopyStep(o), o \in Tools => ToolSound(o)'
  PROVE  BudInv' /\ BudgetStep
<1>1. /\ envelope' = envelope /\ rows' = rows /\ inv' = inv /\ attempt' = attempt
      /\ sent' = sent /\ waived' = waived
  BY DEF BudgetUnchanged, HistoryUnchanged
<1> QED
  BY <1>1, Unchanging, OpMoves DEF WaivedStep

(* The coroutine of o after Moved and its variants.                        *)
MovedOp(o, pc) ==
    [ops[o] EXCEPT !.pc = pc, !.seen = FirstEnvelope, !.tries = 0]

LEMMA MovedTypes ==
  ASSUME BudInv, NEW o \in Ops, NEW pc \in OpPc
  PROVE  /\ MovedOp(o, pc) \in Op /\ Moved(o, pc) = [ops EXCEPT ![o] = MovedOp(o, pc)]
         /\ MovedOp(o, pc).pc = pc /\ MovedOp(o, pc).seen = FirstEnvelope
         /\ MovedOp(o, pc).expected = ops[o].expected
         /\ MovedOp(o, pc).amount = ops[o].amount
         /\ MovedOp(o, pc).result = ops[o].result
<1>1. ops \in [Ops -> Op] /\ ops[o] \in Op
  BY BudgetTypes
<1>2. Moved(o, pc) = [ops EXCEPT ![o] = MovedOp(o, pc)]
  BY <1>1 DEF Moved, MovedOp
<1>3. MovedOp(o, pc) \in Op
  <2>1. [ops[o] EXCEPT !.pc = pc] \in Op
    BY <1>1, OpFields
  <2>2. [[ops[o] EXCEPT !.pc = pc] EXCEPT !.seen = FirstEnvelope] \in Op
    BY <2>1, FirstTypes, OpFields
  <2>3. [[[ops[o] EXCEPT !.pc = pc] EXCEPT !.seen = FirstEnvelope] EXCEPT !.tries = 0]
          \in Op
    <3>1. 0 \in 0..2
      OBVIOUS
    <3>2. \A r \in Op, n \in 0..2 : [r EXCEPT !.tries = n] \in Op
      BY OpFields
    <3> QED
      BY <2>2, <3>1, <3>2
  <2> QED
    BY <2>3, Zenon DEF MovedOp
<1>4. /\ MovedOp(o, pc).pc = pc /\ MovedOp(o, pc).seen = FirstEnvelope
      /\ MovedOp(o, pc).expected = ops[o].expected
      /\ MovedOp(o, pc).amount = ops[o].amount
      /\ MovedOp(o, pc).result = ops[o].result
  BY <1>1 DEF MovedOp, Op
<1> QED
  BY <1>2, <1>3, <1>4

(* ... with a result.                                                      *)
LEMMA MovedResult ==
  ASSUME BudInv, NEW o \in Ops, NEW pc \in OpPc \ {"reserve", "save"}, NEW x \in Result,
         ops' = [Moved(o, pc) EXCEPT ![o].result = x]
  PROVE  \E new \in Op :
           /\ ops' = [ops EXCEPT ![o] = new] /\ CopyStep(o)
           /\ ops'[o].pc = pc /\ ops'[o].result = x
           /\ ops'[o].expected = ops[o].expected /\ ops'[o].amount = ops[o].amount
<1> DEFINE new == [MovedOp(o, pc) EXCEPT !.result = x]
<1>1. ops \in [Ops -> Op]
  BY BudgetTypes
<1>2. ops' = [ops EXCEPT ![o] = new]
  <2>1. Moved(o, pc) = [ops EXCEPT ![o] = MovedOp(o, pc)]
    BY MovedTypes
  <2> QED
    BY <1>1, <2>1
<1>3. new \in Op
  BY MovedTypes, OpFields
<1>4. /\ new.pc = pc /\ new.seen = FirstEnvelope /\ new.result = x
      /\ new.expected = ops[o].expected /\ new.amount = ops[o].amount
  BY MovedTypes DEF Op
<1> HIDE DEF new
<1>5. ops'[o] = new
  BY <1>1, <1>2
<1> QED
  BY <1>2, <1>3, <1>4, <1>5 DEF CopyStep

LEMMA MovedPlain ==
  ASSUME BudInv, NEW o \in Ops, NEW pc \in OpPc \ {"reserve", "save"}, Goto(o, pc)
  PROVE  \E new \in Op :
           /\ ops' = [ops EXCEPT ![o] = new] /\ CopyStep(o)
           /\ ops'[o].pc = pc /\ ops'[o].result = ops[o].result
           /\ ops'[o].expected = ops[o].expected /\ ops'[o].amount = ops[o].amount
<1>1. ops' = [ops EXCEPT ![o] = MovedOp(o, pc)] /\ ops \in [Ops -> Op]
  BY MovedTypes, BudgetTypes DEF Goto
<1>2. ops'[o] = MovedOp(o, pc)
  BY <1>1
<1>3. CopyStep(o)
  BY <1>2, MovedTypes DEF CopyStep
<1> QED
  BY <1>1, <1>2, <1>3, MovedTypes

(* The coroutine reads the envelope again.                                 *)
LEMMA Rereads ==
  ASSUME BudInv, NEW o \in Ops, Reread(o), envelope' = envelope
  PROVE  \E new \in Op :
           /\ ops' = [ops EXCEPT ![o] = new] /\ CopyStep(o)
           /\ ops'[o].pc = ops[o].pc /\ ops'[o].result = ops[o].result
           /\ ops'[o].expected = ops[o].expected /\ ops'[o].amount = ops[o].amount
<1> DEFINE n == ops[o].tries + 1
           new == [[ops[o] EXCEPT !.seen = envelope] EXCEPT !.tries = n]
<1>1. ops \in [Ops -> Op] /\ ops[o] \in Op /\ envelope \in Envelope
  BY BudgetTypes
<1>2. n \in 0..2
  <2>1. ops[o].tries \in 0..2 /\ ops[o].tries < 2
    BY <1>1, OpFields DEF Reread
  <2> QED
    BY <2>1
<1>3. ops' = [ops EXCEPT ![o] = new]
  BY <1>1 DEF Reread
<1> HIDE DEF n
<1>4. new \in Op
  <2>1. [ops[o] EXCEPT !.seen = envelope] \in Op
    BY <1>1, OpFields
  <2> QED
    BY <2>1, <1>2, OpFields
<1>5. /\ new.pc = ops[o].pc /\ new.seen = envelope /\ new.result = ops[o].result
      /\ new.expected = ops[o].expected /\ new.amount = ops[o].amount
  BY <1>1 DEF Op
<1> HIDE DEF new
<1>6. ops'[o] = new
  BY <1>1, <1>3
<1> QED
  BY <1>3, <1>4, <1>5, <1>6 DEF CopyStep

LEMMA ToolFacts ==
  ASSUME BudInv, NEW o \in Tools
  PROVE  /\ ToolSound(o) /\ o \in Ops /\ inv \in [Tools -> InvStatus] /\ attempt \in Nat
         /\ o \notin Turns /\ inv[o] \in InvStatus
<1>1. ToolSound(o) /\ o \in Ops /\ inv \in [Tools -> InvStatus] /\ attempt \in Nat
  BY DEF BudInv, TypeOK, ToolsSound, Ops, InvStatus
<1>2. o \notin Turns
  BY BudgetAssumption
<1> QED
  BY <1>1, <1>2

LEMMA TurnFacts ==
  ASSUME BudInv, NEW o \in Turns
  PROVE  o \in Ops /\ o \notin Tools /\ attempt \in Nat /\ inv \in [Tools -> InvStatus]
<1>1. o \in Ops /\ attempt \in Nat /\ inv \in [Tools -> InvStatus]
  BY DEF BudInv, TypeOK, Ops, InvStatus
<1>2. o \notin Tools
  BY BudgetAssumption
<1> QED
  BY <1>1, <1>2

(* A tool whose coroutine is over, or lost, or whose invocation alone      *)
(* moves, under the same budget.                                           *)
ToolRests(o) ==
    /\ ops'[o].pc \in {"review", "done", "lost"}
    /\ envelope'.res[o] = envelope.res[o]
    /\ sent' = sent /\ waived' = waived
    /\ inv'[o] = "closed" => envelope.res[o].status # "reserved"

LEMMA ToolAtRest ==
  ASSUME BudInv, NEW o \in Tools, ToolRests(o)
  PROVE  ToolSound(o)'
BY ToolFacts DEF ToolRests, ToolSound

(* Steps of a coroutine under the same budget.                             *)
LEMMA RestStep ==
  ASSUME BudInv, BudgetUnchanged, HistoryUnchanged, attempt' \in Nat, NEW o \in Ops,
         NEW pc \in {"review", "done", "lost"}, Goto(o, pc), inv' \in [Tools -> InvStatus],
         \A p \in Tools : p # o => inv'[p] = inv[p],
         o \in Tools => (inv'[o] = "closed" => envelope.res[o].status # "reserved")
  PROVE  BudInv' /\ BudgetStep
<1>1. /\ envelope' = envelope /\ rows' = rows /\ sent' = sent /\ waived' = waived
  BY DEF BudgetUnchanged, HistoryUnchanged
<1>2. pc \in OpPc \ {"reserve", "save"}
  BY DEF OpPc
<1>3. PICK new \in Op :
        /\ ops' = [ops EXCEPT ![o] = new] /\ CopyStep(o) /\ ops'[o].pc = pc
  BY <1>2, MovedPlain
<1>4. o \in Tools => ToolSound(o)'
  BY <1>1, <1>3, ToolAtRest DEF ToolRests
<1>5. BudgetStep /\ OthersKept(o) /\ rows' \in Reservations /\ RowsStep
  BY <1>1, Unchanging
<1> QED
  BY <1>1, <1>3, <1>4, <1>5, OpMoves DEF WaivedStep

LEMMA ReadStep ==
  ASSUME BudInv, NEW o \in Ops, Read(o)
  PROVE  BudInv' /\ BudgetStep
<1> DEFINE n == ops[o].runs + 1
           new == [[[ops[o] EXCEPT !.pc = "reserve"] EXCEPT !.seen = envelope]
                     EXCEPT !.runs = n]
<1>1. ops \in [Ops -> Op] /\ ops[o] \in Op /\ envelope \in Envelope
  BY BudgetTypes
<1>2. ops' = [ops EXCEPT ![o] = new]
  BY <1>1 DEF Read
<1>3. n \in Nat
  <2>1. ops[o].runs \in Nat
    BY <1>1, OpFields
  <2> QED
    BY <2>1
<1> HIDE DEF n
<1>4. new \in Op
  <2>1. [ops[o] EXCEPT !.pc = "reserve"] \in Op
    BY <1>1, OpFields DEF OpPc
  <2>2. [[ops[o] EXCEPT !.pc = "reserve"] EXCEPT !.seen = envelope] \in Op
    BY <2>1, <1>1, OpFields
  <2> QED
    BY <2>2, <1>3, OpFields
<1>5. /\ new.pc = "reserve" /\ new.seen = envelope /\ new.amount = ops[o].amount
  BY <1>1 DEF Op
<1> HIDE DEF new
<1>6. ops'[o] = new
  BY <1>1, <1>2
<1>7. BudgetUnchanged /\ HistoryUnchanged /\ UNCHANGED <<inv, attempt>> /\ At(o, "idle")
  BY DEF Read
<1>8. CopyStep(o)
  BY <1>5, <1>6, <1>7 DEF CopyStep, BudgetUnchanged
<1>9. o \in Tools => ToolSound(o)'
  BY <1>5, <1>6, <1>7, ToolFacts DEF ToolSound, At, BudgetUnchanged, HistoryUnchanged
<1> QED
  BY <1>2, <1>4, <1>7, <1>8, <1>9, OpOnly

(* A reread changes nothing of the tool but its copy.                      *)
LEMMA RereadStep ==
  ASSUME BudInv, NEW o \in Ops, Reread(o), BudgetUnchanged, HistoryUnchanged,
         UNCHANGED <<inv, attempt>>
  PROVE  BudInv' /\ BudgetStep
<1>1. /\ envelope' = envelope /\ sent' = sent /\ waived' = waived /\ inv' = inv
  BY DEF BudgetUnchanged, HistoryUnchanged
<1>2. PICK new \in Op :
        /\ ops' = [ops EXCEPT ![o] = new] /\ CopyStep(o)
        /\ ops'[o].pc = ops[o].pc /\ ops'[o].result = ops[o].result
        /\ ops'[o].expected = ops[o].expected /\ ops'[o].amount = ops[o].amount
  BY <1>1, Rereads
<1>3. o \in Tools => ToolSound(o)'
  BY <1>1, <1>2, ToolKept, Unchanging DEF ToolUnmoved
<1> QED
  BY <1>2, <1>3, OpOnly

LEMMA AdmitConflictStep ==
  ASSUME BudInv, NEW o \in Tools, AdmitConflict(o)
  PROVE  BudInv' /\ BudgetStep
<1>1. /\ BudgetUnchanged /\ HistoryUnchanged /\ attempt' = attempt
      /\ At(o, "reserve") /\ o \in Ops
  BY ToolFacts DEF AdmitConflict
<1>2. CASE Reread(o) /\ UNCHANGED inv
  BY <1>1, <1>2, RereadStep
<1>3. CASE inv' = [inv EXCEPT ![o] = "closed"] /\ Goto(o, "done")
  <2>1. /\ inv' \in [Tools -> InvStatus] /\ \A p \in Tools : p # o => inv'[p] = inv[p]
        /\ attempt' \in Nat
    BY <1>1, <1>3, ToolFacts DEF InvStatus
  <2>2. envelope.res[o].status # "reserved"
    BY <1>1, ToolFacts DEF ToolSound, At
  <2> QED
    BY <1>1, <1>3, <2>1, <2>2, RestStep
<1> QED
  BY <1>2, <1>3 DEF AdmitConflict

(* A coroutine that moves on with a result.                                *)
LEMMA ResultStep ==
  ASSUME BudInv, BudgetUnchanged, HistoryUnchanged, UNCHANGED <<inv, attempt>>,
         NEW o \in Ops, NEW pc \in {"settle", "idle"}, NEW x \in Result,
         ops' = [Moved(o, pc) EXCEPT ![o].result = x],
         o \in Tools =>
           /\ pc = "settle"
           /\ x \in {"refused", "failed", "reused"} => o \notin sent
           /\ x \in {"refused", "reused"} \/ envelope.res[o].status # "none"
  PROVE  BudInv' /\ BudgetStep
<1>1. pc \in OpPc \ {"reserve", "save"}
  BY DEF OpPc
<1>2. PICK new \in Op :
        /\ ops' = [ops EXCEPT ![o] = new] /\ CopyStep(o)
        /\ ops'[o].pc = pc /\ ops'[o].result = x
        /\ ops'[o].expected = ops[o].expected /\ ops'[o].amount = ops[o].amount
  BY <1>1, MovedResult
<1>3. o \in Tools => ToolSound(o)'
  BY <1>2, ToolFacts DEF ToolSound, BudgetUnchanged, HistoryUnchanged
<1> QED
  BY <1>2, <1>3, OpOnly

LEMMA ToolEndsStep ==
  ASSUME BudInv, NEW o \in Tools, NEW result \in {"success", "failed", "refused", "uncertain"},
         ToolEnds(o, result)
  PROVE  BudInv' /\ BudgetStep
<1>1. o \in Ops /\ ToolSound(o) /\ result \in Result
  BY ToolFacts DEF Result
<1>2. /\ result \in {"refused", "failed", "reused"} => o \notin sent
      /\ result \in {"refused", "reused"} \/ envelope.res[o].status # "none"
  BY <1>1 DEF ToolEnds, ToolSound, At
<1>3. /\ ops' = [Moved(o, "settle") EXCEPT ![o].result = result]
      /\ BudgetUnchanged /\ HistoryUnchanged /\ UNCHANGED <<inv, attempt>>
  BY DEF ToolEnds
<1> QED
  BY <1>1, <1>2, <1>3, ResultStep

LEMMA TurnEndsStep ==
  ASSUME BudInv, NEW o \in Turns,
         NEW result \in {"submitted", "blocked", "exhausted", "unresolved"},
         TurnEnds(o, result)
  PROVE  BudInv' /\ BudgetStep
<1>1. o \in Ops /\ o \notin Tools /\ result \in Result
  BY TurnFacts DEF Result
<1>2. /\ ops' = [Moved(o, "settle") EXCEPT ![o].result = result]
      /\ BudgetUnchanged /\ HistoryUnchanged /\ UNCHANGED <<inv, attempt>>
  BY DEF TurnEnds
<1> QED
  BY <1>1, <1>2, ResultStep

LEMMA RerunStep ==
  ASSUME BudInv, NEW o \in Turns, Rerun(o)
  PROVE  BudInv' /\ BudgetStep
<1>1. o \in Ops /\ o \notin Tools /\ "none" \in Result
  BY TurnFacts DEF Result
<1>2. /\ ops' = [Moved(o, "idle") EXCEPT ![o].result = "none"]
      /\ BudgetUnchanged /\ HistoryUnchanged /\ UNCHANGED <<inv, attempt>>
  BY DEF Rerun
<1> QED
  BY <1>1, <1>2, ResultStep

(* A worker that is lost, where the invocation is not closed by it.        *)
LEMMA LostStep ==
  ASSUME BudInv, NEW o \in Ops, NEW pc \in {"review", "done", "lost"}, Goto(o, pc),
         BudgetUnchanged, HistoryUnchanged, UNCHANGED inv, attempt' \in Nat
  PROVE  BudInv' /\ BudgetStep
<1>1. inv' \in [Tools -> InvStatus] /\ \A p \in Tools : p # o => inv'[p] = inv[p]
  BY DEF BudInv, TypeOK, InvStatus
<1>2. o \in Tools => (inv'[o] = "closed" => envelope.res[o].status # "reserved")
  BY ToolFacts DEF ToolSound
<1> QED
  BY <1>1, <1>2, RestStep

LEMMA CrashStep ==
  ASSUME BudInv, NEW o \in Ops, Crash(o)
  PROVE  BudInv' /\ BudgetStep
BY LostStep DEF Crash, BudInv, TypeOK

LEMMA SettleReadStep ==
  ASSUME BudInv, NEW o \in Ops, SettleRead(o)
  PROVE  BudInv' /\ BudgetStep
<1>1. /\ BudgetUnchanged /\ HistoryUnchanged /\ UNCHANGED <<inv, attempt>>
      /\ At(o, "settle")
  BY DEF SettleRead
<1>2. CASE Goto(o, "lost")
  BY <1>1, <1>2, LostStep DEF BudInv, TypeOK
<1>3. CASE ops' = [ops EXCEPT ![o].pc = "save", ![o].seen = envelope]
  <2> DEFINE new == [[ops[o] EXCEPT !.pc = "save"] EXCEPT !.seen = envelope]
  <2>1. ops \in [Ops -> Op] /\ ops[o] \in Op /\ envelope \in Envelope
    BY BudgetTypes
  <2>2. ops' = [ops EXCEPT ![o] = new]
    BY <2>1, <1>3
  <2>3. new \in Op
    <3>1. [ops[o] EXCEPT !.pc = "save"] \in Op
      BY <2>1, OpFields DEF OpPc
    <3> QED
      BY <3>1, <2>1, OpFields
  <2>4. new.pc = "save" /\ new.seen = envelope /\ new.result = ops[o].result
    BY <2>1 DEF Op
  <2> HIDE DEF new
  <2>5. ops'[o] = new
    BY <2>1, <2>2
  <2>6. CopyStep(o)
    BY <2>4, <2>5, <1>1 DEF CopyStep, BudgetUnchanged
  <2>7. o \in Tools => ToolSound(o)'
    BY <2>4, <2>5, <1>1, ToolFacts DEF ToolSound, At, BudgetUnchanged, HistoryUnchanged
  <2> QED
    BY <1>1, <2>2, <2>3, <2>6, <2>7, OpOnly
<1> QED
  BY <1>2, <1>3 DEF SettleRead

LEMMA SettleConflictStep ==
  ASSUME BudInv, NEW o \in Ops, SettleConflict(o)
  PROVE  BudInv' /\ BudgetStep
<1>1. /\ BudgetUnchanged /\ HistoryUnchanged /\ UNCHANGED <<inv, attempt>>
      /\ attempt' \in Nat
  BY DEF SettleConflict, BudInv, TypeOK
<1>2. Reread(o) \/ Goto(o, "lost")
  BY DEF SettleConflict
<1> QED
  BY <1>1, <1>2, RereadStep, LostStep

LEMMA TurnKeptStep ==
  ASSUME BudInv, NEW o \in Turns, TurnKept(o)
  PROVE  BudInv' /\ BudgetStep
<1>1. attempt' \in Nat /\ o \in Ops
  BY TurnFacts DEF TurnKept, AfterTurn
<1> QED
  BY <1>1, LostStep DEF TurnKept, AfterTurn

-----------------------------------------------------------------------------
(* Steps that save the envelope with one reservation changed.              *)

LEMMA SavesOne ==
  ASSUME BudInv, NEW o \in Ops, NEW s \in BudgetReservation,
         SaveEnvelopeOnly([envelope EXCEPT !.res = [envelope.res EXCEPT ![o] = s]])
  PROVE  SavedWith(o, s)
<1> DEFINE e == [envelope EXCEPT !.res = [envelope.res EXCEPT ![o] = s]]
<1>1. envelope' = [e EXCEPT !.version = e.version + 1]
  BY DEF SaveEnvelopeOnly
<1>2. e.version = envelope.version
  BY BudgetTypes DEF Envelope
<1> QED
  BY <1>1, <1>2 DEF SavedWith

(* What a saved reservation must meet.                                     *)
Saveable(o, s) ==
    /\ Moves(o, envelope.res[o], s)
    /\ Charge(s) <= Charge(envelope.res[o]) \/ Fits(envelope, o, Charge(s))

(* The rows become a copy of the saved budget, or release the operation.   *)
RowsFollow(o, s) ==
    \/ rows' = [envelope.res EXCEPT ![o] = s]
    \/ rows' = [rows EXCEPT ![o] = Released(rows[o])]
    \/ rows' = rows

LEMMA RowsFollowed ==
  ASSUME BudInv, NEW o \in Ops, NEW s, RowsFollow(o, s),
         envelope'.res = [envelope.res EXCEPT ![o] = s],
         envelope'.res \in Reservations,
         envelope.res[o].status # "none" => s.status # "none"
  PROVE  rows' \in Reservations /\ RowsStep
<1>1. /\ rows \in [Ops -> BudgetReservation] /\ envelope.res \in [Ops -> BudgetReservation]
      /\ RowsSound
  BY BudgetTypes DEF Reservations, BudInv
<1>2. /\ \A p \in Ops : envelope'.res[p].status = "none" => envelope.res[p].status = "none"
  BY <1>1
<1>3. CASE rows' = [envelope.res EXCEPT ![o] = s]
  BY <1>3 DEF RowsStep
<1>4. CASE rows' = [rows EXCEPT ![o] = Released(rows[o])]
  <2>1. Released(rows[o]) \in BudgetReservation
    BY <1>1, ResTypes
  <2>2. rows[o].status = "none" => Released(rows[o]).status = "none"
    BY DEF Released
  <2> QED
    BY <1>1, <1>2, <1>4, <2>1, <2>2 DEF RowsStep, RowsSound, Reservations
<1>5. CASE rows' = rows
  BY <1>1, <1>2, <1>5 DEF RowsStep, RowsSound, Reservations
<1> QED
  BY <1>3, <1>4, <1>5 DEF RowsFollow

LEMMA SaveStep ==
  ASSUME BudInv, NEW o \in Ops, NEW s, Saveable(o, s),
         SaveEnvelopeOnly([envelope EXCEPT !.res = [envelope.res EXCEPT ![o] = s]]),
         RowsFollow(o, s), NEW new \in Op, ops' = [ops EXCEPT ![o] = new], CopyStep(o),
         inv' \in [Tools -> InvStatus], \A p \in Tools : p # o => inv'[p] = inv[p],
         attempt' \in Nat, sent' = sent, WaivedStep(o),
         o \in Tools =>
           (BudgetStep /\ envelope'.res[o] = s /\ envelope'.version = envelope.version + 1
              => ToolSound(o)')
  PROVE  BudInv' /\ BudgetStep
<1>1. s \in BudgetReservation /\ Moves(o, envelope.res[o], s)
  BY DEF Saveable, Moves
<1>2. SavedWith(o, s)
  BY <1>1, SavesOne
<1>3. /\ EnvelopeSaved /\ envelope'.res[o] = s /\ OthersKept(o)
      /\ envelope'.res = [envelope.res EXCEPT ![o] = s]
      /\ envelope'.res \in Reservations
  BY <1>1, <1>2, OneSaved DEF Saveable
<1>4. BudgetStep /\ envelope'.version = envelope.version + 1
  BY <1>3 DEF BudgetStep, EnvelopeSaved
<1>5. rows' \in Reservations /\ RowsStep
  BY <1>1, <1>3, RowsFollowed DEF Moves
<1>6. BudInv'
  BY <1>3, <1>4, <1>5, OpMoves
<1> QED
  BY <1>4, <1>6

(* ... of a coroutine that is then over.                                   *)
SaveEnvelopeOf(o, s) == SaveEnvelope(envelope, [envelope.res EXCEPT ![o] = s])

LEMMA SaveRests ==
  ASSUME BudInv, NEW o \in Ops, NEW s, Saveable(o, s), SaveEnvelopeOf(o, s),
         NEW pc \in {"review", "done", "lost"}, Goto(o, pc),
         inv' \in [Tools -> InvStatus], \A p \in Tools : p # o => inv'[p] = inv[p],
         attempt' \in Nat, HistoryUnchanged,
         o \in Tools =>
           /\ s.status = "reserved" => inv'[o] # "closed"
           /\ o \in sent /\ o \notin waived => s.status \in {"reserved", "committed"}
  PROVE  BudInv' /\ BudgetStep
<1>1. /\ SaveEnvelopeOnly([envelope EXCEPT !.res = [envelope.res EXCEPT ![o] = s]])
      /\ RowsFollow(o, s) /\ sent' = sent /\ waived' = waived
  BY DEF SaveEnvelopeOf, SaveEnvelope, RowsFollow, HistoryUnchanged
<1>2. pc \in OpPc \ {"reserve", "save"}
  BY DEF OpPc
<1>3. PICK new \in Op :
        /\ ops' = [ops EXCEPT ![o] = new] /\ CopyStep(o)
        /\ ops'[o].pc = pc /\ ops'[o].result = ops[o].result
        /\ ops'[o].expected = ops[o].expected /\ ops'[o].amount = ops[o].amount
  BY <1>2, MovedPlain
<1>4. ASSUME o \in Tools, BudgetStep, envelope'.res[o] = s PROVE ToolSound(o)'
  <2>1. o \in sent => s.status # "none"
    BY <1>4, ToolFacts DEF ToolSound, Saveable, Moves
  <2> QED
    BY <1>1, <1>3, <1>4, <2>1 DEF ToolSound
<1> QED
  BY <1>1, <1>3, <1>4, SaveStep DEF WaivedStep

LEMMA ReleaseSaveable ==
  ASSUME BudInv, NEW o \in Ops
  PROVE  /\ Saveable(o, Released(envelope.res[o]))
         /\ Saveable(o, envelope.res[o])
         /\ envelope.res[o].status = "reserved" \/
              (envelope.res[o].status = "committed" /\ o \notin sent) =>
              Saveable(o, ReleasedConfirmed(envelope.res[o]))
         /\ envelope.res[o].status = "reserved" =>
              \A used \in Nat : used <= envelope.res[o].amount =>
                Saveable(o, Committed(envelope.res[o], used))
BY BudgetTypes, MovesFacts DEF Saveable

LEMMA StopStep ==
  ASSUME BudInv, NEW o \in Tools, StopBeforeDispatch(o)
  PROVE  BudInv' /\ BudgetStep
<1>1. o \in Ops /\ ToolSound(o) /\ inv \in [Tools -> InvStatus] /\ attempt \in Nat
  BY ToolFacts
<1> DEFINE s == Released(envelope.res[o])
<1>2. SaveEnvelopeOf(o, s) /\ Goto(o, "done") /\ HistoryUnchanged
  BY DEF StopBeforeDispatch, SaveEnvelopeOf
<1>3. /\ inv' \in [Tools -> InvStatus] /\ \A p \in Tools : p # o => inv'[p] = inv[p]
      /\ attempt' \in Nat
  BY <1>1 DEF StopBeforeDispatch, InvStatus
<1>4. Saveable(o, s)
  BY <1>1, ReleaseSaveable
<1>5. s.status # "reserved" /\ o \notin sent
  BY <1>1, BudgetTypes, MovesFacts DEF StopBeforeDispatch, ToolSound, At
<1> HIDE DEF s
<1> QED
  BY <1>1, <1>2, <1>3, <1>4, <1>5, SaveRests

(* What may still be saved is what is there.                               *)
LEMMA CurrentCopy ==
  ASSUME BudInv, NEW o \in Ops, ops[o].pc \in {"reserve", "save"}, Current(o)
  PROVE  ops[o].seen = envelope
BY DEF BudInv, CopiesSound, CopySound, Current

LEMMA SettledSaveable ==
  ASSUME BudInv, NEW o \in Tools, At(o, "save"), NEW used \in Nat,
         Restored(envelope, o).status = "reserved",
         used <= Restored(envelope, o).amount, ops[o].result = "reused" => used = 0
  PROVE  LET s == Settled(Restored(envelope, o), o, used) IN
           /\ Saveable(o, s) /\ s.status # "reserved"
           /\ o \in sent => s.status = "committed"
<1> DEFINE r == envelope.res[o]
           q == Restored(envelope, o)
           s == Settled(q, o, used)
<1>1. /\ o \in Ops /\ r \in BudgetReservation /\ ops[o].amount \in Nat
      /\ ~Settlement(r) => r.used = 0
  BY ToolFacts, BudgetTypes, OpFields
<1>2. /\ ops[o].result \in {"refused", "failed", "reused"} => o \notin sent
      /\ ops[o].result \in {"refused", "reused"} \/ r.status # "none"
  BY ToolFacts DEF ToolSound, At
<1>3. CASE r.status = "reserved"
  <2>1. q = r
    BY <1>3 DEF Restored
  <2>2. CASE ops[o].result = "refused"
    <3>1. s = ReleasedConfirmed(r)
      BY <2>1, <2>2 DEF Settled
    <3>2. Saveable(o, ReleasedConfirmed(r))
      BY <1>1, <1>3, ReleaseSaveable
    <3>3. ReleasedConfirmed(r).status # "reserved"
      BY <1>1, MovesFacts
    <3> HIDE DEF r, q, s
    <3> QED
      BY <3>1, <3>2, <3>3, <1>2, <2>2 DEF s, q
  <2>3. CASE ops[o].result = "failed"
    <3>1. s = Released(r)
      BY <2>1, <2>3 DEF Settled
    <3>2. Saveable(o, Released(r))
      BY <1>1, ReleaseSaveable
    <3>3. Released(r).status # "reserved"
      BY <1>1, MovesFacts
    <3> HIDE DEF r, q, s
    <3> QED
      BY <3>1, <3>2, <3>3, <1>2, <2>3 DEF s, q
  <2>4. CASE ops[o].result \notin {"refused", "failed"}
    <3>1. s = Committed(r, used)
      BY <2>1, <2>4 DEF Settled
    <3>2. Saveable(o, Committed(r, used))
      BY <1>1, <1>3, <2>1, ReleaseSaveable
    <3>3. Committed(r, used).status = "committed"
      BY <1>1, <1>3, MovesFacts
    <3> HIDE DEF r, q, s
    <3> QED
      BY <3>1, <3>2, <3>3 DEF s, q
  <2> QED
    BY <2>2, <2>3, <2>4
<1>4. CASE r.status = "none"
  <2>1. /\ q = Reserved(ops[o].amount) /\ q.status = "reserved" /\ q.used = 0
        /\ q \in BudgetReservation
    BY <1>1, <1>4, ResTypes DEF Restored, Reserved
  <2>2. \A x \in BudgetReservation : Settlement(x) /\ x.used = 0 => Saveable(o, x)
    <3>1. SUFFICES ASSUME NEW x \in BudgetReservation, Settlement(x), x.used = 0
                   PROVE  Saveable(o, x)
      OBVIOUS
    <3>2. Moves(o, r, x)
      BY <3>1, <1>4 DEF Moves, Settlement
    <3>3. Charge(x) = 0
      BY <3>1 DEF Charge, Settlement
    <3>4. Charge(r) \in Nat
      BY <1>1, ResTypes
    <3> QED
      BY <3>2, <3>3, <3>4 DEF Saveable
  <2>3. CASE ops[o].result = "refused"
    <3>1. s = [q EXCEPT !.status = "released", !.used = 0]
      BY <2>1, <2>3 DEF Settled, ReleasedConfirmed
    <3>2. s \in BudgetReservation /\ s.status = "released" /\ s.used = 0
      BY <3>1, <2>1 DEF BudgetReservation
    <3> HIDE DEF r, q, s
    <3>3. Saveable(o, s)
      BY <3>2, <2>2 DEF Settlement
    <3> QED
      BY <3>2, <3>3, <1>2, <2>3 DEF s, q
  <2>4. CASE ops[o].result = "reused"
    <3>1. s = [q EXCEPT !.status = "committed", !.used = 0]
      BY <2>1, <2>4 DEF Settled, Committed
    <3>2. s \in BudgetReservation /\ s.status = "committed" /\ s.used = 0
      BY <3>1, <2>1 DEF BudgetReservation
    <3> HIDE DEF r, q, s
    <3>3. Saveable(o, s)
      BY <3>2, <2>2 DEF Settlement
    <3> QED
      BY <3>2, <3>3 DEF s, q
  <2> QED
    BY <2>3, <2>4, <1>2, <1>4
<1>5. r.status = "reserved" \/ r.status = "none"
  BY DEF Restored
<1> QED
  BY <1>3, <1>4, <1>5

LEMMA SettleSaveStep ==
  ASSUME BudInv, NEW o \in Tools, NEW used \in 0..MaxLimit, SettleSave(o, used)
  PROVE  BudInv' /\ BudgetStep
<1>1. o \in Ops /\ ToolSound(o) /\ inv \in [Tools -> InvStatus] /\ attempt \in Nat
  BY ToolFacts
<1>2. At(o, "save") /\ ops[o].seen = envelope
  BY <1>1, CurrentCopy DEF SettleSave, At
<1> DEFINE s == Settled(Restored(envelope, o), o, used)
           pc == IF ops[o].result = "uncertain" THEN "review" ELSE "done"
<1>3. SaveEnvelopeOf(o, s) /\ Goto(o, pc) /\ HistoryUnchanged
      /\ pc \in {"review", "done", "lost"}
  BY <1>2 DEF SettleSave, SaveEnvelopeOf
<1>4. /\ inv' \in [Tools -> InvStatus] /\ \A p \in Tools : p # o => inv'[p] = inv[p]
      /\ attempt' \in Nat
  BY <1>1 DEF SettleSave, ToolClosed, InvStatus
<1>5. used \in Nat
  BY BudgetAssumption
<1>6. /\ Saveable(o, s) /\ s.status # "reserved"
      /\ o \in sent => s.status = "committed"
  BY <1>2, <1>5, SettledSaveable DEF SettleSave
<1>7. o \in Tools => /\ s.status = "reserved" => inv'[o] # "closed"
                     /\ o \in sent /\ o \notin waived =>
                          s.status \in {"reserved", "committed"}
  BY <1>6
<1> HIDE DEF s, pc
<1>8. SaveEnvelopeOf(o, s) /\ Goto(o, pc) /\ HistoryUnchanged /\ Saveable(o, s)
  BY <1>3, <1>6
<1> QED
  BY <1>1, <1>3, <1>4, <1>7, <1>8, SaveRests, Zenon

LEMMA TurnSavedStep ==
  ASSUME BudInv, NEW o \in Turns, TurnSaved(o)
  PROVE  BudInv' /\ BudgetStep
<1>1. o \in Ops /\ o \notin Tools /\ attempt \in Nat /\ inv \in [Tools -> InvStatus]
  BY TurnFacts
<1> DEFINE r == envelope.res[o]
           s == IF ops[o].result = "blocked" THEN Released(r) ELSE Committed(r, r.amount)
<1>2. ops[o].seen = envelope
  BY <1>1, CurrentCopy DEF TurnSaved, At
<1>3. /\ SaveEnvelopeOf(o, s) /\ Goto(o, "done") /\ HistoryUnchanged
      /\ r.status = "reserved"
  BY <1>2 DEF TurnSaved, SaveEnvelopeOf, AfterTurn, TurnSaves
<1>4. /\ inv' \in [Tools -> InvStatus] /\ \A p \in Tools : p # o => inv'[p] = inv[p]
      /\ attempt' \in Nat
  BY <1>1 DEF TurnSaved, AfterTurn
<1>5. Saveable(o, Released(r)) /\ Saveable(o, Committed(r, r.amount))
  <2>1. r.amount \in Nat
    BY <1>1, BudgetTypes, ResTypes
  <2> QED
    BY <2>1, <1>1, <1>3, ReleaseSaveable
<1>6. Saveable(o, s)
  BY <1>5
<1> HIDE DEF s, r
<1> QED
  BY <1>1, <1>3, <1>4, <1>6, SaveRests

LEMMA SettleParkStep ==
  ASSUME BudInv, NEW o \in Tools, SettlePark(o)
  PROVE  BudInv' /\ BudgetStep
<1>1. o \in Ops /\ inv \in [Tools -> InvStatus] /\ attempt \in Nat
  BY ToolFacts
<1>2. inv' = [inv EXCEPT ![o] = "needs_review"]
  BY DEF SettlePark, ToolClosed, Parked
<1>3. /\ inv' \in [Tools -> InvStatus] /\ \A p \in Tools : p # o => inv'[p] = inv[p]
      /\ inv'[o] # "closed"
  BY <1>1, <1>2 DEF InvStatus
<1>4. /\ BudgetUnchanged /\ HistoryUnchanged /\ Goto(o, "review") /\ attempt' \in Nat
  BY <1>1 DEF SettlePark
<1> QED
  BY <1>1, <1>3, <1>4, RestStep

(* The rows are overwritten by an older copy, which has no reservation the *)
(* canonical budget lacks.                                                 *)
LEMMA SettleMirrorStep ==
  ASSUME BudInv, NEW o \in Tools, SettleMirror(o)
  PROVE  BudInv' /\ BudgetStep
<1>1. /\ o \in Ops /\ inv \in [Tools -> InvStatus] /\ attempt \in Nat
      /\ ops[o].seen \in Envelope /\ CopySound(o)
  BY ToolFacts, BudgetTypes DEF BudInv, CopiesSound
<1>2. /\ envelope' = envelope /\ sent' = sent /\ waived' = waived
      /\ Goto(o, "done") /\ attempt' = attempt /\ rows' = ops[o].seen.res
  BY DEF SettleMirror, HistoryUnchanged
<1>3. BudgetStep /\ OthersKept(o)
  BY <1>1, <1>2, Unchanging
<1>4. rows' \in Reservations /\ RowsStep
  BY <1>1, <1>2, EnvelopeTypes DEF RowsStep, CopySound
<1>5. /\ inv' \in [Tools -> InvStatus] /\ \A p \in Tools : p # o => inv'[p] = inv[p]
  BY <1>1 DEF SettleMirror, ToolClosed, InvStatus
<1>6. PICK new \in Op :
        /\ ops' = [ops EXCEPT ![o] = new] /\ CopyStep(o)
        /\ ops'[o].pc = "done" /\ ops'[o].result = ops[o].result
        /\ ops'[o].expected = ops[o].expected /\ ops'[o].amount = ops[o].amount
  BY <1>1, <1>2, MovedPlain DEF OpPc
<1>7. envelope.res[o].status # "reserved"
  <2>1. ops[o].seen.res[o] \in BudgetReservation
    BY <1>1, EnvelopeTypes
  <2>2. Settlement(ops[o].seen.res[o])
    BY <2>1 DEF SettleMirror, Restored, Reserved, BudgetReservation, Settlement
  <2> QED
    BY <1>1, <2>2 DEF CopySound, Settlement
<1>8. ToolSound(o)'
  BY <1>2, <1>6, <1>7, ToolAtRest DEF ToolRests
<1> QED
  BY <1>1, <1>2, <1>3, <1>4, <1>5, <1>6, <1>8, OpMoves DEF WaivedStep

-----------------------------------------------------------------------------
(* Admission.                                                              *)

LEMMA Authorised ==
  ASSUME BudInv, NEW o \in Ops, ops' = Authority(o)
  PROVE  \E new \in Op :
           /\ ops' = [ops EXCEPT ![o] = new] /\ CopyStep(o)
           /\ ops'[o].pc = "admitted" /\ ops'[o].result = ops[o].result
           /\ ops'[o].expected = ops[o].seen.version + 1
           /\ ops'[o].amount = ops[o].amount
<1> DEFINE n == ops[o].seen.version + 1
           d == ops[o].seen.decision
           new == [[[[[ops[o] EXCEPT !.pc = "admitted"] EXCEPT !.seen = FirstEnvelope]
                     EXCEPT !.expected = n] EXCEPT !.approved = d] EXCEPT !.tries = 0]
<1>1. ops \in [Ops -> Op] /\ ops[o] \in Op /\ ops[o].seen \in Envelope
  BY BudgetTypes
<1>2. n \in Nat /\ d \in Nat
  <2>1. ops[o].seen.version \in Nat /\ d \in Nat
    BY <1>1, EnvelopeTypes
  <2> QED
    BY <2>1
<1>3. ops' = [ops EXCEPT ![o] = new]
  BY <1>1 DEF Authority
<1> HIDE DEF n, d
<1>4. new \in Op
  <2>1. [ops[o] EXCEPT !.pc = "admitted"] \in Op
    BY <1>1, OpFields DEF OpPc
  <2>2. [[ops[o] EXCEPT !.pc = "admitted"] EXCEPT !.seen = FirstEnvelope] \in Op
    BY <2>1, FirstTypes, OpFields
  <2>3. [[[ops[o] EXCEPT !.pc = "admitted"] EXCEPT !.seen = FirstEnvelope]
           EXCEPT !.expected = n] \in Op
    BY <2>2, <1>2, OpFields
  <2>4. [[[[ops[o] EXCEPT !.pc = "admitted"] EXCEPT !.seen = FirstEnvelope]
           EXCEPT !.expected = n] EXCEPT !.approved = d] \in Op
    BY <2>3, <1>2, OpFields
  <2>5. 0 \in 0..2
    OBVIOUS
  <2>6. \A r \in Op, m \in 0..2 : [r EXCEPT !.tries = m] \in Op
    BY OpFields
  <2> QED
    BY <2>4, <2>5, <2>6
<1>5. /\ new.pc = "admitted" /\ new.seen = FirstEnvelope /\ new.result = ops[o].result
      /\ new.expected = n /\ new.amount = ops[o].amount
  BY <1>1 DEF Op
<1> HIDE DEF new
<1>6. ops'[o] = new
  BY <1>1, <1>3
<1>7. CopyStep(o)
  BY <1>5, <1>6 DEF CopyStep
<1> QED
  BY <1>3, <1>4, <1>5, <1>6, <1>7 DEF n

(* What reserve makes of the operation's reservation.                      *)
Granted(o) == IF envelope.res[o].status = "none" /\ Fits(envelope, o, Cost[o])
              THEN Reserved(Cost[o]) ELSE envelope.res[o]

LEMMA GrantedSaveable ==
  ASSUME BudInv, NEW o \in Ops
  PROVE  /\ Saveable(o, Granted(o))
         /\ WithReservation(envelope, o) = [envelope.res EXCEPT ![o] = Granted(o)]
<1>1. /\ envelope.res \in [Ops -> BudgetReservation] /\ Cost[o] \in Nat
      /\ envelope.res[o] \in BudgetReservation
      /\ ~Settlement(envelope.res[o]) => envelope.res[o].used = 0
  BY BudgetTypes, BudgetAssumption DEF Reservations
<1>2. WithReservation(envelope, o) = [envelope.res EXCEPT ![o] = Granted(o)]
  <2>1. envelope.res = [envelope.res EXCEPT ![o] = envelope.res[o]]
    BY <1>1
  <2> QED
    BY <2>1 DEF WithReservation, Granted
<1>3. CASE envelope.res[o].status = "none" /\ Fits(envelope, o, Cost[o])
  <2>1. Granted(o) = Reserved(Cost[o])
    BY <1>3 DEF Granted
  <2>2. Moves(o, envelope.res[o], Reserved(Cost[o]))
    BY <1>1, <1>3, MovesFacts DEF Settlement
  <2>3. Charge(Reserved(Cost[o])) = Cost[o]
    BY DEF Charge, Reserved
  <2> QED
    BY <1>2, <1>3, <2>1, <2>2, <2>3 DEF Saveable
<1>4. CASE ~(envelope.res[o].status = "none" /\ Fits(envelope, o, Cost[o]))
  BY <1>2, <1>4, ReleaseSaveable DEF Granted
<1> QED
  BY <1>3, <1>4

LEMMA AdmittedStep ==
  ASSUME BudInv, NEW o \in Ops, At(o, "reserve"), Current(o),
         SaveEnvelope(ops[o].seen, WithReservation(ops[o].seen, o)),
         inv' \in [Tools -> InvStatus], \A p \in Tools : p # o => inv'[p] = inv[p],
         o \in Tools => inv'[o] = "running",
         ops' = Authority(o), HistoryUnchanged, UNCHANGED attempt
  PROVE  BudInv' /\ BudgetStep
<1> DEFINE s == Granted(o)
<1>1. ops[o].seen = envelope
  BY CurrentCopy DEF At
<1>2. Saveable(o, s) /\ WithReservation(envelope, o) = [envelope.res EXCEPT ![o] = s]
  BY GrantedSaveable
<1>3. /\ SaveEnvelopeOnly([envelope EXCEPT !.res = [envelope.res EXCEPT ![o] = s]])
      /\ RowsFollow(o, s)
  BY <1>1, <1>2 DEF SaveEnvelope, RowsFollow
<1>4. PICK new \in Op :
        /\ ops' = [ops EXCEPT ![o] = new] /\ CopyStep(o)
        /\ ops'[o].pc = "admitted" /\ ops'[o].result = ops[o].result
        /\ ops'[o].expected = ops[o].seen.version + 1
        /\ ops'[o].amount = ops[o].amount
  BY Authorised
<1>5. sent' = sent /\ waived' = waived /\ attempt' \in Nat
  BY DEF HistoryUnchanged, BudInv, TypeOK
<1>6. ASSUME o \in Tools, envelope'.res[o] = s, envelope'.version = envelope.version + 1
      PROVE  ToolSound(o)'
  <2>1. /\ envelope.res[o].status = "none" /\ ops[o].amount = Cost[o] /\ o \notin sent
    BY <1>6, ToolFacts DEF ToolSound, At
  <2>2. s.status = "none" \/ s = Reserved(ops[o].amount)
    BY <2>1 DEF Granted
  <2>3. envelope.version \in Nat
    BY BudgetTypes
  <2> HIDE DEF s
  <2> QED
    BY <1>1, <1>4, <1>5, <1>6, <2>1, <2>2, <2>3 DEF ToolSound
<1> HIDE DEF s
<1> QED
  BY <1>2, <1>3, <1>4, <1>5, <1>6, SaveStep DEF WaivedStep

LEMMA AdmitStep ==
  ASSUME BudInv, NEW o \in Tools, Admit(o)
  PROVE  BudInv' /\ BudgetStep
<1>1. o \in Ops /\ inv \in [Tools -> InvStatus]
  BY ToolFacts
<1>2. inv' = [inv EXCEPT ![o] = "running"]
  BY DEF Admit
<1>3. /\ inv' \in [Tools -> InvStatus] /\ \A p \in Tools : p # o => inv'[p] = inv[p]
      /\ inv'[o] = "running"
  BY <1>1, <1>2 DEF InvStatus
<1> QED
  BY <1>1, <1>3, AdmittedStep DEF Admit

(* The turn takes up a reservation that was charged before.                *)
LEMMA TurnReadmitted ==
  ASSUME BudInv, NEW o \in Turns, BudgetUnchanged, HistoryUnchanged,
         UNCHANGED <<inv, attempt>>,
         ops' = [Moved(o, "admitted") EXCEPT ![o].expected = ops[o].seen.version,
                                             ![o].approved = ops[o].seen.decision]
  PROVE  BudInv' /\ BudgetStep
<1> DEFINE n == ops[o].seen.version
           d == ops[o].seen.decision
           m == MovedOp(o, "admitted")
           new == [[m EXCEPT !.expected = n] EXCEPT !.approved = d]
<1>1. /\ o \in Ops /\ o \notin Tools /\ ops \in [Ops -> Op] /\ ops[o] \in Op
      /\ n \in Nat /\ d \in Nat
  BY TurnFacts, BudgetTypes, EnvelopeTypes
<1>2. /\ m \in Op /\ m.pc = "admitted" /\ m.seen = FirstEnvelope
      /\ Moved(o, "admitted") = [ops EXCEPT ![o] = m]
  BY <1>1, MovedTypes DEF OpPc
<1> HIDE DEF n, d, m
<1>3. ops' = [[ops EXCEPT ![o] = m] EXCEPT ![o].expected = n, ![o].approved = d]
  BY <1>2 DEF n, d
<1>4. ops' = [ops EXCEPT ![o] = new]
  BY <1>1, <1>3
<1>5. new \in Op
  BY <1>1, <1>2, OpFields
<1>6. new.pc = "admitted" /\ new.seen = FirstEnvelope
  BY <1>2 DEF Op
<1> HIDE DEF new
<1>7. ops'[o] = new
  BY <1>1, <1>4
<1>8. CopyStep(o)
  BY <1>6, <1>7 DEF CopyStep
<1> QED
  BY <1>1, <1>4, <1>5, <1>8, OpOnly

LEMMA ReserveTurnStep ==
  ASSUME BudInv, NEW o \in Turns, ReserveTurn(o)
  PROVE  BudInv' /\ BudgetStep
<1>1. /\ o \in Ops /\ o \notin Tools /\ attempt \in Nat /\ inv \in [Tools -> InvStatus]
  BY TurnFacts
<1>2. /\ At(o, "reserve") /\ HistoryUnchanged /\ UNCHANGED <<inv, attempt>>
  BY DEF ReserveTurn
<1>3. CASE BudgetUnchanged /\ (Goto(o, "done") \/ Goto(o, "lost"))
  BY <1>1, <1>2, <1>3, LostStep
<1>4. CASE /\ BudgetUnchanged
           /\ ops' = [Moved(o, "admitted") EXCEPT ![o].expected = ops[o].seen.version,
                                                  ![o].approved = ops[o].seen.decision]
  BY <1>2, <1>4, TurnReadmitted
<1>5. CASE /\ Current(o) /\ ops' = Authority(o)
           /\ SaveEnvelope(ops[o].seen, WithReservation(ops[o].seen, o))
  BY <1>1, <1>2, <1>5, AdmittedStep
<1> QED
  BY <1>3, <1>4, <1>5 DEF ReserveTurn

(* The measured amount replaces the estimate.                              *)
LEMMA AdjustStep ==
  ASSUME BudInv, NEW o \in Tools, NEW amount \in 0..MaxLimit, Adjust(o, amount)
  PROVE  BudInv' /\ BudgetStep
<1> DEFINE n == envelope.version + 1
           s == Reserved(amount)
           new == [[ops[o] EXCEPT !.amount = amount] EXCEPT !.expected = n]
<1>1. /\ o \in Ops /\ ToolSound(o) /\ inv \in [Tools -> InvStatus] /\ attempt \in Nat
      /\ ops \in [Ops -> Op] /\ ops[o] \in Op /\ amount \in Nat
      /\ envelope.res \in [Ops -> BudgetReservation] /\ envelope.version \in Nat
  BY ToolFacts, BudgetTypes, BudgetAssumption DEF Reservations
<1>2. /\ At(o, "admitted") /\ envelope.res[o] = Reserved(ops[o].amount)
      /\ sent' = sent /\ waived' = waived /\ inv' = inv /\ attempt' = attempt
      /\ Fits(envelope, o, amount)
  BY DEF Adjust, AdmissionCurrent, HistoryUnchanged
<1>3. Saveable(o, s)
  <2>1. ~Settlement(envelope.res[o])
    BY <1>2 DEF Settlement, Reserved
  <2>2. Moves(o, envelope.res[o], s)
    BY <1>1, <2>1, BudgetTypes, MovesFacts
  <2>3. Charge(s) = amount
    BY DEF Charge, Reserved
  <2> QED
    BY <1>2, <2>2, <2>3 DEF Saveable
<1>4. [envelope.res EXCEPT ![o].amount = amount] = [envelope.res EXCEPT ![o] = s]
  <2>1. [Reserved(ops[o].amount) EXCEPT !.amount = amount] = s
    BY DEF Reserved
  <2> QED
    BY <1>2, <2>1
<1>5. /\ SaveEnvelopeOnly([envelope EXCEPT !.res = [envelope.res EXCEPT ![o] = s]])
      /\ RowsFollow(o, s)
  BY <1>4 DEF Adjust, SaveEnvelope, RowsFollow
<1>6. ops' = [ops EXCEPT ![o] = new]
  BY <1>1 DEF Adjust
<1>7. n \in Nat
  BY <1>1
<1> HIDE DEF n
<1>8. new \in Op
  BY <1>1, <1>7, OpFields
<1>9. /\ new.pc = ops[o].pc /\ new.seen = ops[o].seen /\ new.amount = amount
      /\ new.expected = n
  BY <1>1 DEF Op
<1> HIDE DEF new
<1>10. ops'[o] = new
  BY <1>1, <1>6
<1>11. CopyStep(o)
  BY <1>9, <1>10 DEF CopyStep
<1>12. ASSUME envelope'.res[o] = s, envelope'.version = envelope.version + 1
       PROVE  ToolSound(o)'
  <2>1. o \notin sent /\ new.pc = "admitted"
    BY <1>1, <1>2, <1>9 DEF ToolSound, At
  <2>2. new.expected = envelope'.version /\ envelope'.version \in Nat
    BY <1>9, <1>12, <1>7 DEF n
  <2>3. inv'[o] # "closed"
    BY <1>2 DEF Adjust
  <2> QED
    BY <1>2, <1>9, <1>10, <1>12, <2>1, <2>2, <2>3 DEF ToolSound
<1>13. /\ inv' \in [Tools -> InvStatus] /\ \A p \in Tools : p # o => inv'[p] = inv[p]
       /\ attempt' \in Nat
  BY <1>1, <1>2
<1> HIDE DEF s
<1> QED
  BY <1>1, <1>2, <1>3, <1>5, <1>6, <1>8, <1>11, <1>12, <1>13, SaveStep DEF WaivedStep

LEMMA RecordReuseStep ==
  ASSUME BudInv, NEW o \in Tools, RecordReuse(o)
  PROVE  BudInv' /\ BudgetStep
<1>1. /\ o \in Ops /\ ToolSound(o) /\ inv \in [Tools -> InvStatus] /\ attempt \in Nat
      /\ "reused" \in Result /\ "settle" \in OpPc \ {"reserve", "save"}
      /\ envelope.res \in [Ops -> BudgetReservation]
  BY ToolFacts, BudgetTypes DEF Result, OpPc, Reservations
<1>2. /\ At(o, "admitted") /\ envelope' = envelope /\ sent' = sent /\ waived' = waived
      /\ inv' = inv /\ attempt' = attempt
      /\ rows' = [rows EXCEPT ![o] = Released(rows[o])]
      /\ ops' = [Moved(o, "settle") EXCEPT ![o].result = "reused"]
  BY DEF RecordReuse, HistoryUnchanged
<1>3. PICK new \in Op :
        /\ ops' = [ops EXCEPT ![o] = new] /\ CopyStep(o)
        /\ ops'[o].pc = "settle" /\ ops'[o].result = "reused"
        /\ ops'[o].expected = ops[o].expected /\ ops'[o].amount = ops[o].amount
  BY <1>1, <1>2, MovedResult
<1>4. BudgetStep /\ OthersKept(o)
  BY <1>1, <1>2, Unchanging
<1>5. rows' \in Reservations /\ RowsStep
  <2>1. envelope'.res = [envelope.res EXCEPT ![o] = envelope.res[o]]
    BY <1>1, <1>2
  <2>2. RowsFollow(o, envelope.res[o])
    BY <1>2 DEF RowsFollow
  <2>3. envelope'.res \in Reservations
    BY <1>2, BudgetTypes
  <2> QED
    BY <1>1, <2>1, <2>2, <2>3, RowsFollowed
<1>6. ToolSound(o)'
  BY <1>1, <1>2, <1>3 DEF ToolSound, At
<1> QED
  BY <1>1, <1>2, <1>3, <1>4, <1>5, <1>6, OpMoves DEF WaivedStep

LEMMA RefuseReuseStep ==
  ASSUME BudInv, NEW o \in Tools, RefuseReuse(o)
  PROVE  BudInv' /\ BudgetStep
<1> DEFINE s == Released(envelope.res[o])
<1>1. /\ o \in Ops /\ ToolSound(o) /\ inv \in [Tools -> InvStatus] /\ attempt \in Nat
      /\ "refused" \in Result /\ "settle" \in OpPc \ {"reserve", "save"}
  BY ToolFacts DEF Result, OpPc
<1>2. /\ At(o, "admitted") /\ sent' = sent /\ waived' = waived
      /\ inv' = inv /\ attempt' = attempt
      /\ rows' = [rows EXCEPT ![o] = Released(rows[o])]
      /\ ops' = [Moved(o, "settle") EXCEPT ![o].result = "refused"]
  BY DEF RefuseReuse, HistoryUnchanged
<1>3. PICK new \in Op :
        /\ ops' = [ops EXCEPT ![o] = new] /\ CopyStep(o)
        /\ ops'[o].pc = "settle" /\ ops'[o].result = "refused"
        /\ ops'[o].expected = ops[o].expected /\ ops'[o].amount = ops[o].amount
  BY <1>1, <1>2, MovedResult
<1>4. /\ SaveEnvelopeOnly([envelope EXCEPT !.res = [envelope.res EXCEPT ![o] = s]])
      /\ RowsFollow(o, s)
  BY <1>2 DEF RefuseReuse, RowsFollow
<1>5. Saveable(o, s) /\ s.status # "reserved"
  BY <1>1, ReleaseSaveable, BudgetTypes, MovesFacts
<1>6. ASSUME envelope'.res[o] = s PROVE ToolSound(o)'
  BY <1>1, <1>2, <1>3, <1>5, <1>6 DEF ToolSound, At
<1>7. /\ inv' \in [Tools -> InvStatus] /\ \A p \in Tools : p # o => inv'[p] = inv[p]
      /\ attempt' \in Nat
  BY <1>1, <1>2
<1> HIDE DEF s
<1> QED
  BY <1>1, <1>2, <1>3, <1>4, <1>5, <1>6, <1>7, SaveStep DEF WaivedStep

(* A tool request leaves with the reservation its authority names: if the  *)
(* envelope is the one it was admitted into, the rows show that the        *)
(* reservation was made.                                                   *)
LEMMA SendIsFunded ==
  ASSUME BudInv, NEW o \in Tools, Send(o)
  PROVE  envelope.res[o] = Reserved(ops[o].amount)
<1>1. o \in Ops /\ o \notin Turns /\ ToolSound(o) /\ At(o, "admitted") /\ RowsSound
  BY ToolFacts DEF Send, BudInv
<1>2. CASE Consumable(o)
  <2>1. ops[o].expected = envelope.version /\ rows[o].status = "reserved"
    BY <1>2 DEF Consumable, Reserved
  <2>2. envelope.res[o].status # "none"
    BY <1>1, <2>1 DEF RowsSound
  <2> QED
    BY <1>1, <2>1, <2>2 DEF ToolSound, At
<1>3. CASE AdmissionCurrent(o)
  BY <1>3 DEF AdmissionCurrent
<1> QED
  BY <1>1, <1>2, <1>3 DEF Send

LEMMA SendStep ==
  ASSUME BudInv, NEW o \in Ops, Send(o)
  PROVE  BudInv' /\ BudgetStep
<1>1. /\ envelope' = envelope /\ rows' = rows /\ inv' = inv /\ attempt' = attempt
      /\ waived' = waived /\ sent' = sent \union {o} /\ Goto(o, "sent")
      /\ "sent" \in OpPc \ {"reserve", "save"}
  BY DEF Send, BudgetUnchanged, OpPc
<1>2. PICK new \in Op :
        /\ ops' = [ops EXCEPT ![o] = new] /\ CopyStep(o)
        /\ ops'[o].pc = "sent" /\ ops'[o].result = ops[o].result
        /\ ops'[o].expected = ops[o].expected /\ ops'[o].amount = ops[o].amount
  BY <1>1, MovedPlain
<1>3. /\ BudgetStep /\ OthersKept(o) /\ rows' \in Reservations /\ RowsStep
      /\ inv' \in [Tools -> InvStatus] /\ attempt' \in Nat
  BY <1>1, Unchanging
<1>4. ASSUME o \in Tools PROVE ToolSound(o)'
  <2>1. envelope.res[o] = Reserved(ops[o].amount)
    BY <1>4, SendIsFunded
  <2>2. ToolSound(o)
    BY <1>4, ToolFacts
  <2> QED
    BY <1>1, <1>2, <2>1, <2>2 DEF ToolSound, Reserved
<1> QED
  BY <1>1, <1>2, <1>3, <1>4, OpMoves DEF WaivedStep

-----------------------------------------------------------------------------
(* Review of an invocation.                                                *)

Reviewed(o) ==
    /\ inv[o] = "needs_review" /\ inv' = [inv EXCEPT ![o] = "closed"]
    /\ ~At(o, "save") /\ ops' = ops /\ attempt' = attempt
    /\ sent' = sent /\ WaivedStep(o)

LEMMA ReviewedKept ==
  ASSUME BudInv, NEW o \in Tools, Reviewed(o)
  PROVE  /\ ops' = [ops EXCEPT ![o] = ops[o]] /\ CopyStep(o) /\ ops[o] \in Op /\ o \in Ops
         /\ inv' \in [Tools -> InvStatus] /\ \A p \in Tools : p # o => inv'[p] = inv[p]
         /\ attempt' \in Nat
<1>1. /\ o \in Ops /\ inv \in [Tools -> InvStatus] /\ attempt \in Nat
      /\ ops \in [Ops -> Op] /\ ops[o] \in Op
  BY ToolFacts, BudgetTypes
<1>2. inv' = [inv EXCEPT ![o] = "closed"] /\ ops' = ops /\ attempt' = attempt
  BY DEF Reviewed
<1>3. ops' = [ops EXCEPT ![o] = ops[o]] /\ CopyStep(o)
  BY <1>1, <1>2 DEF CopyStep
<1>4. inv' \in [Tools -> InvStatus] /\ \A p \in Tools : p # o => inv'[p] = inv[p]
  BY <1>1, <1>2 DEF InvStatus
<1> QED
  BY <1>1, <1>2, <1>3, <1>4

LEMMA ReviewedTool ==
  ASSUME BudInv, NEW o \in Tools, Reviewed(o), NEW s, envelope'.res[o] = s,
         \/ envelope' = envelope
         \/ Moves(o, envelope.res[o], s) /\ envelope'.version = envelope.version + 1,
         s.status # "reserved",
         o \in sent /\ o \notin waived' => s.status = "committed"
  PROVE  ToolSound(o)'
<1>1. ToolSound(o) /\ o \in Ops /\ inv[o] = "needs_review" /\ inv' \in [Tools -> InvStatus]
  BY ToolFacts, ReviewedKept DEF Reviewed
<1>2. envelope.version \in Nat /\ ops[o].expected \in Nat
  BY <1>1, BudgetTypes, OpFields
<1>3. ops[o].pc \notin {"idle", "reserve", "save"}
  BY <1>1 DEF Reviewed, ToolSound, At
<1>4. envelope.res[o].status # "none" => s.status # "none"
  BY DEF Moves
<1>5. ops[o].pc = "admitted" =>
        /\ ops[o].expected <= envelope'.version
        /\ ops[o].expected = envelope'.version => s.status = "none" \/
                                                  s = Reserved(ops[o].amount)
  BY <1>1, <1>2 DEF ToolSound
<1>6. ops' = ops /\ sent' = sent
  BY DEF Reviewed
<1> QED
  BY <1>1, <1>3, <1>4, <1>5, <1>6 DEF ToolSound

LEMMA ReviewStep ==
  ASSUME BudInv, NEW o \in Tools, Reviewed(o), NEW s, Saveable(o, s),
         SaveEnvelopeOnly([envelope EXCEPT !.res = [envelope.res EXCEPT ![o] = s]]),
         RowsFollow(o, s), s.status # "reserved",
         o \in sent /\ o \notin waived' => s.status = "committed"
  PROVE  BudInv' /\ BudgetStep
<1>1. /\ ops' = [ops EXCEPT ![o] = ops[o]] /\ CopyStep(o) /\ ops[o] \in Op /\ o \in Ops
      /\ inv' \in [Tools -> InvStatus] /\ \A p \in Tools : p # o => inv'[p] = inv[p]
      /\ attempt' \in Nat
  BY ReviewedKept
<1>2. sent' = sent /\ WaivedStep(o)
  BY DEF Reviewed
<1>3. ASSUME envelope'.res[o] = s, envelope'.version = envelope.version + 1
      PROVE  ToolSound(o)'
  BY <1>3, ReviewedTool DEF Saveable
<1> QED
  BY <1>1, <1>2, <1>3, SaveStep

(* The budget needs no change: the reservation was settled before.         *)
LEMMA ReviewSettled ==
  ASSUME BudInv, NEW o \in Tools, Reviewed(o), envelope' = envelope,
         rows' = rows \/ rows' = envelope.res, envelope.res[o].status # "reserved",
         o \in sent /\ o \notin waived' => envelope.res[o].status = "committed"
  PROVE  BudInv' /\ BudgetStep
<1>1. /\ ops' = [ops EXCEPT ![o] = ops[o]] /\ CopyStep(o) /\ ops[o] \in Op /\ o \in Ops
      /\ inv' \in [Tools -> InvStatus] /\ \A p \in Tools : p # o => inv'[p] = inv[p]
      /\ attempt' \in Nat
  BY ReviewedKept
<1>2. sent' = sent /\ WaivedStep(o)
  BY DEF Reviewed
<1>3. BudgetStep /\ OthersKept(o)
  BY <1>1, Unchanging
<1>4. rows' \in Reservations /\ RowsStep
  BY BudgetTypes, Unchanging DEF RowsStep
<1>5. ToolSound(o)'
  BY ReviewedTool
<1> QED
  BY <1>1, <1>2, <1>3, <1>4, <1>5, OpMoves

LEMMA ResumeProofStep ==
  ASSUME BudInv, NEW o \in Tools, ResumeProof(o)
  PROVE  BudInv' /\ BudgetStep
<1> DEFINE s == ReleasedConfirmed(envelope.res[o])
<1>1. Reviewed(o) /\ waived' = waived /\ o \notin sent /\ o \in Ops
  BY ToolFacts DEF ResumeProof, Reviewed, Unlocked, HistoryUnchanged, WaivedStep
<1>2. CASE envelope.res[o].status = "reserved"
  <2>1. /\ SaveEnvelopeOnly([envelope EXCEPT !.res = [envelope.res EXCEPT ![o] = s]])
        /\ RowsFollow(o, s)
    BY <1>2 DEF ResumeProof, SaveEnvelope, RowsFollow
  <2>2. Saveable(o, s) /\ s.status # "reserved"
    BY <1>1, <1>2, ReleaseSaveable, BudgetTypes, MovesFacts
  <2> HIDE DEF s
  <2> QED
    BY <1>1, <2>1, <2>2, ReviewStep
<1>3. CASE envelope.res[o].status # "reserved"
  <2>1. envelope' = envelope /\ rows' = envelope.res
    BY <1>3 DEF ResumeProof
  <2> QED
    BY <1>1, <1>3, <2>1, ReviewSettled
<1> QED
  BY <1>2, <1>3

LEMMA SealAdvisorStep ==
  ASSUME BudInv, NEW o \in Tools, SealAdvisor(o)
  PROVE  BudInv' /\ BudgetStep
<1> DEFINE s == ReleasedConfirmed(envelope.res[o])
<1>1. Reviewed(o) /\ waived' = waived /\ o \notin sent /\ o \in Ops /\ rows' = rows
      /\ envelope.res[o].status # "none"
  BY ToolFacts DEF SealAdvisor, Reviewed, Unlocked, HistoryUnchanged, WaivedStep
<1>2. CASE envelope.res[o].status # "released"
  <2>1. SaveEnvelopeOnly([envelope EXCEPT !.res = [envelope.res EXCEPT ![o] = s]])
    BY <1>2 DEF SealAdvisor
  <2>2. envelope.res[o].status \in {"reserved", "committed"}
    BY <1>1, <1>2, BudgetTypes
  <2>3. Saveable(o, s) /\ s.status # "reserved"
    BY <1>1, <2>2, ReleaseSaveable, BudgetTypes, MovesFacts
  <2>4. RowsFollow(o, s)
    BY <1>1 DEF RowsFollow
  <2> HIDE DEF s
  <2> QED
    BY <1>1, <2>1, <2>3, <2>4, ReviewStep
<1>3. CASE envelope.res[o].status = "released"
  <2>1. envelope' = envelope
    BY <1>3 DEF SealAdvisor
  <2> QED
    BY <1>1, <1>3, <2>1, ReviewSettled
<1> QED
  BY <1>2, <1>3

LEMMA ReconcileStep ==
  ASSUME BudInv, NEW o \in Tools, NEW executed \in BOOLEAN, Reconcile(o, executed)
  PROVE  BudInv' /\ BudgetStep
<1> DEFINE r == envelope.res[o]
           s == IF executed THEN Committed(r, r.amount) ELSE Released(r)
<1>1. Reviewed(o) /\ o \in Ops /\ r.status # "none"
  BY ToolFacts DEF Reconcile, Reviewed, Unlocked, WaivedStep
<1>2. /\ SaveEnvelopeOnly([envelope EXCEPT !.res = [envelope.res EXCEPT ![o] = s]])
      /\ RowsFollow(o, s)
  BY DEF Reconcile, SaveEnvelope, RowsFollow
<1>3. /\ r \in BudgetReservation /\ r.amount \in Nat
      /\ ~Settlement(r) => r.used = 0
  BY <1>1, BudgetTypes, ResTypes
<1>4. CASE ~executed
  <2>1. Saveable(o, Released(r)) /\ Released(r).status # "reserved"
    BY <1>1, <1>3, ReleaseSaveable, MovesFacts
  <2>2. o \in waived'
    BY <1>4 DEF Reconcile
  <2>3. s = Released(r)
    BY <1>4
  <2> HIDE DEF s, r
  <2> QED
    BY <1>1, <1>2, <2>1, <2>2, <2>3, ReviewStep
<1>5. CASE executed /\ r.status = "reserved"
  <2>1. Saveable(o, Committed(r, r.amount)) /\ Committed(r, r.amount).status = "committed"
    BY <1>1, <1>3, <1>5, ReleaseSaveable, MovesFacts
  <2>2. s = Committed(r, r.amount)
    BY <1>5
  <2> HIDE DEF s, r
  <2> QED
    BY <1>1, <1>2, <2>1, <2>2, ReviewStep
<1>6. CASE executed /\ r.status # "reserved"
  <2>1. r.status = "committed"
    BY <1>1, <1>3, <1>6 DEF Reconcile, BudgetReservation
  <2>2. s = r
    BY <1>1, <1>3, <1>6, MovesFacts
  <2>3. Saveable(o, r)
    BY <1>1, ReleaseSaveable
  <2> HIDE DEF s, r
  <2> QED
    BY <1>1, <1>2, <2>1, <2>2, <2>3, ReviewStep
<1> QED
  BY <1>4, <1>5, <1>6

(* Every running invocation is put under review.                           *)
LEMMA ResumeToolsStep ==
  ASSUME BudInv, ResumeTools
  PROVE  BudInv' /\ BudgetStep
<1>1. /\ envelope' = envelope /\ rows' = rows /\ sent' = sent /\ waived' = waived
      /\ ops' = ops /\ attempt' = attempt
  BY DEF ResumeTools, BudgetUnchanged, HistoryUnchanged
<1>2. /\ BudgetStep /\ rows' \in Reservations /\ RowsStep
  BY <1>1, Unchanging
<1>3. inv \in [Tools -> InvStatus]
  BY DEF BudInv, TypeOK, InvStatus
<1>4. /\ inv' \in [Tools -> InvStatus]
      /\ \A o \in Tools : /\ inv'[o] = "closed" => inv[o] = "closed"
                          /\ inv[o] = "none" => inv'[o] = "none"
  BY <1>3 DEF ResumeTools, InvStatus
<1>5. TypeOK'
  BY <1>1, <1>4 DEF BudInv, TypeOK, InvStatus
<1>6. \A o \in Ops : CopyStep(o)
  BY <1>1 DEF CopyStep
<1>7. ASSUME NEW o \in Tools PROVE ToolSound(o)'
  BY <1>1, <1>4, ToolFacts DEF ToolSound
<1>8. ToolsSound'
  BY <1>7 DEF ToolsSound
<1> QED
  BY <1>2, <1>5, <1>6, <1>8, Frame

-----------------------------------------------------------------------------
(* Decisions of an analyst change the rights and keep the reservations.    *)

LEMMA RightsStep ==
  ASSUME BudInv, envelope' \in Envelope, envelope'.version = envelope.version + 1,
         envelope'.res = envelope.res, UNCHANGED <<rows, inv, ops, attempt, sent, waived>>
  PROVE  BudInv' /\ BudgetStep
<1>1. \A o \in Ops : /\ Moves(o, envelope.res[o], envelope.res[o])
                     /\ Charge(envelope.res[o]) <= Charge(envelope.res[o])
  BY BudgetTypes, MovesFacts
<1>2. BudgetStep
  BY <1>1 DEF BudgetStep, EnvelopeSaved, ChargeStep
<1>3. TypeOK'
  BY DEF BudInv, TypeOK
<1>4. RowsStep
  BY DEF RowsStep, BudInv, RowsSound
<1>5. \A o \in Ops : CopyStep(o)
  BY DEF CopyStep
<1>6. ASSUME NEW o \in Tools PROVE ToolSound(o)'
  <2>1. ToolUnmoved(o)
    BY DEF ToolUnmoved
  <2> QED
    BY <2>1, <1>2, ToolKept
<1>7. ToolsSound'
  BY <1>6 DEF ToolsSound
<1> QED
  BY <1>2, <1>3, <1>4, <1>5, <1>7, Frame

(* Saving the envelope counts its version and nothing else.                *)
LEMMA SavedEnvelope ==
  ASSUME NEW e \in Envelope, SaveEnvelopeOnly(e)
  PROVE  /\ envelope' \in Envelope /\ envelope'.version = e.version + 1
         /\ envelope'.res = e.res /\ envelope'.limits = e.limits
<1> DEFINE n == e.version + 1
<1>1. n \in Nat
  <2>1. e.version \in Nat
    BY EnvelopeTypes
  <2> QED
    BY <2>1
<1>2. envelope' = [e EXCEPT !.version = n]
  BY DEF SaveEnvelopeOnly
<1> HIDE DEF n
<1>3. envelope' \in Envelope
  BY <1>1, <1>2, EnvelopeTypes
<1>4. envelope'.version = n /\ envelope'.res = e.res /\ envelope'.limits = e.limits
  BY <1>2 DEF Envelope
<1> QED
  BY <1>3, <1>4 DEF n

LEMMA ExtendStep ==
  ASSUME BudInv, NEW limits \in [Dims -> 0..MaxLimit], Extend(limits)
  PROVE  BudInv' /\ BudgetStep
<1> DEFINE n == envelope.decision + 1
           e == [[[envelope EXCEPT !.decision = n] EXCEPT !.allowed = TRUE]
                   EXCEPT !.limits = limits]
<1>1. envelope \in Envelope /\ n \in Nat
  <2>1. envelope \in Envelope /\ envelope.decision \in Nat
    BY BudgetTypes, EnvelopeTypes
  <2> QED
    BY <2>1
<1>2. limits \in [Dims -> Nat]
  BY BudgetAssumption
<1> HIDE DEF n
<1>3. e \in Envelope
  <2>1. [envelope EXCEPT !.decision = n] \in Envelope
    BY <1>1, EnvelopeTypes
  <2>2. [[envelope EXCEPT !.decision = n] EXCEPT !.allowed = TRUE] \in Envelope
    BY <2>1, EnvelopeTypes
  <2> QED
    BY <2>2, <1>2, EnvelopeTypes
<1>4. e.version = envelope.version /\ e.res = envelope.res
  BY <1>1 DEF Envelope
<1>5. SaveEnvelopeOnly(e) /\ UNCHANGED <<rows, inv, ops, attempt, sent, waived>>
  BY DEF Extend, HistoryUnchanged, n
<1> HIDE DEF e
<1>6. /\ envelope' \in Envelope /\ envelope'.version = envelope.version + 1
      /\ envelope'.res = envelope.res
  BY <1>3, <1>4, <1>5, SavedEnvelope
<1> QED
  BY <1>5, <1>6, RightsStep

LEMMA ZeroedTypes ==
  ASSUME NEW limits \in [Dims -> Nat]
  PROVE  Zeroed(limits) \in [Dims -> Nat]
BY DEF Zeroed

LEMMA RevokeStep ==
  ASSUME BudInv, Revoke
  PROVE  BudInv' /\ BudgetStep
<1> DEFINE n == envelope.decision + 1
           c == envelope.limits
           z == Zeroed(envelope.limits)
           e == [[[[envelope EXCEPT !.decision = n] EXCEPT !.allowed = FALSE]
                    EXCEPT !.ceiling = c] EXCEPT !.limits = z]
<1>1. envelope \in Envelope /\ n \in Nat /\ c \in [Dims -> Nat] /\ z \in [Dims -> Nat]
  <2>1. envelope \in Envelope /\ envelope.decision \in Nat
        /\ envelope.limits \in [Dims -> Nat]
    BY BudgetTypes, EnvelopeTypes
  <2> QED
    BY <2>1, ZeroedTypes
<1>2. SaveEnvelopeOnly([envelope EXCEPT !.decision = n, !.allowed = FALSE,
                           !.ceiling = c, !.limits = z])
  BY <1>1 DEF Revoke, Envelope
<1> HIDE DEF n, c, z
<1>3. e \in Envelope
  <2>1. [envelope EXCEPT !.decision = n] \in Envelope
    BY <1>1, EnvelopeTypes
  <2>2. [[envelope EXCEPT !.decision = n] EXCEPT !.allowed = FALSE] \in Envelope
    BY <2>1, EnvelopeTypes
  <2>3. [[[envelope EXCEPT !.decision = n] EXCEPT !.allowed = FALSE] EXCEPT !.ceiling = c]
          \in Envelope
    BY <2>2, <1>1, EnvelopeTypes
  <2> QED
    BY <2>3, <1>1, EnvelopeTypes
<1>4. e.version = envelope.version /\ e.res = envelope.res
  BY <1>1 DEF Envelope
<1>5. SaveEnvelopeOnly(e) /\ UNCHANGED <<rows, inv, ops, attempt, sent, waived>>
  BY <1>2 DEF Revoke, HistoryUnchanged
<1> HIDE DEF e
<1>6. /\ envelope' \in Envelope /\ envelope'.version = envelope.version + 1
      /\ envelope'.res = envelope.res
  BY <1>3, <1>4, <1>5, SavedEnvelope
<1> QED
  BY <1>5, <1>6, RightsStep

LEMMA PropagateRevocationStep ==
  ASSUME BudInv, PropagateRevocation
  PROVE  BudInv' /\ BudgetStep
<1> DEFINE z == Zeroed(envelope.limits)
           e == [[envelope EXCEPT !.allowed = FALSE] EXCEPT !.limits = z]
<1>1. envelope \in Envelope /\ z \in [Dims -> Nat]
  <2>1. envelope \in Envelope /\ envelope.limits \in [Dims -> Nat]
    BY BudgetTypes, EnvelopeTypes
  <2> QED
    BY <2>1, ZeroedTypes
<1>2. SaveEnvelopeOnly([envelope EXCEPT !.allowed = FALSE, !.limits = z])
  BY <1>1 DEF PropagateRevocation, Envelope
<1> HIDE DEF z
<1>3. e \in Envelope
  <2>1. [envelope EXCEPT !.allowed = FALSE] \in Envelope
    BY <1>1, EnvelopeTypes
  <2> QED
    BY <2>1, <1>1, EnvelopeTypes
<1>4. e.version = envelope.version /\ e.res = envelope.res
  BY <1>1 DEF Envelope
<1>5. SaveEnvelopeOnly(e) /\ UNCHANGED <<rows, inv, ops, attempt, sent, waived>>
  BY <1>2 DEF PropagateRevocation, HistoryUnchanged
<1> HIDE DEF e
<1>6. /\ envelope' \in Envelope /\ envelope'.version = envelope.version + 1
      /\ envelope'.res = envelope.res
  BY <1>3, <1>4, <1>5, SavedEnvelope
<1> QED
  BY <1>5, <1>6, RightsStep

-----------------------------------------------------------------------------
(* Resumption of a turn: the only step that settles several reservations.  *)

LEMMA ManySaved ==
  ASSUME BudInv, NEW res \in Reservations, SaveEnvelope(envelope, res),
         \A p \in Ops : /\ Moves(p, envelope.res[p], res[p])
                        /\ Charge(res[p]) <= Charge(envelope.res[p])
  PROVE  EnvelopeSaved /\ envelope'.res = res /\ rows' = res
<1> DEFINE e == [envelope EXCEPT !.res = res]
<1>1. e \in Envelope /\ e.version = envelope.version /\ e.res = res
  BY BudgetTypes, EnvelopeTypes DEF Envelope
<1>2. SaveEnvelopeOnly(e) /\ rows' = res
  BY DEF SaveEnvelope
<1> HIDE DEF e
<1>3. /\ envelope' \in Envelope /\ envelope'.version = envelope.version + 1
      /\ envelope'.res = res
  BY <1>1, <1>2, SavedEnvelope
<1> QED
  BY <1>2, <1>3 DEF EnvelopeSaved, ChargeStep

(* The reservations a resumption of o settles.                             *)
Resumed(o, orphaned) ==
    [p \in Ops |->
       IF p \notin Turns THEN envelope.res[p]
       ELSE IF Attempt[p] < attempt \/ (p = o /\ orphaned)
            THEN Released(envelope.res[p])
       ELSE IF p = o /\ o \in sent
            THEN Committed(envelope.res[p], envelope.res[p].amount)
       ELSE envelope.res[p]]

LEMMA ResumedSound ==
  ASSUME BudInv, NEW o \in Turns, NEW orphaned \in BOOLEAN
  PROVE  /\ Resumed(o, orphaned) \in Reservations
         /\ \A p \in Ops :
              /\ Moves(p, envelope.res[p], Resumed(o, orphaned)[p])
              /\ Charge(Resumed(o, orphaned)[p]) <= Charge(envelope.res[p])
         /\ \A p \in Ops : p \notin Turns => Resumed(o, orphaned)[p] = envelope.res[p]
<1> DEFINE res == Resumed(o, orphaned)
<1>1. ASSUME NEW p \in Ops
      PROVE  /\ res[p] \in BudgetReservation /\ Moves(p, envelope.res[p], res[p])
             /\ Charge(res[p]) <= Charge(envelope.res[p])
             /\ p \notin Turns => res[p] = envelope.res[p]
  <2> DEFINE r == envelope.res[p]
  <2>1. /\ r \in BudgetReservation /\ r.amount \in Nat
        /\ ~Settlement(r) => r.used = 0
    BY BudgetTypes, ResTypes
  <2>2. \/ res[p] = r
        \/ p \in Turns /\ res[p] = Released(r)
        \/ p \in Turns /\ res[p] = Committed(r, r.amount)
    BY DEF Resumed
  <2> HIDE DEF r, res
  <2>3. Committed(r, r.amount) = r \/ r.status = "reserved"
    BY <2>1, MovesFacts
  <2>4. CASE res[p] = r
    BY <2>1, <2>4, MovesFacts DEF r
  <2>5. CASE p \in Turns /\ res[p] = Released(r)
    BY <2>1, <2>5, MovesFacts, ResTypes DEF r
  <2>6. CASE p \in Turns /\ res[p] = Committed(r, r.amount) /\ r.status = "reserved"
    <3>1. r.amount <= r.amount
      BY <2>1
    <3>2. /\ Moves(p, r, Committed(r, r.amount))
          /\ Charge(Committed(r, r.amount)) <= Charge(r)
      BY <2>1, <2>6, <3>1, MovesFacts
    <3>3. Committed(r, r.amount) \in BudgetReservation
      BY <2>1, ResTypes
    <3> QED
      BY <2>6, <3>2, <3>3 DEF r
  <2> QED
    BY <2>2, <2>3, <2>4, <2>5, <2>6
<1>2. res \in Reservations
  BY <1>1 DEF Resumed, Reservations
<1> QED
  BY <1>1, <1>2

LEMMA ResumeTurnStep ==
  ASSUME BudInv, NEW o \in Turns, NEW prepared \in BOOLEAN, ResumeTurn(o, prepared)
  PROVE  BudInv' /\ BudgetStep
<1> DEFINE orphaned == prepared /\ o \notin sent
           res == Resumed(o, orphaned)
<1>1. /\ o \in Ops /\ o \notin Tools /\ attempt \in Nat /\ inv \in [Tools -> InvStatus]
      /\ "none" \in Result /\ "idle" \in OpPc \ {"reserve", "save"}
      /\ envelope \in Envelope /\ ops \in [Ops -> Op]
      /\ sent \subseteq Ops /\ waived \subseteq Tools
  BY TurnFacts DEF BudInv, TypeOK, Result, OpPc
<1>2. /\ IF res # envelope.res THEN SaveEnvelope(envelope, res) ELSE BudgetUnchanged
      /\ attempt' = IF orphaned THEN attempt + 1 ELSE attempt
      /\ ops' = [Moved(o, "idle") EXCEPT ![o].result = "none"]
      /\ inv' = inv /\ sent' = sent /\ waived' = waived
  BY DEF ResumeTurn, Resumed, HistoryUnchanged
<1>3. /\ res \in Reservations
      /\ \A p \in Ops : /\ Moves(p, envelope.res[p], res[p])
                        /\ Charge(res[p]) <= Charge(envelope.res[p])
      /\ \A p \in Ops : p \notin Turns => res[p] = envelope.res[p]
  BY ResumedSound
<1>4. PICK new \in Op :
        /\ ops' = [ops EXCEPT ![o] = new] /\ CopyStep(o)
        /\ ops'[o].pc = "idle" /\ ops'[o].result = "none"
        /\ ops'[o].expected = ops[o].expected /\ ops'[o].amount = ops[o].amount
  BY <1>1, <1>2, MovedResult
<1>5. attempt' \in Nat
  BY <1>1, <1>2
<1> HIDE DEF res, orphaned
<1>6. /\ BudgetStep /\ rows' \in Reservations /\ RowsStep
      /\ \A p \in Tools : envelope'.res[p] = envelope.res[p]
  <2>1. \A p \in Tools : p \in Ops /\ p \notin Turns
    BY ToolFacts
  <2>2. CASE res = envelope.res
    BY <1>2, <2>2, Unchanging DEF BudgetUnchanged
  <2>3. CASE res # envelope.res
    <3>1. EnvelopeSaved /\ envelope'.res = res /\ rows' = res
      BY <1>2, <1>3, <2>3, ManySaved
    <3> QED
      BY <1>3, <2>1, <3>1 DEF BudgetStep, RowsStep
  <2> QED
    BY <2>2, <2>3
<1>7. TypeOK'
  <2>1. envelope' \in Envelope
    BY <1>1, <1>6 DEF BudgetStep, EnvelopeSaved
  <2>2. ops' \in [Ops -> Op]
    BY <1>1, <1>4
  <2> QED
    BY <1>1, <1>2, <1>5, <1>6, <2>1, <2>2 DEF TypeOK, InvStatus
<1>8. \A p \in Ops : p # o => ops'[p] = ops[p]
  BY <1>1, <1>4
<1>9. \A p \in Ops : CopyStep(p)
  BY <1>4, <1>8 DEF CopyStep
<1>10. ASSUME NEW p \in Tools PROVE ToolSound(p)'
  <2>1. p # o /\ p \in Ops
    BY <1>1, ToolFacts
  <2>2. ToolUnmoved(p)
    BY <2>1, <1>2, <1>6, <1>8 DEF ToolUnmoved
  <2> QED
    BY <2>2, <1>6, ToolKept
<1>11. ToolsSound'
  BY <1>10 DEF ToolsSound
<1> QED
  BY <1>6, <1>7, <1>9, <1>11, Frame

-----------------------------------------------------------------------------
(* The invariant is inductive.                                             *)

LEMMA BudInit ==
  ASSUME Init
  PROVE  BudInv
<1> DEFINE first(o) == [pc |-> "idle", seen |-> FirstEnvelope, expected |-> 0,
                        approved |-> 0, amount |-> Cost[o], tries |-> 0, runs |-> 0,
                        result |-> "none"]
<1>1. /\ envelope = FirstEnvelope /\ rows = FirstEnvelope.res
      /\ ops = [o \in Ops |-> first(o)] /\ inv = [o \in Tools |-> "none"]
      /\ attempt = 0 /\ sent = {} /\ waived = {}
  BY DEF Init
<1>2. \A o \in Ops : first(o) \in Op
  BY FirstTypes, BudgetAssumption DEF Op, Result
<1>3. \A o \in Ops : /\ first(o).pc = "idle" /\ first(o).seen = FirstEnvelope
                     /\ first(o).amount = Cost[o]
  OBVIOUS
<1> HIDE DEF first
<1>4. TypeOK
  <2>1. FirstEnvelope.res \in Reservations
    BY FirstTypes, EnvelopeTypes
  <2> QED
    BY <1>1, <1>2, <2>1, FirstTypes DEF TypeOK
<1>5. \A o \in Ops : /\ envelope.res[o] = NoReservation /\ rows[o] = NoReservation
                     /\ ops[o].pc = "idle" /\ ops[o].seen = FirstEnvelope
                     /\ ops[o].amount = Cost[o]
  BY <1>1, <1>3, FirstTypes
<1>6. CopiesSound /\ RowsSound /\ UseSound
  BY <1>1, <1>5 DEF CopiesSound, CopySound, RowsSound, UseSound, NoReservation, Settlement
<1>7. ToolsSound
  <2>1. \A o \in Tools : o \in Ops /\ inv[o] = "none"
    BY <1>1 DEF Ops
  <2> QED
    BY <1>1, <1>5, <2>1 DEF ToolsSound, ToolSound, NoReservation
<1> QED
  BY <1>4, <1>6, <1>7 DEF BudInv

LEMMA ToolStepKeeps ==
  ASSUME BudInv, NEW o \in Tools, ToolStep(o)
  PROVE  BudInv' /\ BudgetStep
BY AdmitStep, AdmitConflictStep, StopStep, AdjustStep, RecordReuseStep, RefuseReuseStep,
   ToolEndsStep, SettleMirrorStep, SettleParkStep, SettleSaveStep DEF ToolStep

LEMMA TurnStepKeeps ==
  ASSUME BudInv, NEW o \in Turns, TurnStep(o)
  PROVE  BudInv' /\ BudgetStep
BY ReserveTurnStep, TurnEndsStep, TurnKeptStep, TurnSavedStep, RerunStep DEF TurnStep

LEMMA AnalystStepKeeps ==
  ASSUME BudInv, AnalystStep
  PROVE  BudInv' /\ BudgetStep
BY ResumeTurnStep, ResumeToolsStep, ResumeProofStep, SealAdvisorStep, ReconcileStep,
   ExtendStep, RevokeStep, PropagateRevocationStep DEF AnalystStep

LEMMA BudNext ==
  ASSUME BudInv, Next
  PROVE  BudInv' /\ BudgetStep
BY ToolStepKeeps, TurnStepKeeps, AnalystStepKeeps, ReadStep, SendStep, SettleReadStep,
   SettleConflictStep, CrashStep DEF Next

LEMMA BudStutter ==
  ASSUME BudInv, UNCHANGED vars
  PROVE  BudInv' /\ BudgetStep
<1>1. UNCHANGED <<envelope, rows, inv, ops, attempt, sent, waived>>
  BY DEF vars
<1>2. BudgetStep
  BY <1>1 DEF BudgetStep
<1>3. TypeOK' /\ RowsStep /\ \A o \in Ops : CopyStep(o)
  BY <1>1 DEF BudInv, TypeOK, RowsStep, RowsSound, CopyStep
<1>4. ASSUME NEW o \in Tools PROVE ToolSound(o)'
  BY <1>1, <1>2, ToolKept DEF ToolUnmoved
<1>5. ToolsSound'
  BY <1>4 DEF ToolsSound
<1> QED
  BY <1>2, <1>3, <1>5, Frame

(* The canonical budget is read and saved soundly whatever turns, tools,   *)
(* crashes, resumptions and decisions interleave.                          *)
THEOREM BudgetInvariant == Spec => []BudInv
<1>1. Init => BudInv
  BY BudInit
<1>2. BudInv /\ [Next]_vars => BudInv'
  BY BudNext, BudStutter
<1> QED
  BY <1>1, <1>2, PTL DEF Spec

(* The records of the investigation keep their types.                      *)
THEOREM BudgetIsTyped == Spec => []TypeOK
<1>1. BudInv => TypeOK
  BY DEF BudInv
<1> QED
  BY <1>1, BudgetInvariant, PTL

(* A tool request that reached a provider stays charged unless an analyst  *)
(* declared it not executed: results, crashes and resumptions settle it    *)
(* from envelopes in which it is reserved or committed.                    *)
THEOREM SentToolsStayCharged == Spec => []ToolsStayCharged
<1>1. BudInv => ToolsStayCharged
  BY DEF BudInv, ToolsSound, ToolSound, ToolsStayCharged
<1> QED
  BY <1>1, BudgetInvariant, PTL

(* A closed invocation holds no reservation.                               *)
THEOREM ClosedToolsHoldNothing == Spec => []NoStrandedReservation
<1>1. BudInv => NoStrandedReservation
  BY DEF BudInv, ToolsSound, ToolSound, NoStrandedReservation
<1> QED
  BY <1>1, BudgetInvariant, PTL

(* Only Send adds to what was sent.                                        *)
LEMMA OnlySendSends ==
  ASSUME Next, NEW o \in sent', o \notin sent
  PROVE  Send(o)
<1>1. ASSUME NEW p \in Tools, ToolStep(p) PROVE FALSE
  <2> USE DEF HistoryUnchanged
  <2>1. sent' = sent
    BY <1>1 DEF ToolStep, Admit, AdmitConflict, StopBeforeDispatch, Adjust, RecordReuse,
                RefuseReuse, ToolEnds, SettleMirror, SettlePark, SettleSave
  <2> QED
    BY <2>1
<1>2. ASSUME NEW p \in Turns, TurnStep(p) PROVE FALSE
  <2>1. sent' = sent
    BY <1>2 DEF HistoryUnchanged, TurnStep, ReserveTurn, TurnEnds, TurnKept, TurnSaved,
                AfterTurn, Rerun
  <2> QED
    BY <2>1
<1>3. ASSUME AnalystStep PROVE FALSE
  <2>1. sent' = sent
    BY <1>3 DEF HistoryUnchanged, AnalystStep, ResumeTurn, ResumeTools, ResumeProof,
                SealAdvisor, Reconcile, Extend, Revoke, PropagateRevocation
  <2> QED
    BY <2>1
<1>4. ASSUME NEW p \in Ops, Read(p) \/ SettleRead(p) \/ SettleConflict(p) \/ Crash(p)
      PROVE  FALSE
  <2>1. sent' = sent
    BY <1>4 DEF HistoryUnchanged, Read, SettleRead, SettleConflict, Crash
  <2> QED
    BY <2>1
<1>5. ASSUME NEW p \in Ops, Send(p) PROVE Send(o)
  <2>1. sent' = sent \union {p}
    BY <1>5 DEF Send
  <2>2. o = p
    BY <2>1
  <2> QED
    BY <1>5, <2>2
<1> QED
  BY <1>1, <1>2, <1>3, <1>4, <1>5 DEF Next

(* What a tool sends is funded, although the coordinator reads the amount  *)
(* from rows that may be behind the envelope.                              *)
THEOREM SendsAreFunded == Spec => FundedSend
<1>1. BudInv /\ [Next]_vars =>
        [\A o \in (sent' \ sent) \intersect Tools :
            envelope.res[o] = Reserved(ops[o].amount)]_vars
  BY OnlySendSends, SendIsFunded DEF vars
<1> QED
  BY <1>1, BudgetInvariant, PTL DEF Spec, FundedSend

(* A settled reservation is never active again, a released one is never    *)
(* charged, and a charge is given back only for what was never sent.       *)
THEOREM SettledStays == Spec => SettlementIsFinal
<1> DEFINE Final ==
        \A o \in Ops :
          /\ envelope.res[o].status \in {"committed", "released"} =>
                envelope'.res[o].status # "reserved"
          /\ envelope.res[o].status = "released" => envelope'.res[o] = envelope.res[o]
          /\ envelope.res[o].status = "committed" /\ o \in sent =>
                envelope'.res[o] = envelope.res[o]
<1>1. BudgetStep => Final
  <2>1. CASE envelope' = envelope
    BY <2>1
  <2>2. CASE EnvelopeSaved
    BY <2>2 DEF EnvelopeSaved, Moves, Settlement
  <2> QED
    BY <2>1, <2>2 DEF BudgetStep
<1>2. BudInv /\ [Next]_vars => BudgetStep
  BY BudNext, BudStutter
<1>3. BudInv /\ [Next]_vars => [Final]_vars
  BY <1>1, <1>2
<1> QED
  BY <1>3, BudgetInvariant, PTL DEF Spec, SettlementIsFinal

LEMMA FiniteOps == IsFiniteSet(Ops) /\ \A d : IsFiniteSet({o \in Ops : Dim[o] = d})
<1>1. IsFiniteSet(Ops)
  BY BudgetAssumption, FS_Union DEF Ops
<1>2. ASSUME NEW d PROVE IsFiniteSet({o \in Ops : Dim[o] = d})
  <2>1. {o \in Ops : Dim[o] = d} \subseteq Ops
    OBVIOUS
  <2> QED
    BY <1>1, <2>1, FS_Subset
<1> QED
  BY <1>1, <1>2

(* What a saved envelope charges beyond the one before fits its limit.     *)
LEMMA ChargesFit ==
  ASSUME BudInv, EnvelopeSaved, NEW d \in Dims,
         Spent(envelope'.res, d) > Spent(envelope.res, d)
  PROVE  Spent(envelope'.res, d) <= envelope'.limits[d]
<1> DEFINE S == {o \in Ops : Dim[o] = d}
           f == [o \in Ops |-> Charge(envelope.res[o])]
           g == [o \in Ops |-> Charge(envelope'.res[o])]
<1>1. IsFiniteSet(S) /\ S \subseteq Ops
  BY FiniteOps
<1>2. \A o \in S : /\ f[o] = Charge(envelope.res[o]) /\ g[o] = Charge(envelope'.res[o])
                   /\ f[o] \in Nat /\ g[o] \in Nat
  BY BudgetTypes, ResTypes DEF EnvelopeSaved, Moves
<1>3. Spent(envelope.res, d) = SumFunctionOnSet(f, S)
  BY DEF Spent
<1>4. Spent(envelope'.res, d) = SumFunctionOnSet(g, S)
  BY DEF Spent
<1> HIDE DEF S, f, g
<1>5. CASE \A o \in Ops : Charge(envelope'.res[o]) <= Charge(envelope.res[o])
  <2>1. \A o \in S : g[o] \in Nat /\ f[o] \in Nat /\ g[o] <= f[o]
    BY <1>1, <1>2, <1>5
  <2>2. /\ SumFunctionOnSet(f, S) \in Nat /\ SumFunctionOnSet(g, S) \in Nat
        /\ SumFunctionOnSet(g, S) <= SumFunctionOnSet(f, S)
    BY <1>1, <2>1, SumCompared
  <2> QED
    BY <1>3, <1>4, <2>2
<1>6. ASSUME NEW o \in Ops, Fits(envelope, o, Charge(envelope'.res[o])),
             \A p \in Ops : p # o => envelope'.res[p] = envelope.res[p],
             envelope'.limits = envelope.limits
      PROVE  Spent(envelope'.res, d) <= envelope'.limits[d]
  <2>1. \A p \in S : p # o => g[p] = f[p]
    BY <1>1, <1>2, <1>6
  <2>2. CASE Dim[o] = d
    <3>1. o \in S
      BY <2>2 DEF S
    <3>2. SumFunctionOnSet(g, S) = SumFunctionOnSet(f, S) - f[o] + g[o]
      <4>1. \A x \in S : f[x] \in Nat /\ g[x] \in Nat
        BY <1>2
      <4>2. IsFiniteSet(S)
        BY <1>1
      <4> QED
        BY <2>1, <3>1, <4>1, <4>2, SumChanges
    <3>3. Spent(envelope.res, d) - Charge(envelope.res[o]) + Charge(envelope'.res[o])
            <= envelope.limits[d]
      BY <1>6, <2>2 DEF Fits
    <3> QED
      BY <1>2, <1>3, <1>4, <1>6, <3>1, <3>2, <3>3
  <2>3. CASE Dim[o] # d
    <3>1. o \notin S
      BY <2>3 DEF S
    <3>2. \A p \in S : f[p] \in Nat /\ g[p] = f[p]
      BY <1>2, <2>1, <3>1
    <3>3. SumFunctionOnSet(g, S) = SumFunctionOnSet(f, S)
      BY <1>1, <3>2, SumSame
    <3>4. SumFunctionOnSet(f, S) \in Nat
      BY <1>1, <1>2, SumCompared
    <3> QED
      BY <1>3, <1>4, <3>3, <3>4
  <2> QED
    BY <2>2, <2>3
<1> QED
  BY <1>5, <1>6 DEF EnvelopeSaved, ChargeStep

(* No step charges a dimension beyond the limit of the envelope it saves.  *)
THEOREM NothingOvercommits == Spec => NoOvercommit
<1> DEFINE Within ==
        envelope' # envelope =>
          \A d \in Dims : Spent(envelope'.res, d) > Spent(envelope.res, d)
              => Spent(envelope'.res, d) <= envelope'.limits[d]
<1>1. BudInv /\ BudgetStep => Within
  BY ChargesFit DEF BudgetStep
<1>2. BudInv /\ [Next]_vars => BudgetStep
  BY BudNext, BudStutter
<1>3. BudInv /\ [Next]_vars => [Within]_vars
  BY <1>1, <1>2
<1> QED
  BY <1>3, BudgetInvariant, PTL DEF Spec, NoOvercommit

-----------------------------------------------------------------------------
(* Bridge turns.  The coordinator asks the rows and the settlement asks    *)
(* how the run ended, so what a sent turn keeps rests on two checks.       *)

(* A turn that an earlier run sent is not ended as stopped                 *)
(* (investigation_service.py:1164).                                        *)
StopsUnsent == \A o \in Turns : TurnEnds(o, "blocked") => o \notin sent

(* The rows alone are only repeated from the envelope as it is             *)
(* (investigation_service.py:4621).                                        *)
MirrorsCurrent == \A o \in Tools : SettleMirror(o) => Current(o)

(* The key of a turn carries its attempt.                                  *)
OneKeyPerAttempt == \A o, p \in Turns : Attempt[o] = Attempt[p] => o = p

TurnRows == \A o \in Turns : rows[o] = envelope.res[o]

AtWork == {"reserve", "admitted", "sent", "settle", "save"}

(* A turn at work is of the current attempt, and so is one that was sent:  *)
(* an attempt is only superseded when nothing was sent for it.             *)
TurnSound(o) ==
    /\ ops[o].pc \in AtWork => Attempt[o] = attempt
    /\ o \in sent => /\ Attempt[o] = attempt
                     /\ envelope.res[o].status \in {"reserved", "committed"}
    /\ ops[o].pc \in {"settle", "save"} /\ ops[o].result \in {"blocked", "exhausted"} =>
         o \notin sent
TurnsSound == \A o \in Turns : TurnSound(o)

(* What a step of another operation leaves of a turn.                      *)
BudgetSpares(o) ==
    /\ envelope'.res[o] = envelope.res[o]
    /\ rows'[o] = rows[o] \/ rows'[o] = envelope.res[o]

LEMMA SavedRes ==
  ASSUME BudInv
  PROVE  /\ \A res : SaveEnvelope(envelope, res) => envelope'.res = res /\ rows' = res
         /\ \A o \in Ops : \A s : SaveEnvelopeOnly([envelope EXCEPT !.res[o] = s]) =>
              envelope'.res = [envelope.res EXCEPT ![o] = s]
BY BudgetTypes DEF SaveEnvelope, SaveEnvelopeOnly, Envelope

LEMMA SparedBySave ==
  ASSUME BudInv, NEW o \in Ops, NEW p \in Ops, o # p, NEW s,
         SaveEnvelope(envelope, [envelope.res EXCEPT ![p] = s])
  PROVE  BudgetSpares(o)
<1>1. /\ envelope'.res = [envelope.res EXCEPT ![p] = s]
      /\ rows' = [envelope.res EXCEPT ![p] = s] /\ envelope.res \in [Ops -> BudgetReservation]
  BY SavedRes, BudgetTypes DEF Reservations
<1> QED
  BY <1>1 DEF BudgetSpares

LEMMA SparedUnchanged ==
  ASSUME BudgetUnchanged, NEW o
  PROVE  BudgetSpares(o)
BY DEF BudgetUnchanged, BudgetSpares

(* Tools leave the turns alone.                                            *)
LEMMA ToolSpares ==
  ASSUME BudInv, MirrorsCurrent, NEW p \in Tools, ToolStep(p), NEW o \in Turns
  PROVE  BudgetSpares(o)
<1>1. o \in Ops /\ p \in Ops /\ o # p /\ rows \in [Ops -> BudgetReservation]
      /\ envelope.res \in [Ops -> BudgetReservation]
  BY TurnFacts, ToolFacts, BudgetTypes DEF Reservations
<1>2. CASE Admit(p)
  <2>1. ops[p].seen = envelope /\ SaveEnvelope(envelope, WithReservation(envelope, p))
    BY <1>1, <1>2, CurrentCopy DEF Admit, At
  <2>2. CASE WithReservation(envelope, p) = envelope.res
    BY <2>1, <2>2, SavedRes DEF BudgetSpares
  <2>3. CASE WithReservation(envelope, p) = [envelope.res EXCEPT ![p] = Reserved(Cost[p])]
    BY <1>1, <2>1, <2>3, SparedBySave
  <2> QED
    BY <2>2, <2>3 DEF WithReservation
<1>3. CASE AdmitConflict(p) \/ SettlePark(p) \/ \E x \in {"success", "failed", "refused",
                                                     "uncertain"} : ToolEnds(p, x)
  BY <1>3, SparedUnchanged DEF AdmitConflict, SettlePark, ToolEnds
<1>4. CASE StopBeforeDispatch(p)
  BY <1>1, <1>4, SparedBySave DEF StopBeforeDispatch
<1>5. ASSUME NEW amount, Adjust(p, amount) PROVE BudgetSpares(o)
  <2>1. [envelope.res EXCEPT ![p].amount = amount]
          = [envelope.res EXCEPT ![p] = [envelope.res[p] EXCEPT !.amount = amount]]
    BY <1>1
  <2> QED
    BY <1>1, <1>5, <2>1, SparedBySave DEF Adjust
<1>6. CASE RecordReuse(p)
  BY <1>1, <1>6 DEF RecordReuse, BudgetSpares
<1>7. CASE RefuseReuse(p)
  <2>1. envelope'.res = [envelope.res EXCEPT ![p] = Released(@)]
    BY <1>1, <1>7, SavedRes DEF RefuseReuse
  <2> QED
    BY <1>1, <1>7, <2>1 DEF RefuseReuse, BudgetSpares
<1>8. CASE SettleMirror(p)
  <2>1. Current(p) /\ ops[p].pc = "save"
    BY <1>8 DEF MirrorsCurrent, SettleMirror, At
  <2>2. ops[p].seen = envelope
    BY <1>1, <2>1, CurrentCopy
  <2> QED
    BY <1>8, <2>2 DEF SettleMirror, BudgetSpares
<1>9. ASSUME NEW used, SettleSave(p, used) PROVE BudgetSpares(o)
  <2>1. ops[p].seen = envelope
    BY <1>1, <1>9, CurrentCopy DEF SettleSave, At
  <2> QED
    BY <1>1, <1>9, <2>1, SparedBySave DEF SettleSave
<1> QED
  BY <1>2, <1>3, <1>4, <1>5, <1>6, <1>7, <1>8, <1>9 DEF ToolStep

(* So do decisions about tools and about the envelope.                     *)
LEMMA DecisionSpares ==
  ASSUME BudInv, NEW o \in Turns,
         \/ ResumeTools \/ Revoke \/ PropagateRevocation
         \/ \E p \in Tools : \/ ResumeProof(p) \/ SealAdvisor(p)
                             \/ \E executed \in BOOLEAN : Reconcile(p, executed)
         \/ \E limits \in [Dims -> 0..MaxLimit] : Extend(limits)
  PROVE  BudgetSpares(o)
<1>1. /\ o \in Ops /\ envelope.res \in [Ops -> BudgetReservation] /\ envelope \in Envelope
      /\ \A p \in Tools : p \in Ops /\ o # p
  BY TurnFacts, ToolFacts, BudgetTypes DEF Reservations
<1>2. CASE ResumeTools
  BY <1>2, SparedUnchanged DEF ResumeTools
<1>3. CASE Revoke \/ PropagateRevocation \/ \E limits \in [Dims -> 0..MaxLimit] : Extend(limits)
  BY <1>1, <1>3 DEF Revoke, PropagateRevocation, Extend, SaveEnvelopeOnly, BudgetSpares,
     Envelope
<1>4. ASSUME NEW p \in Tools, ResumeProof(p) PROVE BudgetSpares(o)
  <2>1. CASE rows' = envelope.res /\ UNCHANGED envelope
    BY <2>1 DEF BudgetSpares
  <2>2. CASE SaveEnvelope(envelope, [envelope.res EXCEPT ![p] = ReleasedConfirmed(@)])
    BY <1>1, <2>2, SparedBySave
  <2> QED
    BY <1>4, <2>1, <2>2 DEF ResumeProof
<1>5. ASSUME NEW p \in Tools, SealAdvisor(p) PROVE BudgetSpares(o)
  <2>1. \/ envelope' = envelope
        \/ envelope'.res = [envelope.res EXCEPT ![p] = ReleasedConfirmed(@)]
    BY <1>1, <1>5, SavedRes DEF SealAdvisor
  <2> QED
    BY <1>1, <1>5, <2>1 DEF SealAdvisor, BudgetSpares
<1>6. ASSUME NEW p \in Tools, NEW executed \in BOOLEAN, Reconcile(p, executed)
      PROVE  BudgetSpares(o)
  BY <1>1, <1>6, SparedBySave DEF Reconcile
<1> QED
  BY <1>2, <1>3, <1>4, <1>5, <1>6

(* What a step leaves of the coroutine of a turn.                          *)
OpSpares(o) == ops'[o] = ops[o] /\ attempt' = attempt /\ sent' = sent

LEMMA MovedSpares ==
  ASSUME BudInv, NEW o \in Ops, NEW p \in Ops, o # p
  PROVE  /\ \A e \in OpPc : Goto(p, e) => ops'[o] = ops[o]
         /\ \A e \in OpPc : \A x : ops' = [Moved(p, e) EXCEPT ![p].result = x] => ops'[o] = ops[o]
         /\ Reread(p) => ops'[o] = ops[o]
         /\ ops' = Authority(p) => ops'[o] = ops[o]
BY BudgetTypes DEF Goto, Moved, Reread, Authority

LEMMA ToolOpSpares ==
  ASSUME BudInv, NEW p \in Tools, ToolStep(p), NEW o \in Turns
  PROVE  OpSpares(o)
<1>1. o \in Ops /\ p \in Ops /\ o # p /\ ops \in [Ops -> Op]
  BY TurnFacts, ToolFacts, BudgetTypes
<1>2. {"admitted", "sent", "settle", "review", "done", "lost"} \subseteq OpPc
  BY DEF OpPc
<1>3. CASE Admit(p) \/ AdmitConflict(p) \/ StopBeforeDispatch(p)
  BY <1>1, <1>2, <1>3, MovedSpares DEF Admit, AdmitConflict, StopBeforeDispatch, OpSpares,
     HistoryUnchanged
<1>4. CASE \E amount \in 0..MaxLimit : Adjust(p, amount)
  BY <1>1, <1>4 DEF Adjust, OpSpares, HistoryUnchanged
<1>5. CASE RecordReuse(p) \/ RefuseReuse(p)
           \/ \E result \in {"success", "failed", "refused", "uncertain"} : ToolEnds(p, result)
  BY <1>1, <1>2, <1>5, MovedSpares DEF RecordReuse, RefuseReuse, ToolEnds, OpSpares,
     HistoryUnchanged
<1>6. CASE SettleMirror(p) \/ SettlePark(p) \/ \E used \in 0..MaxLimit : SettleSave(p, used)
  <2>1. sent' = sent /\ attempt' = attempt /\ \E e \in OpPc : Goto(p, e)
    BY <1>2, <1>6 DEF SettleMirror, SettlePark, SettleSave, HistoryUnchanged
  <2> QED
    BY <1>1, <2>1, MovedSpares DEF OpSpares
<1> QED
  BY <1>3, <1>4, <1>5, <1>6 DEF ToolStep

LEMMA DecisionOpSpares ==
  ASSUME NEW o \in Turns,
         \/ ResumeTools \/ Revoke \/ PropagateRevocation
         \/ \E p \in Tools : \/ ResumeProof(p) \/ SealAdvisor(p)
                             \/ \E executed \in BOOLEAN : Reconcile(p, executed)
         \/ \E limits \in [Dims -> 0..MaxLimit] : Extend(limits)
  PROVE  OpSpares(o)
BY DEF OpSpares, HistoryUnchanged, ResumeTools, Revoke, PropagateRevocation, ResumeProof,
   SealAdvisor, Reconcile, Extend

LEMMA TurnSpared ==
  ASSUME NEW o \in Turns, BudgetSpares(o), OpSpares(o)
  PROVE  /\ TurnSound(o) => TurnSound(o)'
         /\ rows[o] = envelope.res[o] => rows'[o] = envelope'.res[o]
BY DEF BudgetSpares, OpSpares, TurnSound

(* The steps of coroutines that save nothing, for any operation.           *)
LEMMA IdleSpares ==
  ASSUME BudInv, NEW p \in Ops, Read(p) \/ SettleRead(p) \/ SettleConflict(p) \/ Crash(p),
         NEW o \in Turns
  PROVE  /\ BudgetSpares(o) /\ attempt' = attempt /\ sent' = sent
         /\ o # p => ops'[o] = ops[o]
         /\ o = p => /\ ops'[o].pc \in AtWork => ops[o].pc \in AtWork \/ Attempt[o] = attempt
                     /\ ops'[o].pc \in {"settle", "save"} =>
                          ops[o].pc \in {"settle", "save"} /\ ops'[o].result = ops[o].result
<1>1. o \in Ops /\ ops \in [Ops -> Op] /\ ops[o] \in Op /\ ops[p] \in Op
  BY TurnFacts, BudgetTypes
<1>2. "lost" \in OpPc
  BY DEF OpPc
<1>3. BudgetSpares(o) /\ attempt' = attempt /\ sent' = sent
  BY SparedUnchanged DEF Read, SettleRead, SettleConflict, Crash, HistoryUnchanged
<1>4. CASE Goto(p, "lost")
  <2>1. o = p => ops'[o].pc = "lost"
    BY <1>1, <1>2, <1>4, MovedTypes DEF Goto
  <2> QED
    BY <1>2, <1>3, <1>4, <1>1, <2>1, MovedSpares DEF AtWork
<1>5. CASE Read(p)
  BY <1>1, <1>3, <1>5 DEF Read, AtWork, Op
<1>6. CASE At(p, "settle") /\ ops' = [ops EXCEPT ![p].pc = "save", ![p].seen = envelope]
  BY <1>1, <1>3, <1>6 DEF At, AtWork, Op
<1>7. CASE Reread(p)
  BY <1>1, <1>3, <1>7 DEF Reread, AtWork, Op
<1> QED
  BY <1>4, <1>5, <1>6, <1>7 DEF SettleRead, SettleConflict, Crash

-----------------------------------------------------------------------------
(* The turns themselves.                                                   *)
TurnsInv == BudInv /\ TurnsSound

LEMMA TurnIdle ==
  ASSUME TurnsInv, NEW p \in Ops, Read(p) \/ SettleRead(p) \/ SettleConflict(p) \/ Crash(p)
  PROVE  TurnsSound'
<1> SUFFICES ASSUME NEW o \in Turns PROVE TurnSound(o)'
  BY DEF TurnsSound
<1>1. /\ TurnSound(o) /\ BudgetSpares(o) /\ attempt' = attempt /\ sent' = sent
      /\ o # p => ops'[o] = ops[o]
  BY IdleSpares DEF TurnsInv, TurnsSound
<1>2. CASE o # p
  BY <1>1, <1>2, TurnSpared DEF OpSpares
<1>3. CASE o = p
  <2>1. /\ ops'[o].pc \in AtWork => ops[o].pc \in AtWork \/ Attempt[o] = attempt
        /\ ops'[o].pc \in {"settle", "save"} =>
             ops[o].pc \in {"settle", "save"} /\ ops'[o].result = ops[o].result
    BY <1>3, IdleSpares DEF TurnsInv
  <2> QED
    BY <1>1, <2>1 DEF TurnSound, BudgetSpares
<1> QED
  BY <1>2, <1>3

(* A turn is sent with an active reservation: the coordinator read rows    *)
(* that repeat the envelope.                                               *)
LEMMA TurnFunded ==
  ASSUME BudInv, TurnRows, NEW o \in Turns, Send(o)
  PROVE  envelope.res[o] = Reserved(ops[o].amount)
<1>1. o \notin Tools
  BY TurnFacts
<1> QED
  BY <1>1 DEF Send, Consumable, TurnRows

LEMMA TurnSend ==
  ASSUME TurnsInv, TurnRows, NEW p \in Ops, Send(p)
  PROVE  TurnsSound'
<1> SUFFICES ASSUME NEW o \in Turns PROVE TurnSound(o)'
  BY DEF TurnsSound
<1>1. /\ TurnSound(o) /\ BudInv /\ o \in Ops /\ BudgetSpares(o) /\ attempt' = attempt
      /\ sent' = sent \union {p} /\ Goto(p, "sent") /\ At(p, "admitted") /\ "sent" \in OpPc
      /\ ops \in [Ops -> Op]
  BY SparedUnchanged, TurnFacts, BudgetTypes DEF Send, TurnsInv, TurnsSound, OpPc
<1>2. CASE o # p
  <2>1. ops'[o] = ops[o] /\ (o \in sent' <=> o \in sent)
    BY <1>1, <1>2, MovedSpares
  <2> QED
    BY <1>1, <2>1 DEF TurnSound, BudgetSpares
<1>3. CASE o = p
  <2>1. ops'[o].pc = "sent"
    BY <1>1, <1>3, MovedTypes DEF Goto
  <2>2. envelope.res[o].status = "reserved"
    <3>1. Send(o)
      BY <1>3
    <3>2. envelope.res[o] = Reserved(ops[o].amount)
      BY <1>1, <3>1, TurnFunded
    <3> QED
      BY <3>2 DEF Reserved
  <2> QED
    BY <1>1, <1>3, <2>1, <2>2 DEF TurnSound, BudgetSpares, At, AtWork
<1> QED
  BY <1>2, <1>3

(* The budget of a turn, after a step of that turn.                        *)
LEMMA TurnOwn ==
  ASSUME TurnsInv, NEW p \in Turns, sent' = sent, attempt' = attempt,
         \A q \in Turns : q # p => BudgetSpares(q) /\ ops'[q] = ops[q],
         ops'[p].pc \in AtWork => ops[p].pc \in AtWork,
         ops'[p].pc \in {"settle", "save"} /\ ops'[p].result \in {"blocked", "exhausted"} =>
           p \notin sent,
         p \in sent => envelope'.res[p].status \in {"reserved", "committed"}
  PROVE  TurnsSound'
<1> SUFFICES ASSUME NEW o \in Turns PROVE TurnSound(o)'
  BY DEF TurnsSound
<1>1. TurnSound(o)
  BY DEF TurnsInv, TurnsSound
<1>2. CASE o # p
  BY <1>1, <1>2, TurnSpared DEF OpSpares
<1>3. CASE o = p
  BY <1>1, <1>3 DEF TurnSound
<1> QED
  BY <1>2, <1>3

LEMMA TurnReserves ==
  ASSUME TurnsInv, NEW p \in Turns, ReserveTurn(p)
  PROVE  TurnsSound'
<1>1. /\ BudInv /\ p \in Ops /\ ops \in [Ops -> Op] /\ ops[p].pc = "reserve" /\ TurnSound(p)
      /\ envelope.res \in [Ops -> BudgetReservation] /\ sent' = sent /\ attempt' = attempt
      /\ \A q \in Turns : q \in Ops
  BY TurnFacts, BudgetTypes DEF TurnsInv, TurnsSound, ReserveTurn, At, HistoryUnchanged,
     Reservations
<1>2. \A q \in Turns : q # p => ops'[q] = ops[q]
  <2>1. {"done", "lost", "admitted"} \subseteq OpPc
    BY DEF OpPc
  <2>2. \/ Goto(p, "done") \/ Goto(p, "lost") \/ ops' = Authority(p)
        \/ ops' = [Moved(p, "admitted") EXCEPT ![p].expected = ops[p].seen.version,
                                              ![p].approved = ops[p].seen.decision]
    BY DEF ReserveTurn
  <2> QED
    BY <1>1, <2>1, <2>2, MovedSpares DEF Moved
<1>3. /\ \A q \in Turns : q # p => BudgetSpares(q)
      /\ p \in sent => envelope'.res[p].status \in {"reserved", "committed"}
  <2>1. CASE BudgetUnchanged
    BY <1>1, <2>1, SparedUnchanged DEF TurnSound, BudgetUnchanged
  <2>2. CASE Current(p) /\ SaveEnvelope(ops[p].seen, WithReservation(ops[p].seen, p))
    <3>1. ops[p].seen = envelope
      BY <1>1, <2>2, CurrentCopy
    <3>2. SaveEnvelope(envelope, WithReservation(envelope, p))
      BY <2>2, <3>1
    <3>3. envelope'.res = WithReservation(envelope, p)
      BY <1>1, <3>2, SavedRes
    <3>4. CASE WithReservation(envelope, p) = envelope.res
      BY <1>1, <3>2, <3>3, <3>4, SavedRes DEF TurnSound, BudgetSpares
    <3>5. CASE WithReservation(envelope, p) = [envelope.res EXCEPT ![p] = Reserved(Cost[p])]
      BY <1>1, <3>2, <3>3, <3>5, SparedBySave DEF Reserved
    <3> QED
      BY <3>4, <3>5 DEF WithReservation
  <2> QED
    BY <2>1, <2>2 DEF ReserveTurn
<1>4. ops'[p].pc \in {"done", "lost", "admitted"}
  <2>1. {"done", "lost", "admitted"} \subseteq OpPc
    BY DEF OpPc
  <2>2. \A e \in OpPc : Moved(p, e)[p].pc = e
    BY <1>1, MovedTypes
  <2>3. CASE Goto(p, "done") \/ Goto(p, "lost")
    BY <2>1, <2>2, <2>3 DEF Goto
  <2>4. CASE ops' = Authority(p)
    BY <1>1, <2>4 DEF Authority, Op
  <2>5. CASE ops' = [Moved(p, "admitted") EXCEPT ![p].expected = ops[p].seen.version,
                                                ![p].approved = ops[p].seen.decision]
    BY <1>1, <2>5 DEF Moved, Op
  <2> QED
    BY <2>3, <2>4, <2>5 DEF ReserveTurn
<1> QED
  BY <1>1, <1>2, <1>3, <1>4, TurnOwn DEF AtWork

LEMMA TurnEnding ==
  ASSUME TurnsInv, StopsUnsent, NEW p \in Turns,
         NEW result \in {"submitted", "blocked", "exhausted", "unresolved"}, TurnEnds(p, result)
  PROVE  TurnsSound'
<1>1. /\ BudInv /\ p \in Ops /\ ops \in [Ops -> Op] /\ ops[p] \in Op /\ TurnSound(p)
      /\ sent' = sent /\ attempt' = attempt /\ BudgetUnchanged
      /\ ops[p].pc \in {"admitted", "sent"} /\ "settle" \in OpPc
      /\ ops' = [Moved(p, "settle") EXCEPT ![p].result = result]
      /\ \A q \in Turns : q \in Ops
  BY TurnFacts, BudgetTypes DEF TurnsInv, TurnsSound, TurnEnds, At, HistoryUnchanged, OpPc
<1>2. \A q \in Turns : q # p => BudgetSpares(q) /\ ops'[q] = ops[q]
  BY <1>1, SparedUnchanged, MovedSpares
<1>3. ops'[p].pc = "settle" /\ ops'[p].result = result
  BY <1>1 DEF Moved, Op
<1>4. result \in {"blocked", "exhausted"} => p \notin sent
  BY DEF StopsUnsent, TurnEnds, At
<1>5. p \in sent => envelope'.res[p].status \in {"reserved", "committed"}
  BY <1>1 DEF TurnSound, BudgetUnchanged
<1> QED
  BY <1>1, <1>2, <1>3, <1>4, <1>5, TurnOwn DEF AtWork

LEMMA TurnSavedSound ==
  ASSUME TurnsInv, NEW p \in Turns, TurnSaved(p)
  PROVE  TurnsSound'
<1>1. /\ BudInv /\ p \in Ops /\ ops \in [Ops -> Op] /\ ops[p].pc = "save" /\ TurnSound(p)
      /\ sent' = sent /\ Goto(p, "done") /\ "done" \in OpPc
      /\ envelope.res \in [Ops -> BudgetReservation]
      /\ \A q \in Turns : q \in Ops
  BY TurnFacts, BudgetTypes DEF TurnsInv, TurnsSound, TurnSaved, AfterTurn, At,
     HistoryUnchanged, OpPc, Reservations
<1>2. attempt' = attempt /\ ops[p].seen = envelope
  BY <1>1, CurrentCopy DEF TurnSaved, TurnSaves, ConfirmedNonSubmission, AfterTurn
<1> DEFINE r == envelope.res[p]
           s == IF ops[p].result = "blocked" THEN Released(r) ELSE Committed(r, r.amount)
<1>3. SaveEnvelope(envelope, [envelope.res EXCEPT ![p] = s]) /\ r.status = "reserved"
  BY <1>2 DEF TurnSaved, TurnSaves
<1>4. ops[p].result # "blocked" => s.status \in {"reserved", "committed"}
  BY <1>1, <1>3 DEF Committed, BudgetReservation
<1> HIDE DEF s
<1>5. envelope'.res[p] = s
  BY <1>1, <1>3, SavedRes
<1>6. \A q \in Turns : q # p => BudgetSpares(q) /\ ops'[q] = ops[q]
  BY <1>1, <1>3, SparedBySave, MovedSpares
<1>7. ops'[p].pc = "done"
  BY <1>1, MovedTypes DEF Goto
<1> QED
  BY <1>1, <1>2, <1>4, <1>5, <1>6, <1>7, TurnOwn DEF TurnSound, AtWork

(* The attempt moves on only when nothing was sent for it.                 *)
LEMMA Superseded ==
  ASSUME TurnsInv, OneKeyPerAttempt, NEW p \in Turns, p \notin sent, Attempt[p] = attempt,
         sent' = sent, \A q \in Turns : q # p => ops'[q] = ops[q],
         ops'[p].pc \notin AtWork, NEW o \in Turns
  PROVE  TurnSound(o)'
<1>1. CASE o = p
  BY <1>1 DEF TurnSound, AtWork
<1>2. CASE o # p
  <2>1. Attempt[o] # attempt /\ TurnSound(o) /\ ops'[o] = ops[o]
    BY <1>2 DEF OneKeyPerAttempt, TurnsInv, TurnsSound
  <2> QED
    BY <2>1 DEF TurnSound, AtWork
<1> QED
  BY <1>1, <1>2

LEMMA TurnRests ==
  ASSUME TurnsInv, OneKeyPerAttempt, NEW p \in Turns, TurnKept(p)
  PROVE  TurnsSound'
<1>1. /\ BudInv /\ p \in Ops /\ ops \in [Ops -> Op] /\ ops[p].pc = "save" /\ TurnSound(p)
      /\ sent' = sent /\ Goto(p, "done") /\ "done" \in OpPc /\ BudgetUnchanged
      /\ \A q \in Turns : q \in Ops
  BY TurnFacts, BudgetTypes DEF TurnsInv, TurnsSound, TurnKept, AfterTurn, At,
     HistoryUnchanged, OpPc
<1>2. /\ ops'[p].pc = "done"
      /\ \A q \in Turns : q # p => BudgetSpares(q) /\ ops'[q] = ops[q]
  BY <1>1, MovedTypes, MovedSpares, SparedUnchanged DEF Goto
<1>3. CASE ops[p].result = "exhausted"
  <2>1. p \notin sent /\ Attempt[p] = attempt
    BY <1>1, <1>3 DEF TurnSound, AtWork
  <2> QED
    BY <1>1, <1>2, <2>1, Superseded DEF TurnsSound, AtWork
<1>4. CASE ops[p].result # "exhausted"
  <2>1. attempt' = attempt
    BY <1>4 DEF TurnKept, AfterTurn
  <2>2. p \in sent => envelope'.res[p].status \in {"reserved", "committed"}
    BY <1>1 DEF TurnSound, BudgetUnchanged
  <2> QED
    BY <1>1, <1>2, <2>1, <2>2, TurnOwn DEF AtWork
<1> QED
  BY <1>3, <1>4

LEMMA TurnAgain ==
  ASSUME TurnsInv, NEW p \in Turns, Rerun(p)
  PROVE  TurnsSound'
<1>1. /\ BudInv /\ p \in Ops /\ ops \in [Ops -> Op] /\ TurnSound(p) /\ "idle" \in OpPc
      /\ sent' = sent /\ attempt' = attempt /\ BudgetUnchanged
      /\ ops' = [Moved(p, "idle") EXCEPT ![p].result = "none"]
      /\ \A q \in Turns : q \in Ops
  BY TurnFacts, BudgetTypes DEF TurnsInv, TurnsSound, Rerun, HistoryUnchanged, OpPc
<1>2. \A q \in Turns : q # p => BudgetSpares(q) /\ ops'[q] = ops[q]
  BY <1>1, SparedUnchanged, MovedSpares
<1>3. ops'[p].pc = "idle"
  BY <1>1 DEF Moved, Op
<1>4. p \in sent => envelope'.res[p].status \in {"reserved", "committed"}
  BY <1>1 DEF TurnSound, BudgetUnchanged
<1> QED
  BY <1>1, <1>2, <1>3, <1>4, TurnOwn DEF AtWork

LEMMA TurnResumes ==
  ASSUME TurnsInv, OneKeyPerAttempt, NEW p \in Turns, NEW prepared \in BOOLEAN,
         ResumeTurn(p, prepared)
  PROVE  TurnsSound'
<1> DEFINE orphaned == prepared /\ p \notin sent
           res == Resumed(p, orphaned)
<1>1. /\ BudInv /\ p \in Ops /\ ops \in [Ops -> Op] /\ TurnSound(p) /\ "idle" \in OpPc
      /\ sent' = sent /\ Attempt[p] = attempt
      /\ ops' = [Moved(p, "idle") EXCEPT ![p].result = "none"]
      /\ attempt' = IF orphaned THEN attempt + 1 ELSE attempt
      /\ IF res # envelope.res THEN SaveEnvelope(envelope, res) ELSE BudgetUnchanged
      /\ attempt \in Nat /\ \A q \in Turns : q \in Ops
  BY TurnFacts, BudgetTypes DEF TurnsInv, TurnsSound, ResumeTurn, Resumed, Pending,
     HistoryUnchanged, OpPc
<1>2. \A q \in Turns : q # p => ops'[q] = ops[q]
  BY <1>1, MovedSpares
<1>3. ops'[p].pc = "idle"
  BY <1>1 DEF Moved, Op
<1>4. CASE orphaned
  BY <1>1, <1>2, <1>3, <1>4, Superseded DEF TurnsSound, AtWork
<1>5. CASE ~orphaned
  <2> SUFFICES ASSUME NEW o \in Turns PROVE TurnSound(o)'
    BY DEF TurnsSound
  <2>1. TurnSound(o) /\ o \in Ops /\ attempt' = attempt
    BY <1>1, <1>5 DEF TurnsInv, TurnsSound
  <2>2. envelope'.res = res
    BY <1>1, SavedRes DEF BudgetUnchanged
  <2>3. o \in sent => res[o].status \in {"reserved", "committed"}
    <3>1. SUFFICES ASSUME o \in sent PROVE res[o].status \in {"reserved", "committed"}
      OBVIOUS
    <3>2. Attempt[o] = attempt /\ envelope.res[o].status \in {"reserved", "committed"}
      BY <2>1, <3>1 DEF TurnSound
    <3>3. \/ res[o] = envelope.res[o]
          \/ res[o] = Committed(envelope.res[o], envelope.res[o].amount)
      BY <1>1, <1>5, <2>1, <3>2 DEF Resumed
    <3>4. PICK r \in BudgetReservation : r = envelope.res[o]
      BY <1>1, <2>1, BudgetTypes
    <3>5. r.status = "reserved" => Committed(r, r.amount).status = "committed"
      BY DEF Committed, BudgetReservation
    <3>6. r.status # "reserved" => Committed(r, r.amount) = r
      BY DEF Committed
    <3> HIDE DEF res, orphaned
    <3> QED
      BY <3>2, <3>3, <3>4, <3>5, <3>6
  <2> HIDE DEF res, orphaned
  <2> QED
    BY <1>1, <1>2, <1>3, <2>1, <2>2, <2>3 DEF TurnSound, AtWork
<1> QED
  BY <1>4, <1>5

-----------------------------------------------------------------------------
(* What the two checks give.                                               *)

LEMMA RowsRepeat ==
  ASSUME BudInv, TurnRows,
         \/ BudgetUnchanged
         \/ \E res : SaveEnvelope(envelope, res)
         \/ \A o \in Turns : BudgetSpares(o)
  PROVE  TurnRows'
<1>1. CASE BudgetUnchanged
  BY <1>1 DEF BudgetUnchanged, TurnRows
<1>2. ASSUME NEW res, SaveEnvelope(envelope, res) PROVE TurnRows'
  BY <1>2, SavedRes DEF TurnRows
<1>3. CASE \A o \in Turns : BudgetSpares(o)
  BY <1>3 DEF TurnRows, BudgetSpares
<1> QED
  BY <1>1, <1>2, <1>3

(* The rows of the turns repeat the envelope.                              *)
LEMMA TurnRowsStep ==
  ASSUME BudInv, TurnRows, [Next]_vars, [MirrorsCurrent]_vars
  PROVE  TurnRows'
<1>1. CASE UNCHANGED vars
  BY <1>1 DEF TurnRows, vars
<1>2. ASSUME Next, MirrorsCurrent PROVE TurnRows'
  <2>1. ASSUME NEW p \in Tools, ToolStep(p) PROVE TurnRows'
    BY <1>2, <2>1, ToolSpares, RowsRepeat
  <2>2. ASSUME NEW p \in Turns, ReserveTurn(p) PROVE TurnRows'
    <3>1. CASE BudgetUnchanged
      BY <3>1, RowsRepeat
    <3>2. CASE Current(p) /\ SaveEnvelope(ops[p].seen, WithReservation(ops[p].seen, p))
      <4>1. ops[p].seen = envelope
        BY <2>2, <3>2, TurnFacts, CurrentCopy DEF ReserveTurn, At
      <4> QED
        BY <3>2, <4>1, RowsRepeat
    <3> QED
      BY <2>2, <3>1, <3>2 DEF ReserveTurn
  <2>3. ASSUME NEW p \in Turns, TurnSaved(p) PROVE TurnRows'
    <3>1. ops[p].seen = envelope
      BY <2>3, TurnFacts, CurrentCopy DEF TurnSaved, At
    <3> QED
      BY <2>3, <3>1, RowsRepeat DEF TurnSaved
  <2>4. ASSUME NEW p \in Turns,
               TurnKept(p) \/ Rerun(p) \/ \E result \in {"submitted", "blocked", "exhausted",
                                                "unresolved"} : TurnEnds(p, result)
        PROVE  TurnRows'
    BY <2>4, RowsRepeat DEF TurnKept, Rerun, TurnEnds
  <2>5. ASSUME NEW p \in Turns, NEW prepared \in BOOLEAN, ResumeTurn(p, prepared)
        PROVE  TurnRows'
    BY <2>5, RowsRepeat DEF ResumeTurn
  <2>6. ASSUME NEW p \in Ops,
               Read(p) \/ Send(p) \/ SettleRead(p) \/ SettleConflict(p) \/ Crash(p)
        PROVE  TurnRows'
    BY <2>6, RowsRepeat DEF Read, Send, SettleRead, SettleConflict, Crash
  <2>7. CASE \/ ResumeTools \/ Revoke \/ PropagateRevocation
             \/ \E p \in Tools : \/ ResumeProof(p) \/ SealAdvisor(p)
                                 \/ \E executed \in BOOLEAN : Reconcile(p, executed)
             \/ \E limits \in [Dims -> 0..MaxLimit] : Extend(limits)
    BY <2>7, DecisionSpares, RowsRepeat
  <2>8. \A p \in Turns : TurnStep(p) => TurnRows'
    BY <2>2, <2>3, <2>4 DEF TurnStep
  <2>9. AnalystStep => TurnRows'
    BY <2>5, <2>7 DEF AnalystStep
  <2> QED
    BY <1>2, <2>1, <2>6, <2>8, <2>9 DEF Next
<1> QED
  BY <1>1, <1>2

LEMMA TurnsStep ==
  ASSUME TurnsInv, TurnRows, OneKeyPerAttempt, [Next]_vars,
         [MirrorsCurrent /\ StopsUnsent]_vars
  PROVE  TurnsSound'
<1>1. CASE UNCHANGED vars
  BY <1>1 DEF TurnsInv, TurnsSound, TurnSound, vars
<1>2. ASSUME Next, MirrorsCurrent, StopsUnsent PROVE TurnsSound'
  <2>1. (\A o \in Turns : BudgetSpares(o) /\ OpSpares(o)) => TurnsSound'
    BY TurnSpared DEF TurnsInv, TurnsSound
  <2>2. ASSUME NEW p \in Tools, ToolStep(p) PROVE TurnsSound'
    BY <1>2, <2>1, <2>2, ToolSpares, ToolOpSpares DEF TurnsInv
  <2>3. ASSUME NEW p \in Turns, TurnStep(p) PROVE TurnsSound'
    BY <1>2, <2>3, TurnReserves, TurnEnding, TurnRests, TurnSavedSound, TurnAgain DEF TurnStep
  <2>4. ASSUME NEW p \in Ops,
               Read(p) \/ Send(p) \/ SettleRead(p) \/ SettleConflict(p) \/ Crash(p)
        PROVE  TurnsSound'
    BY <2>4, TurnIdle, TurnSend
  <2>5. ASSUME NEW p \in Turns, NEW prepared \in BOOLEAN, ResumeTurn(p, prepared)
        PROVE  TurnsSound'
    BY <2>5, TurnResumes
  <2>6. CASE \/ ResumeTools \/ Revoke \/ PropagateRevocation
             \/ \E p \in Tools : \/ ResumeProof(p) \/ SealAdvisor(p)
                                 \/ \E executed \in BOOLEAN : Reconcile(p, executed)
             \/ \E limits \in [Dims -> 0..MaxLimit] : Extend(limits)
    BY <2>1, <2>6, DecisionSpares, DecisionOpSpares DEF TurnsInv
  <2>7. AnalystStep => TurnsSound'
    BY <2>5, <2>6 DEF AnalystStep
  <2> QED
    BY <1>2, <2>2, <2>3, <2>4, <2>7 DEF Next
<1> QED
  BY <1>1, <1>2

LEMMA TurnsInit ==
  ASSUME Init
  PROVE  TurnRows /\ TurnsSound
<1>1. \A o \in Turns : o \in Ops
  BY DEF Ops
<1>2. rows = envelope.res /\ sent = {} /\ \A o \in Turns : ops[o].pc = "idle"
  BY <1>1 DEF Init, FirstEnvelope
<1> QED
  BY <1>2 DEF TurnRows, TurnsSound, TurnSound, AtWork

(* Whatever is sent, by a turn or by a tool, is sent with an active        *)
(* reservation of its amount in the canonical budget, if no settlement     *)
(* repeats rows from an envelope others have replaced (_check_authority    *)
(* reads the rows, _complete_tool_reservation writes them).                *)
THEOREM EverySendIsFunded ==
  Spec /\ [][MirrorsCurrent]_vars =>
    [][\A o \in sent' \ sent : envelope.res[o] = Reserved(ops[o].amount)]_vars
<1>1. Init => TurnRows
  BY TurnsInit
<1>2. BudInv /\ TurnRows /\ [Next]_vars /\ [MirrorsCurrent]_vars => TurnRows'
  BY TurnRowsStep
<1>3. BudInv /\ TurnRows /\ [Next]_vars =>
        [\A o \in sent' \ sent : envelope.res[o] = Reserved(ops[o].amount)]_vars
  <2> SUFFICES ASSUME BudInv, TurnRows, Next, NEW o \in sent' \ sent
               PROVE  envelope.res[o] = Reserved(ops[o].amount)
    BY DEF vars
  <2>1. Send(o)
    BY OnlySendSends
  <2>2. o \in Ops
    BY BudNext DEF BudInv, TypeOK
  <2>3. CASE o \in Tools
    BY <2>1, <2>3, SendIsFunded
  <2>4. CASE o \in Turns
    BY <2>1, <2>4, TurnFunded
  <2> QED
    BY <2>2, <2>3, <2>4 DEF Ops
<1> QED
  BY <1>1, <1>2, <1>3, BudgetInvariant, PTL DEF Spec

(* A Bridge turn that was sent stays charged, whatever crashes, reruns,    *)
(* resumptions and revocations follow, if moreover no later run of the     *)
(* same attempt ends it as stopped before it finds that it was sent        *)
(* (run, _complete_bridge_reservation, resume).                            *)
THEOREM SentTurnsStayCharged ==
  OneKeyPerAttempt =>
    (Spec /\ [][MirrorsCurrent /\ StopsUnsent]_vars => []TurnsStayCharged)
<1> SUFFICES ASSUME OneKeyPerAttempt
             PROVE  Spec /\ [][MirrorsCurrent /\ StopsUnsent]_vars => []TurnsStayCharged
  OBVIOUS
<1>1. Init => TurnRows /\ TurnsSound
  BY TurnsInit
<1>2. BudInv /\ TurnRows /\ TurnsSound /\ [Next]_vars /\ [MirrorsCurrent /\ StopsUnsent]_vars
        => TurnRows' /\ TurnsSound'
  BY TurnRowsStep, TurnsStep DEF TurnsInv
<1>3. TurnsSound => TurnsStayCharged
  BY DEF TurnsSound, TurnSound, TurnsStayCharged
<1> QED
  BY <1>1, <1>2, <1>3, BudgetInvariant, PTL DEF Spec
=============================================================================
