-------------------------- MODULE SubmissionProofs --------------------------
(***************************************************************************)
(* Proofs about the submissions of a production stage, for any number of   *)
(* executions, probes and requests, generations, attempts and losses.      *)
(*                                                                         *)
(* The inductive invariant says what each record knows of the ModelRun it  *)
(* points to: an answer is on file exactly of a ModelRun that succeeded,   *)
(* an identity names a submission that was made, and a probe about to      *)
(* resume the run holds the bytes on file.                                 *)
(*                                                                         *)
(* That no prompt is ever awaiting an answer twice needs more, and does    *)
(* not hold of every behaviour: Careful names the steps that may break it  *)
(* and CInv is the invariant of the behaviours without them (at most the   *)
(* last submission of one ModelRun may still be answered, and the run      *)
(* knows of it).  FirstInv is the invariant of every behaviour as long as  *)
(* the run is in its first generation and no lease has lapsed: there the   *)
(* code takes none of those steps but one, which is the Bridge's.          *)
(***************************************************************************)
EXTENDS ModelSubmission, SetLemmas

(* A ModelRun row: submitted once it exists, and its answer ends it.       *)
ModelSound(r) ==
    /\ r.status # "absent" => r.attempt # 0
    /\ r.status = "absent" => r.code = "none"
    /\ r.out # NoText => r.status = "succeeded"

ModelsSound == \A m \in Models : ModelSound(model[m])
IdentitySound == (run.id.on => run.id.key \in Keys) /\ ResumedAnswerIsArchived

(* A probe holding an answer, on file when it is about to resume the run.  *)
ReconSound(q) ==
    /\ q.pc \in {"adopt", "resume"} => q.text # NoText
    /\ q.pc = "resume" => model[q.key[1]].out = q.text

ReconsSound == \A r \in Reconcilers : ReconSound(recon[r])

(* The inductive invariant.                                                *)
SInv == TypeOK /\ ModelsSound /\ IdentitySound /\ ReconsSound

-----------------------------------------------------------------------------
(* The ModelRun of a stage is one of its generations'.                     *)
LEMMA ModelForType ==
  ASSUME TypeOK, NEW g \in Generations
  PROVE  /\ ModelFor(g) \in Models
         /\ Offset(g, ModelFor(g)) \in 0..MaxAttempt
<1>1. Earlier(g) \in SUBSET (0..MaxGeneration) /\ MaxGeneration \in Nat
  BY SubmissionAssumption DEF Earlier, Generations
<1>2. Earlier(g) # {} => Max(Earlier(g)) \in Models
  BY <1>1, MaxOfBounded DEF Models, Generations
<1>3. ModelFor(g) \in Models
  BY <1>2 DEF ModelFor, Models
<1> QED
  BY <1>2, <1>3 DEF Offset, TypeOK, ModelRun, Models

-----------------------------------------------------------------------------
(* Init establishes the invariant.                                         *)
LEMMA InitSound == Init => SInv
<1> SUFFICES ASSUME Init PROVE SInv
  OBVIOUS
<1> USE SubmissionAssumption DEF Init
<1>1. NoKey \in Models \X (0..MaxAttempt) /\ NoText \in Text /\ 0 \in Generations
  BY DEF NoKey, NoText, Text, Models, Generations
<1>2. /\ NewModel \in ModelRun /\ IdleCall \in Execution /\ IdleRecon \in Reconciliation
      /\ NoIdentity \in Identity
  BY <1>1 DEF NewModel, ModelRun, IdleCall, Execution, CallPcs, Results, IdleRecon,
              Reconciliation, ReconPcs, Probes, NoIdentity, Identity, Provenances
<1>3. TypeOK
  BY <1>1, <1>2 DEF TypeOK, ProductionRun, JobKeys
<1>4. ModelsSound
  BY DEF ModelsSound, ModelSound, NewModel
<1>5. IdentitySound
  BY DEF IdentitySound, ResumedAnswerIsArchived, NoIdentity
<1>6. ReconsSound
  BY DEF ReconsSound, ReconSound, IdleRecon
<1> QED
  BY <1>3, <1>4, <1>5, <1>6 DEF SInv

(* The ModelRun a record points to exists.                                 *)
LEMMA KeyTypes ==
  ASSUME TypeOK
  PROVE  /\ run.id \in Identity /\ run.gen \in Generations
         /\ run.id.key \in Keys \union {NoKey} /\ run.id.key[1] \in Models
         /\ \A r \in Reconcilers : /\ recon[r].key \in Keys \union {NoKey}
                                  /\ recon[r].key[1] \in Models
         /\ \A c \in Callers : /\ call[c].key \in Models \X (0..MaxAttempt)
                              /\ call[c].key[1] \in Models
<1>1. \A k \in Keys \union {NoKey} : k[1] \in Models
  BY SubmissionAssumption DEF Keys, NoKey, Models, Generations
<1>2. run.id \in Identity /\ run.gen \in Generations
  BY DEF TypeOK, ProductionRun
<1>3. run.id.key \in Keys \union {NoKey}
  BY <1>2 DEF Identity
<1>4. \A r \in Reconcilers : recon[r].key \in Keys \union {NoKey}
  BY DEF TypeOK, Reconciliation
<1>5. \A c \in Callers : call[c].key \in Models \X (0..MaxAttempt)
  BY DEF TypeOK, Execution
<1> QED
  BY <1>1, <1>2, <1>3, <1>4, <1>5

(* A step leaves the ModelRuns that have their answer alone.               *)
AnswersStay == \A m \in Models : model[m].out # NoText => model'[m] = model[m]

(* What has to be shown of a step.                                         *)
LEMMA Frame ==
  ASSUME SInv, TypeOK', ModelsSound', AnswersStay,
         run' = run \/ IdentitySound',
         \A r \in Reconcilers : recon'[r] = recon[r] \/ ReconSound(recon[r])'
  PROVE  SInv'
<1>1. IdentitySound'
  <2>1. CASE run' = run
    <3>1. run.id.key[1] \in Models
      BY KeyTypes DEF SInv
    <3> QED
      BY <2>1, <3>1 DEF SInv, IdentitySound, ResumedAnswerIsArchived, AnswersStay
  <2> QED
    BY <2>1
<1>2. ReconsSound'
  <2> SUFFICES ASSUME NEW r \in Reconcilers, recon'[r] = recon[r]
               PROVE  ReconSound(recon[r])'
    BY DEF ReconsSound
  <2>1. recon[r].key[1] \in Models
    BY KeyTypes DEF SInv
  <2> QED
    BY <2>1 DEF SInv, ReconsSound, ReconSound, AnswersStay
<1> QED
  BY <1>1, <1>2 DEF SInv

LEMMA SameModels ==
  ASSUME SInv, UNCHANGED model
  PROVE  ModelsSound' /\ AnswersStay
BY DEF SInv, ModelsSound, ModelSound, AnswersStay

(* One ModelRun without answer is changed.                                 *)
LEMMA OneModel ==
  ASSUME SInv, NEW m \in Models, NEW v \in ModelRun, ModelSound(v),
         model' = [model EXCEPT ![m] = v], model[m].out = NoText \/ v = model[m]
  PROVE  model' \in [Models -> ModelRun] /\ ModelsSound' /\ AnswersStay
BY DEF SInv, TypeOK, ModelsSound, AnswersStay

(* What the methods of a ModelRun make of it.                              *)
LEMMA ModelMethods ==
  ASSUME NEW r \in ModelRun, ModelSound(r), r.status # "succeeded"
  PROVE  /\ \A a \in 1..MaxAttempt :
              Submitted(r, a) \in ModelRun /\ ModelSound(Submitted(r, a))
         /\ r.status # "absent" =>
              /\ \A code \in {"reconcile", "no_final"} :
                   RequireReview(r, code) \in ModelRun /\ ModelSound(RequireReview(r, code))
              /\ \A sub \in {"not_submitted", "unknown", "obtained", "no_answer"},
                    code \in {"abandoned", "failed"} :
                   Fail(r, sub, code) \in ModelRun /\ ModelSound(Fail(r, sub, code))
              /\ \A text \in Text :
                   Succeed(r, text) \in ModelRun /\ ModelSound(Succeed(r, text))
              /\ Reopened(r) \in ModelRun /\ ModelSound(Reopened(r))
<1> USE SubmissionAssumption DEF ModelRun, ModelSound
<1>1. ASSUME NEW a \in 1..MaxAttempt
      PROVE  Submitted(r, a) \in ModelRun /\ ModelSound(Submitted(r, a))
  <2>1. a \in 0..MaxAttempt /\ a # 0
    OBVIOUS
  <2> QED
    BY <2>1 DEF Submitted
<1>2. ASSUME r.status # "absent", NEW code \in {"reconcile", "no_final"}
      PROVE  RequireReview(r, code) \in ModelRun /\ ModelSound(RequireReview(r, code))
  BY <1>2 DEF RequireReview
<1>3. ASSUME r.status # "absent", NEW code \in {"abandoned", "failed"},
             NEW sub \in {"not_submitted", "unknown", "obtained", "no_answer"}
      PROVE  Fail(r, sub, code) \in ModelRun /\ ModelSound(Fail(r, sub, code))
  BY <1>3 DEF Fail
<1>4. ASSUME r.status # "absent", NEW text \in Text
      PROVE  Succeed(r, text) \in ModelRun /\ ModelSound(Succeed(r, text))
  BY <1>4 DEF Succeed
<1>5. ASSUME r.status # "absent"
      PROVE  Reopened(r) \in ModelRun /\ ModelSound(Reopened(r))
  BY <1>5 DEF Reopened
<1> QED
  BY <1>1, <1>2, <1>3, <1>4, <1>5

-----------------------------------------------------------------------------
(* The executions of the stage.                                            *)
LEMMA SetCallType ==
  ASSUME NEW e \in Execution, NEW pc \in CallPcs, NEW res \in Results
  PROVE  [e EXCEPT !.pc = pc, !.res = res] \in Execution
BY DEF Execution

LEMMA InvokeType ==
  ASSUME NEW e \in Execution, NEW k \in Models \X (0..MaxAttempt), NEW n \in 0..Retries
  PROVE  [e EXCEPT !.pc = "invoke", !.key = k, !.retries = n] \in Execution
<1> DEFINE K == Models \X (0..MaxAttempt)
<1>1. Execution = [pc : CallPcs, job : {"stage", "resume"}, gen : Generations, key : K,
                   retries : 0..Retries, res : Results, leased : BOOLEAN]
  BY DEF Execution
<1>2. k \in K
  OBVIOUS
<1> HIDE DEF K
<1> QED
  BY <1>1, <1>2 DEF CallPcs

LEMMA StartType ==
  ASSUME NEW e \in Execution, NEW j \in {"stage", "resume"}, NEW g \in Generations,
         NEW k \in Models \X (0..MaxAttempt)
  PROVE  [e EXCEPT !.pc = "claim", !.job = j, !.gen = g, !.key = k] \in Execution
<1> DEFINE K == Models \X (0..MaxAttempt)
<1>1. Execution = [pc : CallPcs, job : {"stage", "resume"}, gen : Generations, key : K,
                   retries : 0..Retries, res : Results, leased : BOOLEAN]
  BY DEF Execution
<1>2. k \in K
  OBVIOUS
<1> HIDE DEF K
<1> QED
  BY <1>1, <1>2 DEF CallPcs

LEMMA IdleIsExecution == IdleCall \in Execution
BY SubmissionAssumption
DEF IdleCall, Execution, CallPcs, Results, NoKey, Models, Generations

LEMMA CallTypes ==
  ASSUME TypeOK, NEW c \in Callers
  PROVE  /\ \A pc \in CallPcs, res \in Results :
              SetCall(c, pc, res) => call' \in [Callers -> Execution]
         /\ \A st \in {"queued", "done"} :
              /\ SetJob(c, st) => jobs' \in [JobKeys -> {"none", "queued", "running", "done"}]
              /\ EndCall(c, st) => call' \in [Callers -> Execution]
<1>1. ASSUME NEW pc \in CallPcs, NEW res \in Results, SetCall(c, pc, res)
      PROVE  call' \in [Callers -> Execution]
  <2>1. call' = [call EXCEPT ![c] = [call[c] EXCEPT !.pc = pc, !.res = res]]
    BY <1>1 DEF TypeOK, SetCall
  <2>2. [call[c] EXCEPT !.pc = pc, !.res = res] \in Execution
    BY SetCallType DEF TypeOK
  <2> QED
    BY <2>1, <2>2 DEF TypeOK
<1>2. ASSUME NEW st \in {"queued", "done"}, SetJob(c, st)
      PROVE  jobs' \in [JobKeys -> {"none", "queued", "running", "done"}]
  BY <1>2 DEF TypeOK, SetJob
<1>4. ASSUME NEW st \in {"queued", "done"}, EndCall(c, st)
      PROVE  call' \in [Callers -> Execution]
  BY <1>4, IdleIsExecution DEF TypeOK, EndCall
<1> QED
  BY <1>1, <1>2, <1>4

(* A step that touches neither a ModelRun, the run nor a probe in flight.  *)
LEMMA QuietStep ==
  ASSUME SInv, TypeOK', UNCHANGED <<model, run, recon>>
  PROVE  SInv' /\ AnswersStay
BY SameModels, Frame

LEMMA StartStageSound ==
  ASSUME SInv, NEW c \in Callers, NEW j \in JobKeys, StartStage(c, j[1], j[2])
  PROVE  SInv' /\ AnswersStay
<1>1. j[1] \in {"stage", "resume"} /\ j[2] \in Generations /\ <<j[1], j[2]>> = j
  BY DEF JobKeys
<1>2. <<ModelFor(j[2]), Offset(j[2], ModelFor(j[2]))>> \in Models \X (0..MaxAttempt)
  BY <1>1, ModelForType DEF SInv
<1>3. \A k \in Models \X (0..MaxAttempt) :
        [IdleCall EXCEPT !.pc = "claim", !.job = j[1], !.gen = j[2], !.key = k] \in Execution
  BY <1>1, StartType, IdleIsExecution
<1>4. call' \in [Callers -> Execution]
  BY <1>2, <1>3 DEF StartStage, SInv, TypeOK
<1>5. jobs' \in [JobKeys -> {"none", "queued", "running", "done"}]
  BY <1>1 DEF StartStage, SInv, TypeOK
<1>6. UNCHANGED <<model, bridge, run, batch, probe, recon, lost, used>>
  BY DEF StartStage
<1>7. TypeOK'
  BY <1>4, <1>5, <1>6 DEF SInv, TypeOK
<1> QED
  BY <1>6, <1>7, QuietStep

LEMMA ClaimSound ==
  ASSUME SInv, NEW c \in Callers, Claim(c)
  PROVE  SInv' /\ AnswersStay
<1> DEFINE m == call[c].key[1]
           r == model[m]
           attempt == IF r.status = "absent" THEN call[c].key[2] + 1 ELSE r.attempt + 1
<1>0. /\ TypeOK /\ m \in Models /\ r \in ModelRun /\ ModelSound(r)
      /\ call[c].key[2] \in 0..MaxAttempt
  BY KeyTypes DEF SInv, TypeOK, ModelsSound
<1>1. UNCHANGED <<bridge, run, batch, jobs, probe, recon, lost, used>>
  BY DEF Claim
<1>2. CASE /\ Submittable(r) /\ attempt <= MaxAttempt
           /\ model' = [model EXCEPT ![m] = Submitted(r, attempt)]
           /\ call' = [call EXCEPT ![c].pc = "invoke", ![c].key = <<m, attempt>>,
                                   ![c].retries = Retries]
  <2>1. attempt \in 1..MaxAttempt
    BY <1>0, <1>2, SubmissionAssumption DEF ModelRun
  <2>2. r.out = NoText /\ r.status # "succeeded"
    BY <1>0, <1>2 DEF Submittable, ModelSound
  <2> HIDE DEF m, r, attempt
  <2>3. /\ model' \in [Models -> ModelRun] /\ ModelsSound' /\ AnswersStay
    <3>1. Submitted(r, attempt) \in ModelRun /\ ModelSound(Submitted(r, attempt))
      BY <1>0, <2>1, <2>2, ModelMethods
    <3> QED
      BY <1>0, <1>2, <2>2, <3>1, OneModel DEF r
  <2>4. call' \in [Callers -> Execution]
    <3>1. <<m, attempt>> \in Models \X (0..MaxAttempt) /\ Retries \in 0..Retries
      BY <1>0, <2>1, SubmissionAssumption
    <3>2. call' = [call EXCEPT ![c] = [call[c] EXCEPT !.pc = "invoke",
                     !.key = <<m, attempt>>, !.retries = Retries]]
      BY <1>0, <1>2 DEF TypeOK
    <3>3. call[c] \in Execution
      BY <1>0 DEF TypeOK
    <3>4. [call[c] EXCEPT !.pc = "invoke", !.key = <<m, attempt>>, !.retries = Retries]
            \in Execution
      BY <3>1, <3>3, InvokeType
    <3> QED
      BY <1>0, <3>2, <3>4 DEF TypeOK
  <2> QED
    BY <1>0, <1>1, <2>3, <2>4, Frame DEF TypeOK
<1>3. CASE /\ r.status = "running"
           /\ model' = [model EXCEPT ![m] = RequireReview(r, "reconcile")]
           /\ SetCall(c, "apply", "reconcile")
  <2>1. r.out = NoText /\ r.status # "succeeded"
    BY <1>0, <1>3 DEF ModelSound
  <2>2. RequireReview(r, "reconcile") \in ModelRun /\ ModelSound(RequireReview(r, "reconcile"))
    BY <1>0, <1>3, ModelMethods
  <2>3. model' \in [Models -> ModelRun] /\ ModelsSound' /\ AnswersStay
    BY <1>0, <1>3, <2>1, <2>2, OneModel
  <2>4. call' \in [Callers -> Execution]
    BY <1>0, <1>3, CallTypes DEF CallPcs, Results
  <2> QED
    BY <1>0, <1>1, <2>3, <2>4, Frame DEF TypeOK
<1>4. CASE UNCHANGED model /\ \E res \in Results : SetCall(c, "apply", res)
  <2>1. call' \in [Callers -> Execution]
    BY <1>0, <1>4, CallTypes DEF CallPcs
  <2> QED
    BY <1>0, <1>1, <1>4, <2>1, QuietStep DEF TypeOK
<1> QED
  BY <1>2, <1>3, <1>4 DEF Claim, Results

LEMMA PostSound ==
  ASSUME SInv, NEW c \in Callers, Post(c)
  PROVE  SInv' /\ AnswersStay
<1>1. UNCHANGED <<model, run, batch, jobs, probe, recon, lost, used>>
  BY DEF Post
<1>2. bridge' \in [Keys -> {"none", "pending", "stalled", "answered", "closed"}]
  BY DEF Post, SInv, TypeOK
<1>3. call' \in [Callers -> Execution]
  <2>1. \E pc \in CallPcs, res \in Results : SetCall(c, pc, res)
    BY DEF Post, CallPcs, Results
  <2> QED
    BY <2>1, CallTypes DEF SInv
<1> QED
  BY <1>1, <1>2, <1>3, QuietStep DEF SInv, TypeOK

LEMMA ReceiveSound ==
  ASSUME SInv, NEW c \in Callers, Receive(c)
  PROVE  SInv' /\ AnswersStay
<1>1. UNCHANGED <<model, bridge, run, batch, jobs, probe, recon, lost, used>>
  BY DEF Receive
<1>2. call' \in [Callers -> Execution]
  <2>1. \E pc \in CallPcs, res \in Results : SetCall(c, pc, res)
    BY DEF Receive, CallPcs, Results
  <2> QED
    BY <2>1, CallTypes DEF SInv
<1> QED
  BY <1>1, <1>2, QuietStep DEF SInv, TypeOK

LEMMA ReopenAfterTerminalFailureSound ==
  ASSUME SInv, NEW c \in Callers, ReopenAfterTerminalFailure(c)
  PROVE  SInv' /\ AnswersStay
<1> DEFINE m == call[c].key[1]
           r == model[m]
           attempt == r.attempt + 1
<1>0. /\ TypeOK /\ m \in Models /\ r \in ModelRun /\ ModelSound(r)
      /\ call[c] \in Execution
  BY KeyTypes DEF SInv, TypeOK, ModelsSound
<1>1. /\ UNCHANGED <<bridge, run, batch, jobs, probe, recon, lost, used>>
      /\ r.status = "running" /\ r.attempt < MaxAttempt /\ call[c].retries > 0
      /\ model' = [model EXCEPT ![m] = Submitted(r, attempt)]
  BY <1>0 DEF ReopenAfterTerminalFailure, TypeOK
<1>2. attempt \in 1..MaxAttempt /\ r.out = NoText
  BY <1>0, <1>1, SubmissionAssumption DEF ModelRun, ModelSound
<1>3. call[c].retries - 1 \in 0..Retries
  BY <1>0, <1>1, SubmissionAssumption DEF Execution
<1>4. call' = [call EXCEPT ![c] = [call[c] EXCEPT !.pc = "invoke", !.key = <<m, attempt>>,
                                     !.retries = call[c].retries - 1]]
  BY <1>0 DEF ReopenAfterTerminalFailure, TypeOK
<1> HIDE DEF m, r, attempt
<1>5. model' \in [Models -> ModelRun] /\ ModelsSound' /\ AnswersStay
  <2>1. Submitted(r, attempt) \in ModelRun /\ ModelSound(Submitted(r, attempt))
    BY <1>0, <1>1, <1>2, ModelMethods
  <2> QED
    BY <1>0, <1>1, <1>2, <2>1, OneModel DEF r
<1>6. call' \in [Callers -> Execution]
  <2>1. <<m, attempt>> \in Models \X (0..MaxAttempt)
    BY <1>0, <1>2, SubmissionAssumption
  <2>2. [call[c] EXCEPT !.pc = "invoke", !.key = <<m, attempt>>,
                        !.retries = call[c].retries - 1] \in Execution
    BY <1>0, <1>3, <2>1, InvokeType
  <2> QED
    BY <1>0, <1>4, <2>2 DEF TypeOK
<1> QED
  BY <1>0, <1>1, <1>5, <1>6, Frame DEF TypeOK

(* The last transaction of a call leaves a sound ModelRun.                 *)
LEMMA SettledSound ==
  ASSUME TypeOK, NEW c \in Callers, NEW r \in ModelRun, ModelSound(r)
  PROVE  /\ Settled(c, r)[1] \in ModelRun /\ ModelSound(Settled(c, r)[1])
         /\ r.out = NoText \/ Settled(c, r)[1] = r
         /\ Settled(c, r)[2] \subseteq Results
<1>1. CASE r.status # "running"
  BY <1>1 DEF Settled, Results
<1>2. CASE r.status = "running"
  <2>1. r.out = NoText
    BY <1>2 DEF ModelSound
  <2>2. AnswerTo(call[c].key) \in Text
    BY KeyTypes DEF AnswerTo, Text
  <2>3. r.sub \in {"not_submitted", "unknown", "obtained", "no_answer"}
    BY DEF ModelRun
  <2>4. \E t \in SUBSET Results : Settled(c, r) = <<Settled(c, r)[1], t>>
    BY <1>2 DEF Settled, Outcome, Results
  <2>5. Settled(c, r)[1] \in {Succeed(r, AnswerTo(call[c].key)), RequireReview(r, "reconcile"),
                              RequireReview(r, "no_final"), Fail(r, "not_submitted", "failed"),
                              Fail(r, r.sub, "failed"), Fail(r, "no_answer", "failed"), r}
    BY <1>2 DEF Settled, Outcome
  <2>6. Settled(c, r)[1] \in ModelRun /\ ModelSound(Settled(c, r)[1])
    BY <1>2, <2>2, <2>3, <2>5, ModelMethods
  <2> QED
    BY <2>1, <2>4, <2>6
<1> QED
  BY <1>1, <1>2

LEMMA SettleSound ==
  ASSUME SInv, NEW c \in Callers, Settle(c)
  PROVE  SInv' /\ AnswersStay
<1> DEFINE m == call[c].key[1]
           v == Settled(c, model[m])[1]
<1>0. TypeOK /\ m \in Models /\ model[m] \in ModelRun /\ ModelSound(model[m])
  BY KeyTypes DEF SInv, TypeOK, ModelsSound
<1>1. /\ UNCHANGED <<bridge, run, batch, jobs, probe, recon, lost, used>>
      /\ model' = [model EXCEPT ![m] = v]
      /\ \E res \in Settled(c, model[m])[2] : SetCall(c, "apply", res)
  BY DEF Settle
<1>2. /\ v \in ModelRun /\ ModelSound(v)
      /\ model[m].out = NoText \/ v = model[m]
      /\ Settled(c, model[m])[2] \subseteq Results
  BY <1>0, SettledSound
<1> HIDE DEF m, v
<1>3. model' \in [Models -> ModelRun] /\ ModelsSound' /\ AnswersStay
  BY <1>0, <1>1, <1>2, OneModel
<1>4. call' \in [Callers -> Execution]
  BY <1>0, <1>1, <1>2, CallTypes DEF CallPcs
<1> QED
  BY <1>0, <1>1, <1>3, <1>4, Frame DEF TypeOK

LEMMA ApplySound ==
  ASSUME SInv, NEW c \in Callers, Apply(c)
  PROVE  SInv' /\ AnswersStay
<1>1. UNCHANGED <<model, bridge, run, batch, probe, recon, lost, used>> /\ TypeOK
  BY DEF Apply, SInv
<1>2. \/ EndCall(c, "queued") \/ EndCall(c, "done")
      \/ SetCall(c, "record", call[c].res) /\ UNCHANGED jobs
  BY DEF Apply
<1>3. call[c].res \in Results
  BY <1>1 DEF TypeOK, Execution
<1>4. /\ call' \in [Callers -> Execution]
      /\ jobs' \in [JobKeys -> {"none", "queued", "running", "done"}]
  <2>1. CASE EndCall(c, "queued") \/ EndCall(c, "done")
    BY <1>1, <2>1, CallTypes DEF EndCall
  <2>2. CASE SetCall(c, "record", call[c].res) /\ UNCHANGED jobs
    BY <1>1, <1>3, <2>2, CallTypes DEF CallPcs, TypeOK
  <2> QED
    BY <1>2, <2>1, <2>2
<1> QED
  BY <1>1, <1>4, QuietStep DEF TypeOK

LEMMA RecordSound ==
  ASSUME SInv, NEW c \in Callers, Record(c)
  PROVE  SInv' /\ AnswersStay
<1> DEFINE m == call[c].key[1]
           id == [NoIdentity EXCEPT !.on = TRUE, !.key = <<m, model[m].attempt>>]
<1>0. /\ TypeOK /\ m \in Models /\ model[m] \in ModelRun /\ ModelSound(model[m])
      /\ call[c].res \in Results /\ run \in ProductionRun /\ run.id \in Identity
  BY KeyTypes DEF SInv, TypeOK, ModelsSound, Execution
<1>1. UNCHANGED <<model, bridge, batch, jobs, probe, recon, lost, used>>
  BY DEF Record
<1>2. call' \in [Callers -> Execution]
  BY <1>0, CallTypes DEF CallPcs, Record
<1>3. NoIdentity \in Identity
  BY SubmissionAssumption
  DEF NoIdentity, Identity, Provenances, NoText, Text, NoKey, Models, Generations
<1>4. AwaitsReconciliation(m) =>
        id \in Identity /\ id.on /\ id.key \in Keys /\ id.out = NoText
  <2> SUFFICES ASSUME AwaitsReconciliation(m)
               PROVE  id \in Identity /\ id.on /\ id.key \in Keys /\ id.out = NoText
    OBVIOUS
  <2>1. model[m].attempt \in 1..MaxAttempt
    BY <1>0, SubmissionAssumption DEF ModelRun, ModelSound, AwaitsReconciliation
  <2>2. <<m, model[m].attempt>> \in Keys
    BY <1>0, <2>1 DEF Keys
  <2> QED
    BY <1>3, <2>2 DEF NoIdentity, Identity
<1> HIDE DEF m, id
<1>5. \/ run' = run
      \/ run' = [run EXCEPT !.status = "ready"]
      \/ /\ AwaitsReconciliation(m)
         /\ run' = [run EXCEPT !.status = "needs_review", !.code = "reconcile", !.id = id]
      \/ \E code \in {"reconcile", "other"} :
            run' = [run EXCEPT !.status = "needs_review", !.code = code, !.id = NoIdentity]
  <2>1. CASE run.status # "running"
    BY <2>1 DEF Record
  <2>2. CASE run.status = "running" /\ call[c].res = "answer"
    BY <2>2 DEF Record
  <2>3. CASE run.status = "running" /\ call[c].res = "reconcile" /\ AwaitsReconciliation(m)
    BY <2>3 DEF Record, m, id
  <2>4. CASE run.status = "running" /\ call[c].res = "reconcile" /\ ~AwaitsReconciliation(m)
    BY <2>4 DEF Record, m
  <2>5. CASE run.status = "running" /\ call[c].res \notin {"answer", "reconcile"}
    BY <2>5 DEF Record
  <2> QED
    BY <2>1, <2>2, <2>3, <2>4, <2>5
<1>6. run' \in ProductionRun
  BY <1>0, <1>3, <1>4, <1>5 DEF ProductionRun
<1>7. TypeOK'
  BY <1>0, <1>1, <1>2, <1>6 DEF TypeOK
<1>8. IdentitySound'
  <2>1. CASE run'.id = run.id
    BY <1>1, <2>1 DEF SInv, IdentitySound, ResumedAnswerIsArchived
  <2>2. CASE AwaitsReconciliation(m) /\ run'.id = id
    BY <1>4, <2>2 DEF IdentitySound, ResumedAnswerIsArchived
  <2>3. CASE run'.id = NoIdentity
    BY <2>3 DEF IdentitySound, ResumedAnswerIsArchived, NoIdentity
  <2> QED
    BY <1>0, <1>5, <2>1, <2>2, <2>3 DEF ProductionRun
<1> QED
  BY <1>1, <1>7, <1>8, SameModels, Frame

LEMMA FollowSound ==
  ASSUME SInv, NEW c \in Callers, Follow(c)
  PROVE  SInv' /\ AnswersStay
<1>1. /\ UNCHANGED <<model, bridge, run, batch, recon, lost, used>> /\ TypeOK
      /\ EndCall(c, "done")
  BY DEF Follow, SInv
<1>2. probe' \in [Probes -> {"none", "queued", "running", "done"}]
  BY <1>1 DEF Follow, ScheduleProbe, TypeOK
<1>3. /\ call' \in [Callers -> Execution]
      /\ jobs' \in [JobKeys -> {"none", "queued", "running", "done"}]
  BY <1>1, CallTypes DEF EndCall
<1> QED
  BY <1>1, <1>2, <1>3, QuietStep DEF TypeOK

LEMMA LoseCallSound ==
  ASSUME SInv, NEW c \in Callers, LoseCall(c)
  PROVE  SInv' /\ AnswersStay
<1> DEFINE m == call[c].key[1]
           v == [model[m] EXCEPT !.sub = "not_submitted"]
<1>0. TypeOK /\ m \in Models /\ model[m] \in ModelRun /\ ModelSound(model[m])
  BY KeyTypes DEF SInv, TypeOK, ModelsSound
<1>1. /\ UNCHANGED <<bridge, run, batch, probe, recon, lost>>
      /\ EndCall(c, "queued") \/ EndCall(c, "done")
      /\ used.crash < MaxCrashes /\ used' = [used EXCEPT !.crash = @ + 1]
  BY DEF LoseCall
<1>2. /\ call' \in [Callers -> Execution]
      /\ jobs' \in [JobKeys -> {"none", "queued", "running", "done"}]
  BY <1>0, <1>1, CallTypes DEF EndCall
<1>3. used' \in [crash : 0..MaxCrashes, drop : 0..MaxDrops, lapse : 0..MaxLapses,
                 cancel : 0..MaxCancels, turn : 0..MaxTurns]
  BY <1>0, <1>1, SubmissionAssumption DEF TypeOK
<1>4. model' \in [Models -> ModelRun] /\ ModelsSound' /\ AnswersStay
  <2>1. CASE UNCHANGED model
    BY <1>0, <2>1, SameModels DEF TypeOK
  <2>2. CASE model[m].status = "running" /\ model' = [model EXCEPT ![m] = v]
    <3>1. v \in ModelRun /\ ModelSound(v) /\ model[m].out = NoText
      BY <1>0, <2>2 DEF ModelRun, ModelSound
    <3> QED
      BY <1>0, <2>2, <3>1, OneModel
  <2> QED
    BY <2>1, <2>2 DEF LoseCall
<1> QED
  BY <1>0, <1>1, <1>2, <1>3, <1>4, Frame DEF TypeOK

LEMMA LapseLeaseSound ==
  ASSUME SInv, NEW c \in Callers, LapseLease(c)
  PROVE  SInv' /\ AnswersStay
<1>1. /\ UNCHANGED <<model, bridge, run, batch, probe, recon, lost>> /\ TypeOK
      /\ SetJob(c, "queued") /\ used.lapse < MaxLapses
      /\ used' = [used EXCEPT !.lapse = @ + 1]
  BY DEF LapseLease, SInv
<1>2. call' \in [Callers -> Execution]
  <2>1. call[c] \in Execution /\ call' = [call EXCEPT ![c] = [call[c] EXCEPT !.leased = FALSE]]
    BY <1>1 DEF LapseLease, TypeOK
  <2>2. [call[c] EXCEPT !.leased = FALSE] \in Execution
    BY <2>1 DEF Execution
  <2> QED
    BY <1>1, <2>1, <2>2 DEF TypeOK
<1>3. jobs' \in [JobKeys -> {"none", "queued", "running", "done"}]
  BY <1>1, CallTypes
<1>4. used' \in [crash : 0..MaxCrashes, drop : 0..MaxDrops, lapse : 0..MaxLapses,
                 cancel : 0..MaxCancels, turn : 0..MaxTurns]
  BY <1>1, SubmissionAssumption DEF TypeOK
<1> QED
  BY <1>1, <1>2, <1>3, <1>4, QuietStep DEF TypeOK

LEMMA BridgeStepSound ==
  ASSUME SInv, NEW k \in Keys, BridgeStep(k)
  PROVE  SInv' /\ AnswersStay
<1>1. bridge' \in [Keys -> {"none", "pending", "stalled", "answered", "closed"}]
  BY DEF BridgeStep, SInv, TypeOK
<1> QED
  BY <1>1, QuietStep DEF BridgeStep, SInv, TypeOK

-----------------------------------------------------------------------------
(* The probes and the requests.                                            *)
LEMMA OneRecon ==
  ASSUME SInv, NEW r \in Reconcilers, NEW q \in Reconciliation,
         recon' = [recon EXCEPT ![r] = q],
         q.pc \in {"adopt", "resume"} => q.text # NoText,
         q.pc = "resume" => model'[q.key[1]].out = q.text
  PROVE  /\ recon' \in [Reconcilers -> Reconciliation]
         /\ \A x \in Reconcilers : recon'[x] = recon[x] \/ ReconSound(recon[x])'
BY DEF SInv, TypeOK, ReconSound

LEMMA IdleIsReconciliation == IdleRecon \in Reconciliation
BY SubmissionAssumption
DEF IdleRecon, Reconciliation, ReconPcs, NoKey, NoText, Text, Models, Generations, Probes

LEMMA EndReconSound ==
  ASSUME SInv, NEW r \in Reconcilers, recon' = [recon EXCEPT ![r] = IdleRecon]
  PROVE  /\ recon' \in [Reconcilers -> Reconciliation]
         /\ \A x \in Reconcilers : recon'[x] = recon[x] \/ ReconSound(recon[x])'
BY IdleIsReconciliation, OneRecon DEF IdleRecon

LEMMA SetReconSound ==
  ASSUME SInv, NEW r \in Reconcilers, NEW pc \in ReconPcs \ {"adopt", "resume"},
         NEW j \in {"stage", "resume"},
         \/ recon' = [recon EXCEPT ![r].pc = pc]
         \/ recon' = [recon EXCEPT ![r].pc = pc, ![r].job = j]
  PROVE  /\ recon' \in [Reconcilers -> Reconciliation]
         /\ \A x \in Reconcilers : recon'[x] = recon[x] \/ ReconSound(recon[x])'
<1>0. recon[r] \in Reconciliation
  BY DEF SInv, TypeOK
<1> DEFINE q == [recon[r] EXCEPT !.pc = pc]
           s == [recon[r] EXCEPT !.pc = pc, !.job = j]
<1>1. q \in Reconciliation /\ q.pc = pc
  BY <1>0 DEF Reconciliation
<1>2. s \in Reconciliation /\ s.pc = pc
  BY <1>0 DEF Reconciliation
<1>3. recon' = [recon EXCEPT ![r] = q] \/ recon' = [recon EXCEPT ![r] = s]
  BY DEF SInv, TypeOK
<1> HIDE DEF q, s
<1> QED
  BY <1>1, <1>2, <1>3, OneRecon

LEMMA ProbeDone ==
  ASSUME SInv, NEW r \in Reconcilers, EndRecon(r)
  PROVE  /\ recon' \in [Reconcilers -> Reconciliation]
         /\ \A x \in Reconcilers : recon'[x] = recon[x] \/ ReconSound(recon[x])'
         /\ probe' \in [Probes -> {"none", "queued", "running", "done"}]
<1>1. probe' \in [Probes -> {"none", "queued", "running", "done"}]
  BY DEF EndRecon, SInv, TypeOK
<1> QED
  BY <1>1, EndReconSound DEF EndRecon

LEMMA StartProbeSound ==
  ASSUME SInv, NEW r \in Reconcilers, NEW kind \in {"job", "api", "lost"},
         StartProbe(r, kind)
  PROVE  SInv' /\ AnswersStay
<1>0. TypeOK /\ run.id.key \in Keys \union {NoKey}
  BY KeyTypes DEF SInv
<1>1. UNCHANGED <<model, bridge, run, batch, jobs, call, lost, used>>
  BY DEF StartProbe
<1>2. ASSUME NEW a \in Probes, NEW pc \in {"retrieve", "undecided"},
             NEW k \in Keys \union {NoKey}
      PROVE  /\ [IdleRecon EXCEPT !.kind = kind, !.probe = a, !.key = k, !.pc = pc]
                  \in Reconciliation
             /\ [IdleRecon EXCEPT !.kind = kind, !.key = k, !.pc = "retrieve"]
                  \in Reconciliation
  BY IdleIsReconciliation DEF Reconciliation, ReconPcs
<1>3. ASSUME NEW q \in Reconciliation, q.pc \in {"retrieve", "undecided"},
             recon' = [recon EXCEPT ![r] = q],
             probe' \in [Probes -> {"none", "queued", "running", "done"}]
      PROVE  SInv' /\ AnswersStay
  <2>1. /\ recon' \in [Reconcilers -> Reconciliation]
        /\ \A x \in Reconcilers : recon'[x] = recon[x] \/ ReconSound(recon[x])'
    BY <1>3, OneRecon
  <2> QED
    BY <1>0, <1>1, <1>3, <2>1, SameModels, Frame DEF TypeOK
<1>4. CASE \E a \in Probes :
             /\ probe' = [probe EXCEPT ![a] = "running"]
             /\ recon' = [recon EXCEPT ![r] =
                   [IdleRecon EXCEPT !.kind = kind, !.probe = a, !.key = run.id.key,
                      !.pc = IF RequiresReconciliation THEN "retrieve" ELSE "undecided"]]
  <2>1. PICK a \in Probes :
             /\ probe' = [probe EXCEPT ![a] = "running"]
             /\ recon' = [recon EXCEPT ![r] =
                   [IdleRecon EXCEPT !.kind = kind, !.probe = a, !.key = run.id.key,
                      !.pc = IF RequiresReconciliation THEN "retrieve" ELSE "undecided"]]
    BY <1>4
  <2> DEFINE pc == IF RequiresReconciliation THEN "retrieve" ELSE "undecided"
             q == [IdleRecon EXCEPT !.kind = kind, !.probe = a, !.key = run.id.key, !.pc = pc]
  <2>2. pc \in {"retrieve", "undecided"}
    OBVIOUS
  <2>3. recon' = [recon EXCEPT ![r] = q]
    BY <2>1
  <2>4. probe' \in [Probes -> {"none", "queued", "running", "done"}]
    BY <1>0, <2>1 DEF TypeOK
  <2> HIDE DEF pc
  <2>5. q \in Reconciliation /\ q.pc = pc
    BY <1>0, <1>2, <2>2 DEF IdleRecon
  <2> HIDE DEF q
  <2> QED
    BY <1>3, <2>2, <2>3, <2>4, <2>5
<1>5. CASE /\ UNCHANGED probe
           /\ recon' = [recon EXCEPT ![r] =
                 [IdleRecon EXCEPT !.kind = kind, !.key = run.id.key, !.pc = "retrieve"]]
  <2> DEFINE q == [IdleRecon EXCEPT !.kind = kind, !.key = run.id.key, !.pc = "retrieve"]
  <2>1. 0 \in Probes
    BY SubmissionAssumption DEF Probes
  <2>2. q \in Reconciliation /\ q.pc = "retrieve"
    BY <1>0, <1>2, <2>1 DEF IdleRecon
  <2>3. recon' = [recon EXCEPT ![r] = q]
    BY <1>5
  <2> HIDE DEF q
  <2> QED
    BY <1>0, <1>3, <1>5, <2>2, <2>3 DEF TypeOK
<1> QED
  BY <1>4, <1>5 DEF StartProbe

LEMMA RetrieveSound ==
  ASSUME SInv, NEW r \in Reconcilers, Retrieve(r)
  PROVE  SInv' /\ AnswersStay
<1>0. /\ TypeOK /\ recon[r] \in Reconciliation /\ recon[r].key \in Keys \union {NoKey}
  BY KeyTypes DEF SInv, TypeOK
<1>1. UNCHANGED <<model, bridge, run, batch, jobs, probe, call, lost, used>>
  BY DEF Retrieve
<1>2. /\ recon' \in [Reconcilers -> Reconciliation]
      /\ \A x \in Reconcilers : recon'[x] = recon[x] \/ ReconSound(recon[x])'
  <2>1. CASE SetRecon(r, "release") \/ SetRecon(r, "undecided")
    BY <2>1, SetReconSound DEF SetRecon, ReconPcs
  <2>2. CASE recon' = [recon EXCEPT ![r].pc = "adopt", ![r].text = AnswerTo(recon[r].key)]
    <3> DEFINE t == AnswerTo(recon[r].key)
               q == [recon[r] EXCEPT !.pc = "adopt", !.text = t]
    <3>1. t \in Text /\ t # NoText
      BY <1>0, SubmissionAssumption
      DEF AnswerTo, Text, NoText, Keys, NoKey, Models, Generations
    <3>2. recon' = [recon EXCEPT ![r] = q]
      BY <1>0, <2>2 DEF TypeOK
    <3> HIDE DEF t
    <3>3. q \in Reconciliation /\ q.pc = "adopt" /\ q.text = t
      BY <1>0, <3>1 DEF Reconciliation, ReconPcs
    <3> HIDE DEF q
    <3> QED
      BY <3>1, <3>2, <3>3, OneRecon
  <2> QED
    BY <2>1, <2>2 DEF Retrieve
<1> QED
  BY <1>0, <1>1, <1>2, SameModels, Frame DEF TypeOK

LEMMA AdoptAnswerSound ==
  ASSUME SInv, NEW r \in Reconcilers, AdoptAnswer(r)
  PROVE  SInv' /\ AnswersStay
<1> DEFINE m == recon[r].key[1]
           q == [recon[r] EXCEPT !.pc = "resume"]
           v == Succeed(model[m], recon[r].text)
<1>0. /\ TypeOK /\ m \in Models /\ model[m] \in ModelRun /\ ModelSound(model[m])
      /\ recon[r] \in Reconciliation /\ recon[r].text \in Text
  BY KeyTypes DEF SInv, TypeOK, ModelsSound, Reconciliation
<1>1. UNCHANGED <<bridge, run, batch, jobs, call, lost, used>> /\ recon[r].pc = "adopt"
  BY DEF AdoptAnswer
<1>2. recon[r].text # NoText
  BY <1>1 DEF SInv, ReconsSound, ReconSound
<1>3. /\ q \in Reconciliation /\ q.text = recon[r].text /\ q.key = recon[r].key
      /\ SetRecon(r, "resume") => recon' = [recon EXCEPT ![r] = q]
  BY <1>0 DEF Reconciliation, ReconPcs, SetRecon, TypeOK
<1>4. CASE UNCHANGED <<model, probe>> /\ SetRecon(r, "undecided")
  <2>1. /\ recon' \in [Reconcilers -> Reconciliation]
        /\ \A x \in Reconcilers : recon'[x] = recon[x] \/ ReconSound(recon[x])'
    BY <1>4, SetReconSound DEF SetRecon, ReconPcs
  <2> QED
    BY <1>0, <1>1, <1>4, <2>1, SameModels, Frame DEF TypeOK
<1>5. CASE /\ UNCHANGED <<model, probe>> /\ SetRecon(r, "resume")
           /\ model[m].out = recon[r].text
  <2>1. model'[q.key[1]].out = q.text
    BY <1>3, <1>5
  <2> HIDE DEF q
  <2>2. /\ recon' \in [Reconcilers -> Reconciliation]
        /\ \A x \in Reconcilers : recon'[x] = recon[x] \/ ReconSound(recon[x])'
    BY <1>2, <1>3, <1>5, <2>1, OneRecon
  <2> QED
    BY <1>0, <1>1, <1>5, <2>2, SameModels, Frame DEF TypeOK
<1>6. CASE /\ model[m].out = NoText /\ model[m].status = "needs_review" /\ UNCHANGED probe
           /\ model' = [model EXCEPT ![m] = v] /\ SetRecon(r, "resume")
  <2>1. v \in ModelRun /\ ModelSound(v)
    BY <1>0, <1>6, ModelMethods
  <2>2. model'[m] = v /\ v.out = recon[r].text
    BY <1>0, <1>6 DEF TypeOK, Succeed, ModelRun
  <2>3. model'[q.key[1]].out = q.text
    BY <1>3, <2>2
  <2> HIDE DEF q, v, m
  <2>4. model' \in [Models -> ModelRun] /\ ModelsSound' /\ AnswersStay
    BY <1>0, <1>6, <2>1, OneModel
  <2>5. /\ recon' \in [Reconcilers -> Reconciliation]
        /\ \A x \in Reconcilers : recon'[x] = recon[x] \/ ReconSound(recon[x])'
    BY <1>2, <1>3, <1>6, <2>3, OneRecon
  <2> QED
    BY <1>0, <1>1, <1>6, <2>4, <2>5, Frame DEF TypeOK
<1>7. CASE UNCHANGED model /\ EndRecon(r)
  BY <1>0, <1>1, <1>7, ProbeDone, SameModels, Frame DEF TypeOK
<1> QED
  BY <1>4, <1>5, <1>6, <1>7 DEF AdoptAnswer

(* The run as the requests leave it.                                       *)
LEMMA RunTypes ==
  ASSUME TypeOK
  PROVE  /\ \A text \in Text, prov \in Provenances :
              /\ ResumedRun(text, prov) \in ProductionRun
              /\ ResumedRun(text, prov).id.on = run.id.on
              /\ ResumedRun(text, prov).id.key = run.id.key
              /\ ResumedRun(text, prov).id.out = text
         /\ run.gen < MaxGeneration =>
              NextGeneration \in ProductionRun /\ NextGeneration.id = NoIdentity
         /\ \A code \in {"unavailable", "lost"} :
              [run EXCEPT !.code = code, !.id = NoIdentity] \in ProductionRun
<1>0. run \in ProductionRun /\ run.id \in Identity
  BY KeyTypes DEF TypeOK
<1>1. NoIdentity \in Identity
  BY SubmissionAssumption
  DEF NoIdentity, Identity, Provenances, NoText, Text, NoKey, Models, Generations
<1>2. ASSUME NEW text \in Text, NEW prov \in Provenances
      PROVE  /\ ResumedRun(text, prov) \in ProductionRun
             /\ ResumedRun(text, prov).id.on = run.id.on
             /\ ResumedRun(text, prov).id.key = run.id.key
             /\ ResumedRun(text, prov).id.out = text
  <2> DEFINE id == [run.id EXCEPT !.out = text, !.prov = prov]
  <2>1. /\ id \in Identity /\ id.on = run.id.on /\ id.key = run.id.key /\ id.out = text
    BY <1>0 DEF Identity
  <2>2. ResumedRun(text, prov) = [run EXCEPT !.status = "running", !.code = "none", !.id = id]
    BY <1>0 DEF ResumedRun, ProductionRun
  <2> HIDE DEF id
  <2> QED
    BY <1>0, <2>1, <2>2 DEF ProductionRun
<1>3. ASSUME run.gen < MaxGeneration
      PROVE  NextGeneration \in ProductionRun /\ NextGeneration.id = NoIdentity
  <2>1. run.gen + 1 \in Generations
    BY <1>0, <1>3, SubmissionAssumption DEF ProductionRun, Generations
  <2> QED
    BY <1>0, <1>1, <2>1 DEF NextGeneration, ProductionRun
<1>4. ASSUME NEW code \in {"unavailable", "lost"}
      PROVE  [run EXCEPT !.code = code, !.id = NoIdentity] \in ProductionRun
  BY <1>0, <1>1 DEF ProductionRun
<1> QED
  BY <1>2, <1>3, <1>4

LEMMA NoIdentitySound ==
  ASSUME run'.id = NoIdentity
  PROVE  IdentitySound'
BY DEF IdentitySound, ResumedAnswerIsArchived, NoIdentity

(* The run continues on a text that is on file.                            *)
LEMMA ResumedSound ==
  ASSUME SInv, NEW text \in Text, NEW prov \in Provenances, UNCHANGED model,
         run' = ResumedRun(text, prov), model[run.id.key[1]].out = text
  PROVE  run' \in ProductionRun /\ IdentitySound'
<1>1. /\ run' \in ProductionRun /\ run'.id.on = run.id.on /\ run'.id.key = run.id.key
      /\ run'.id.out = text
  BY RunTypes DEF SInv
<1> QED
  BY <1>1 DEF SInv, IdentitySound, ResumedAnswerIsArchived

LEMMA ResumeRunSound ==
  ASSUME SInv, NEW r \in Reconcilers, ResumeRun(r)
  PROVE  SInv' /\ AnswersStay
<1>0. TypeOK /\ recon[r].text \in Text
  BY DEF SInv, TypeOK, Reconciliation
<1>1. UNCHANGED <<model, bridge, batch, jobs, probe, call, lost, used>>
  BY DEF ResumeRun
<1>2. CASE /\ run.id.key[1] = recon[r].key[1]
           /\ run' = ResumedRun(recon[r].text, "automatic")
           /\ recon' = [recon EXCEPT ![r].pc = "dispatch", ![r].job = "resume"]
  <2>1. model[recon[r].key[1]].out = recon[r].text
    BY DEF ResumeRun, SInv, ReconsSound, ReconSound
  <2>2. run' \in ProductionRun /\ IdentitySound'
    BY <1>0, <1>1, <1>2, <2>1, ResumedSound DEF Provenances
  <2>3. /\ recon' \in [Reconcilers -> Reconciliation]
        /\ \A x \in Reconcilers : recon'[x] = recon[x] \/ ReconSound(recon[x])'
    BY <1>2, SetReconSound DEF ReconPcs
  <2> QED
    BY <1>0, <1>1, <2>2, <2>3, SameModels, Frame DEF TypeOK
<1>3. CASE UNCHANGED run /\ SetRecon(r, "undecided")
  <2>1. /\ recon' \in [Reconcilers -> Reconciliation]
        /\ \A x \in Reconcilers : recon'[x] = recon[x] \/ ReconSound(recon[x])'
    BY <1>3, SetReconSound DEF SetRecon, ReconPcs
  <2> QED
    BY <1>0, <1>1, <1>3, <2>1, SameModels, Frame DEF TypeOK
<1> QED
  BY <1>2, <1>3 DEF ResumeRun

LEMMA ReleaseSound ==
  ASSUME SInv, NEW r \in Reconcilers, Release(r)
  PROVE  SInv' /\ AnswersStay
<1> DEFINE m == run.id.key[1]
<1>0. TypeOK /\ m \in Models /\ model[m] \in ModelRun /\ ModelSound(model[m])
  BY KeyTypes DEF SInv, TypeOK, ModelsSound
<1>1. UNCHANGED <<bridge, batch, jobs, call, lost, used>>
  BY DEF Release
<1>2. CASE /\ Releasable(m) /\ model' = [model EXCEPT ![m] = Reopened(model[m])]
           /\ run' = [run EXCEPT !.code = "unavailable", !.id = NoIdentity]
           /\ (SetRecon(r, "retry") /\ UNCHANGED probe) \/ EndRecon(r)
  <2>1. model' \in [Models -> ModelRun] /\ ModelsSound' /\ AnswersStay
    <3>1. model[m].out = NoText /\ model[m].status = "needs_review"
      BY <1>2 DEF Releasable
    <3>2. Reopened(model[m]) \in ModelRun /\ ModelSound(Reopened(model[m]))
      BY <1>0, <3>1, ModelMethods
    <3> HIDE DEF m
    <3> QED
      BY <1>0, <1>2, <3>1, <3>2, OneModel
  <2>2. run' \in ProductionRun /\ IdentitySound'
    <3>1. run'.id = NoIdentity
      BY <1>0, <1>2 DEF TypeOK, ProductionRun
    <3> QED
      BY <1>0, <1>2, <3>1, RunTypes, NoIdentitySound
  <2>3. /\ recon' \in [Reconcilers -> Reconciliation]
        /\ \A x \in Reconcilers : recon'[x] = recon[x] \/ ReconSound(recon[x])'
        /\ probe' \in [Probes -> {"none", "queued", "running", "done"}]
    <3>1. CASE SetRecon(r, "retry") /\ UNCHANGED probe
      BY <1>0, <3>1, SetReconSound DEF SetRecon, ReconPcs, TypeOK
    <3> QED
      BY <1>2, <3>1, ProbeDone
  <2> QED
    BY <1>0, <1>1, <2>1, <2>2, <2>3, Frame DEF TypeOK
<1>3. CASE UNCHANGED <<model, run, probe>> /\ SetRecon(r, "undecided")
  <2>1. /\ recon' \in [Reconcilers -> Reconciliation]
        /\ \A x \in Reconcilers : recon'[x] = recon[x] \/ ReconSound(recon[x])'
    BY <1>3, SetReconSound DEF SetRecon, ReconPcs
  <2> QED
    BY <1>0, <1>1, <1>3, <2>1, SameModels, Frame DEF TypeOK
<1> QED
  BY <1>2, <1>3 DEF Release

LEMMA DeclareLostSound ==
  ASSUME SInv, NEW r \in Reconcilers, DeclareLost(r)
  PROVE  SInv' /\ AnswersStay
<1> DEFINE m == run.id.key[1]
           v == Fail(model[m], model[m].sub, "abandoned")
<1>0. TypeOK /\ m \in Models /\ model[m] \in ModelRun /\ ModelSound(model[m])
  BY KeyTypes DEF SInv, TypeOK, ModelsSound
<1>1. UNCHANGED <<bridge, batch, jobs, call, used>> /\ EndRecon(r)
  BY DEF DeclareLost
<1>2. CASE /\ Releasable(m) /\ model' = [model EXCEPT ![m] = v]
           /\ run' = [run EXCEPT !.code = "lost", !.id = NoIdentity]
           /\ lost' = lost \union {run.id.key}
  <2>1. model' \in [Models -> ModelRun] /\ ModelsSound' /\ AnswersStay
    <3>1. model[m].out = NoText /\ model[m].status = "needs_review"
      BY <1>2 DEF Releasable
    <3>2. model[m].sub \in {"not_submitted", "unknown", "obtained", "no_answer"}
      BY <1>0 DEF ModelRun
    <3>3. v \in ModelRun /\ ModelSound(v)
      BY <1>0, <3>1, <3>2, ModelMethods
    <3> HIDE DEF m, v
    <3> QED
      BY <1>0, <1>2, <3>1, <3>3, OneModel
  <2>2. run' \in ProductionRun /\ IdentitySound'
    <3>1. run'.id = NoIdentity
      BY <1>0, <1>2 DEF TypeOK, ProductionRun
    <3> QED
      BY <1>0, <1>2, <3>1, RunTypes, NoIdentitySound
  <2>3. lost' \subseteq Keys
    <3>1. run.id.key \in Keys
      BY <1>2 DEF Releasable, RequiresReconciliation, SInv, IdentitySound
    <3> QED
      BY <1>0, <1>2, <3>1 DEF TypeOK
  <2> QED
    BY <1>0, <1>1, <2>1, <2>2, <2>3, ProbeDone, Frame DEF TypeOK
<1>3. CASE UNCHANGED <<model, run, lost>>
  BY <1>0, <1>1, <1>3, ProbeDone, SameModels, Frame DEF TypeOK
<1> QED
  BY <1>2, <1>3 DEF DeclareLost

LEMMA UndecidedSound ==
  ASSUME SInv, NEW r \in Reconcilers, Undecided(r)
  PROVE  SInv' /\ AnswersStay
<1> DEFINE a == recon[r].probe
<1>0. TypeOK
  BY DEF SInv
<1>1. UNCHANGED <<model, bridge, run, batch, jobs, call, lost, used>>
  BY DEF Undecided
<1>2. \/ SetRecon(r, "declare") /\ UNCHANGED probe
      \/ EndRecon(r)
      \/ /\ recon' = [recon EXCEPT ![r].pc = "dispatch", ![r].job = "resume"]
         /\ UNCHANGED probe
      \/ /\ recon' = [recon EXCEPT ![r] = IdleRecon]
         /\ \/ probe' = [probe EXCEPT ![a] = "done"]
            \/ probe' = [[probe EXCEPT ![a] = "done"] EXCEPT ![a + 1] = "queued"]
  <2>1. CASE recon[r].kind = "lost"
    BY <2>1 DEF Undecided
  <2>2. CASE recon[r].kind = "api"
    BY <2>2 DEF Undecided
  <2>3. CASE recon[r].kind \notin {"lost", "api"}
    BY <2>3 DEF Undecided
  <2> QED
    BY <2>1, <2>2, <2>3
<1>3. probe' \in [Probes -> {"none", "queued", "running", "done"}]
  BY <1>0, <1>2, ProbeDone DEF TypeOK
<1>4. /\ recon' \in [Reconcilers -> Reconciliation]
      /\ \A x \in Reconcilers : recon'[x] = recon[x] \/ ReconSound(recon[x])'
  <2>1. CASE \/ SetRecon(r, "declare")
             \/ recon' = [recon EXCEPT ![r].pc = "dispatch", ![r].job = "resume"]
    BY <2>1, SetReconSound DEF SetRecon, ReconPcs
  <2> QED
    BY <1>2, <2>1, ProbeDone, EndReconSound
<1> QED
  BY <1>0, <1>1, <1>3, <1>4, SameModels, Frame DEF TypeOK

LEMMA ReemitSound ==
  ASSUME SInv, NEW r \in Reconcilers, Reemit(r)
  PROVE  SInv' /\ AnswersStay
<1>0. TypeOK /\ run \in ProductionRun
  BY DEF SInv, TypeOK
<1>1. UNCHANGED <<model, bridge, batch, jobs, call, lost, used>>
  BY DEF Reemit
<1>2. CASE /\ run.reemitted < ReemissionLimit /\ run.gen < MaxGeneration
           /\ run' = [NextGeneration EXCEPT !.reemitted = @ + 1] /\ UNCHANGED probe
           /\ recon' = [recon EXCEPT ![r].pc = "dispatch", ![r].job = "stage"]
  <2>1. /\ NextGeneration \in ProductionRun /\ NextGeneration.id = NoIdentity
        /\ NextGeneration.reemitted = run.reemitted
    <3>1. NextGeneration.reemitted = run.reemitted
      BY <1>0 DEF NextGeneration, ProductionRun
    <3> QED
      BY <1>0, <1>2, <3>1, RunTypes
  <2>2. NextGeneration.reemitted + 1 \in 0..ReemissionLimit
    BY <1>0, <1>2, <2>1, SubmissionAssumption DEF ProductionRun
  <2>3. run' \in ProductionRun /\ run'.id = NoIdentity
    BY <1>2, <2>1, <2>2 DEF ProductionRun
  <2>4. /\ recon' \in [Reconcilers -> Reconciliation]
        /\ \A x \in Reconcilers : recon'[x] = recon[x] \/ ReconSound(recon[x])'
    BY <1>2, SetReconSound DEF ReconPcs
  <2> QED
    BY <1>0, <1>1, <1>2, <2>3, <2>4, NoIdentitySound, SameModels, Frame DEF TypeOK
<1>3. CASE UNCHANGED run /\ EndRecon(r)
  BY <1>0, <1>1, <1>3, ProbeDone, SameModels, Frame DEF TypeOK
<1> QED
  BY <1>2, <1>3 DEF Reemit

LEMMA SubmitType ==
  ASSUME TypeOK, NEW job, NEW g, Submit(job, g)
  PROVE  jobs' \in [JobKeys -> {"none", "queued", "running", "done"}]
BY DEF TypeOK, Submit

LEMMA DispatchSound ==
  ASSUME SInv, NEW r \in Reconcilers, Dispatch(r)
  PROVE  SInv' /\ AnswersStay
<1>0. TypeOK
  BY DEF SInv
<1>1. UNCHANGED <<model, bridge, run, batch, call, lost, used>> /\ EndRecon(r)
  BY DEF Dispatch
<1>2. jobs' \in [JobKeys -> {"none", "queued", "running", "done"}]
  <2>1. UNCHANGED jobs \/ Submit(recon[r].job, run.gen)
    BY DEF Dispatch
  <2> QED
    BY <1>0, <2>1, SubmitType DEF TypeOK
<1> QED
  BY <1>0, <1>1, <1>2, ProbeDone, SameModels, Frame DEF TypeOK

LEMMA StartAdoptionSound ==
  ASSUME SInv, NEW r \in Reconcilers, NEW by \in {"bridge", "analyst"},
         StartAdoption(r, [by |-> by, key |-> run.id.key])
  PROVE  SInv' /\ AnswersStay
<1> DEFINE t == [by |-> by, key |-> run.id.key]
           q == [IdleRecon EXCEPT !.kind = "operator", !.key = run.id.key, !.text = t,
                                  !.pc = "import"]
<1>0. TypeOK /\ run.id.key \in Keys \union {NoKey}
  BY KeyTypes DEF SInv
<1>1. /\ UNCHANGED <<model, bridge, run, batch, jobs, probe, call, lost, used>>
      /\ recon' = [recon EXCEPT ![r] = q]
  BY DEF StartAdoption
<1>2. t \in Text
  BY <1>0, SubmissionAssumption DEF Text, Keys, NoKey, Models, Generations
<1> HIDE DEF t
<1>3. q \in Reconciliation /\ q.pc = "import"
  <2>1. \A k \in Keys \union {NoKey} :
          [IdleRecon EXCEPT !.kind = "operator", !.key = k, !.text = t, !.pc = "import"]
            \in Reconciliation
    BY <1>2, IdleIsReconciliation DEF Reconciliation, ReconPcs
  <2> QED
    BY <1>0, <2>1 DEF IdleRecon
<1> HIDE DEF q
<1>4. /\ recon' \in [Reconcilers -> Reconciliation]
      /\ \A x \in Reconcilers : recon'[x] = recon[x] \/ ReconSound(recon[x])'
  BY <1>1, <1>3, OneRecon
<1> QED
  BY <1>0, <1>1, <1>4, SameModels, Frame DEF TypeOK

LEMMA ImportAnswerSound ==
  ASSUME SInv, NEW r \in Reconcilers, ImportAnswer(r)
  PROVE  SInv' /\ AnswersStay
<1> DEFINE m == recon[r].key[1]
           v == Succeed(model[m], recon[r].text)
<1>0. /\ TypeOK /\ m \in Models /\ model[m] \in ModelRun /\ ModelSound(model[m])
      /\ recon[r].text \in Text
  BY KeyTypes DEF SInv, TypeOK, ModelsSound, Reconciliation
<1>1. UNCHANGED <<bridge, run, batch, jobs, probe, call, lost, used>>
  BY DEF ImportAnswer
<1>2. /\ recon' \in [Reconcilers -> Reconciliation]
      /\ \A x \in Reconcilers : recon'[x] = recon[x] \/ ReconSound(recon[x])'
  <2>1. CASE SetRecon(r, "reopen")
    BY <2>1, SetReconSound DEF SetRecon, ReconPcs
  <2> QED
    BY <2>1, EndReconSound DEF ImportAnswer
<1>3. model' \in [Models -> ModelRun] /\ ModelsSound' /\ AnswersStay
  <2>1. CASE UNCHANGED model
    BY <1>0, <2>1, SameModels DEF TypeOK
  <2>2. CASE /\ model[m].status \in {"needs_review", "failed"}
             /\ model' = [model EXCEPT ![m] = v]
    <3>1. v \in ModelRun /\ ModelSound(v) /\ model[m].out = NoText
      BY <1>0, <2>2, ModelMethods DEF ModelSound
    <3> HIDE DEF m, v
    <3> QED
      BY <1>0, <2>2, <3>1, OneModel
  <2> QED
    BY <2>1, <2>2 DEF ImportAnswer
<1> QED
  BY <1>0, <1>1, <1>2, <1>3, Frame DEF TypeOK

LEMMA ReopenRunSound ==
  ASSUME SInv, NEW r \in Reconcilers, ReopenRun(r)
  PROVE  SInv' /\ AnswersStay
<1>0. TypeOK /\ recon[r].text \in Text
  BY DEF SInv, TypeOK, Reconciliation
<1>1. UNCHANGED <<model, bridge, batch, jobs, probe, call, lost, used>>
  BY DEF ReopenRun
<1>2. CASE /\ run.id.key[1] = recon[r].key[1]
           /\ model[recon[r].key[1]].out = recon[r].text
           /\ run' = ResumedRun(recon[r].text, "operator")
           /\ recon' = [recon EXCEPT ![r].pc = "dispatch", ![r].job = "resume"]
  <2>1. run' \in ProductionRun /\ IdentitySound'
    BY <1>0, <1>1, <1>2, ResumedSound DEF Provenances
  <2>2. /\ recon' \in [Reconcilers -> Reconciliation]
        /\ \A x \in Reconcilers : recon'[x] = recon[x] \/ ReconSound(recon[x])'
    BY <1>2, SetReconSound DEF ReconPcs
  <2> QED
    BY <1>0, <1>1, <2>1, <2>2, SameModels, Frame DEF TypeOK
<1>3. CASE UNCHANGED run /\ recon' = [recon EXCEPT ![r] = IdleRecon]
  BY <1>0, <1>1, <1>3, EndReconSound, SameModels, Frame DEF TypeOK
<1> QED
  BY <1>2, <1>3 DEF ReopenRun

LEMMA LoseReconSound ==
  ASSUME SInv, NEW r \in Reconcilers, LoseRecon(r)
  PROVE  SInv' /\ AnswersStay
<1>1. /\ UNCHANGED <<model, bridge, run, batch, jobs, call, lost>> /\ TypeOK /\ EndRecon(r)
      /\ used.drop < MaxDrops /\ used' = [used EXCEPT !.drop = @ + 1]
  BY DEF LoseRecon, SInv
<1>2. used' \in [crash : 0..MaxCrashes, drop : 0..MaxDrops, lapse : 0..MaxLapses,
                 cancel : 0..MaxCancels, turn : 0..MaxTurns]
  BY <1>1, SubmissionAssumption DEF TypeOK
<1> QED
  BY <1>1, <1>2, ProbeDone, SameModels, Frame DEF TypeOK

-----------------------------------------------------------------------------
(* Requests on the run, and its batch.                                     *)
LEMMA NextGenerationSound ==
  ASSUME SInv, RetryRun \/ ResumeCancelled
  PROVE  SInv' /\ AnswersStay
<1>1. /\ UNCHANGED <<model, bridge, batch, probe, call, recon, lost, used>> /\ TypeOK
      /\ run.gen < MaxGeneration /\ run' = NextGeneration /\ Submit("stage", run.gen + 1)
  BY DEF RetryRun, ResumeCancelled, SInv
<1>2. run' \in ProductionRun /\ run'.id = NoIdentity
  BY <1>1, RunTypes
<1>3. jobs' \in [JobKeys -> {"none", "queued", "running", "done"}]
  BY <1>1, SubmitType
<1> QED
  BY <1>1, <1>2, <1>3, NoIdentitySound, SameModels, Frame DEF TypeOK

LEMMA CancelRunSound ==
  ASSUME SInv, CancelRun
  PROVE  SInv' /\ AnswersStay
<1>1. /\ UNCHANGED <<model, bridge, batch, probe, call, recon, lost>> /\ TypeOK
      /\ run' = [run EXCEPT !.status = "cancelled"]
      /\ used.cancel < MaxCancels /\ used' = [used EXCEPT !.cancel = @ + 1]
  BY DEF CancelRun, SInv
<1>2. used' \in [crash : 0..MaxCrashes, drop : 0..MaxDrops, lapse : 0..MaxLapses,
                 cancel : 0..MaxCancels, turn : 0..MaxTurns]
  BY <1>1, SubmissionAssumption DEF TypeOK
<1>3. jobs' \in [JobKeys -> {"none", "queued", "running", "done"}]
  BY DEF CancelRun, SInv, TypeOK
<1>4. run' \in ProductionRun /\ run'.id = run.id
  BY <1>1 DEF TypeOK, ProductionRun
<1>5. IdentitySound'
  BY <1>1, <1>4 DEF SInv, IdentitySound, ResumedAnswerIsArchived
<1> QED
  BY <1>1, <1>2, <1>3, <1>4, <1>5, SameModels, Frame DEF TypeOK

LEMMA TurnBatchSound ==
  ASSUME SInv, TurnBatch
  PROVE  SInv' /\ AnswersStay
<1>1. used' \in [crash : 0..MaxCrashes, drop : 0..MaxDrops, lapse : 0..MaxLapses,
                 cancel : 0..MaxCancels, turn : 0..MaxTurns]
  BY SubmissionAssumption DEF TurnBatch, SInv, TypeOK
<1>2. batch' \in {"open", "busy", "paused"}
  BY DEF TurnBatch
<1> QED
  BY <1>1, <1>2, QuietStep DEF TurnBatch, SInv, TypeOK

-----------------------------------------------------------------------------
(* Every step preserves the invariant and the answers on file.             *)
LEMMA StepSound == SInv /\ [Next]_vars => SInv' /\ AnswersStay
<1> SUFFICES ASSUME SInv, [Next]_vars PROVE SInv' /\ AnswersStay
  OBVIOUS
<1>1. ASSUME NEW c \in Callers, CallStep(c) \/ LoseCall(c) \/ LapseLease(c)
      PROVE  SInv' /\ AnswersStay
  BY <1>1, StartStageSound, ClaimSound, PostSound, ReceiveSound,
     ReopenAfterTerminalFailureSound, SettleSound, ApplySound, RecordSound, FollowSound,
     LoseCallSound, LapseLeaseSound DEF CallStep
<1>2. ASSUME NEW r \in Reconcilers,
             StartProbe(r, "job") \/ ReconStep(r) \/ AnalystStep(r) \/ LoseRecon(r)
      PROVE  SInv' /\ AnswersStay
  <2>1. CASE ReconStep(r)
    BY <2>1, RetrieveSound, AdoptAnswerSound, ResumeRunSound, ReleaseSound,
       DeclareLostSound, UndecidedSound, ReemitSound, DispatchSound, ImportAnswerSound,
       ReopenRunSound DEF ReconStep
  <2>2. CASE AnalystStep(r)
    BY <2>2, StartProbeSound, StartAdoptionSound DEF AnalystStep
  <2> QED
    BY <1>2, <2>1, <2>2, StartProbeSound, LoseReconSound
<1>3. CASE UNCHANGED vars
  <2>1. TypeOK' /\ UNCHANGED <<model, run, recon>>
    BY <1>3 DEF vars, SInv, TypeOK
  <2> QED
    BY <2>1, QuietStep
<1> QED
  BY <1>1, <1>2, <1>3, BridgeStepSound, NextGenerationSound, CancelRunSound, TurnBatchSound
  DEF Next

(* The records of a submission are sound, whatever is lost, delayed or     *)
(* executed twice (the inductive invariant).                               *)
THEOREM SubmissionInvariance == Spec => []SInv
<1>1. Init => SInv
  BY InitSound
<1>2. SInv /\ [Next]_vars => SInv'
  BY StepSound
<1> QED
  BY <1>1, <1>2, PTL DEF Spec

(* Every record has its type: a submission never exceeds its bounds and a  *)
(* declared loss names a submission (ModelRun, ProductionRun).             *)
THEOREM SubmissionTypes == Spec => []TypeOK
<1>1. SInv => TypeOK
  BY DEF SInv
<1> QED
  BY <1>1, SubmissionInvariance, PTL

(* A run that continues on an adopted answer continues on the bytes        *)
(* archived for the exact ModelRun (_adopt_and_resume, adopt_manual).      *)
THEOREM ResumesOnTheArchive == Spec => []ResumedAnswerIsArchived
<1>1. SInv => ResumedAnswerIsArchived
  BY DEF SInv, IdentitySound
<1> QED
  BY <1>1, SubmissionInvariance, PTL

(* An answer on file is never replaced and its ModelRun never submits      *)
(* again, whatever a late call, a stale probe or a declared loss says      *)
(* (_require_active, _release, adopt_recovery_output).                     *)
THEOREM AnswersAreKept == Spec => ArchivedAnswerStays
<1>1. SInv /\ [Next]_vars
        => [\A m \in Models : model[m].out # NoText => model'[m] = model[m]]_vars
  BY StepSound DEF AnswersStay
<1> QED
  BY <1>1, SubmissionInvariance, PTL DEF Spec, ArchivedAnswerStays

-----------------------------------------------------------------------------
(* What keeps a second submission away.  The code lets each of the seven   *)
(* steps below happen (README, section 5); where none of them does, no     *)
(* other behaviour submits a prompt twice.                                 *)

(* A ModelRun whose submission nothing has settled.                        *)
Unsettled(m) ==
    \/ model[m].status = "needs_review"
    \/ model[m].status = "running" /\ model[m].sub # "not_submitted"

Current(c) == run.gen = call[c].gen /\ run.status = "running"
Own(c) == call[c].key[2] = model[call[c].key[1]].attempt

(* An execution submits in the running generation of its run only          *)
(* (production_jobs.py:685 reads the run once).                            *)
ClaimsCurrent == \A c \in Callers :
    call[c].pc = "claim" /\ call'[c].pc = "invoke" => Current(c)

(* It records its result in that generation only (production_jobs.py:844). *)
RecordsCurrent == \A c \in Callers :
    call[c].pc = "record" /\ call'[c].pc = "follow" /\ run' # run => Current(c)

(* A review without identity leaves nothing unsettled                      *)
(* (model_gateway.py:1275 calls a sealed submission a failure).            *)
ReviewsNamed == \A c \in Callers :
    /\ call[c].pc = "record" /\ call'[c].pc = "follow" /\ run' # run
    /\ run'.status = "needs_review" /\ ~run'.id.on
    => ~Unsettled(call[c].key[1])

(* A handler changes the attempt it submitted itself                       *)
(* (model_gateway.py:1501).                                                *)
TouchesOwn == \A c \in Callers :
    call[c].pc \in {"invoke", "settle"} /\ call'[c] # call[c] /\ model' # model => Own(c)

(* A failure is final on the proof of the Bridge                           *)
(* (production_reconciliation_resolver.py:114).                            *)
FailuresFinal == \A r \in Reconcilers :
    recon[r].pc = "retrieve" /\ recon'[r].pc = "release" => bridge[recon[r].key] = "closed"

(* It releases the submission that was asked about                         *)
(* (production_reconciliation_resolver.py:249).                            *)
ReleasesProbed == \A r \in Reconcilers :
    recon[r].pc = "release" /\ recon'[r] # recon[r] /\ model' # model
    => recon[r].key = run.id.key

(* A cancelled run is resumed with nothing unsettled                       *)
(* (domain/production.py:1068).                                            *)
ResumesQuiet ==
    run.status = "cancelled" /\ run'.status = "running" => \A m \in Models : ~Unsettled(m)

Careful ==
    /\ ClaimsCurrent /\ RecordsCurrent /\ ReviewsNamed /\ TouchesOwn
    /\ FailuresFinal /\ ReleasesProbed /\ ResumesQuiet

(* A key nothing will be answered under any more, or nothing was sent.     *)
Dead(k) ==
    \/ k \in lost \/ model[k[1]].out # NoText \/ bridge[k] = "closed"
    \/ bridge[k] = "none" /\ \A c \in Callers : call[c].pc = "invoke" => call[c].key # k

LastKey(m) == <<m, model[m].attempt>>
Sent(r) == r.status = "running" /\ r.sub = "unknown"

(* A ModelRun whose last submission may still be answered.                 *)
Live(m) ==
    Sent(model[m]) \/ (model[m].status = "needs_review" /\ ~Dead(LastKey(m)))

RowAs(r) ==
    /\ (r.status = "needs_review") <=> (r.code \in {"reconcile", "no_final"})
    /\ r.code = "abandoned" => r.status = "failed"
    /\ r.status = "succeeded" => r.out # NoText
    /\ r.status = "absent" => r.attempt = 0
RowsAs == \A m \in Models : RowAs(model[m])

Sending(c) == call[c].pc \in {"invoke", "wait", "settle"}
Active(c) == call[c].pc \notin {"idle", "follow"}

(* A submission belongs to one execution.                                  *)
SenderAs(c) == Sending(c) =>
    /\ call[c].key \in Keys
    /\ call[c].key[2] <= model[call[c].key[1]].attempt
    /\ \A d \in Callers : Sending(d) /\ call[d].key = call[c].key => d = c
SendersAs == \A c \in Callers : SenderAs(c)

(* What an execution knows of its submission.                              *)
ResultAs(c) ==
    /\ call[c].pc = "invoke" => bridge[call[c].key] \in {"none", "closed"}
    /\ call[c].pc = "settle" =>
         /\ call[c].res \in {"completed", "terminal", "unknown", "stopped", "pre", "rejected"}
         /\ call[c].res = "pre" => bridge[call[c].key] \in {"none", "closed"}
         /\ call[c].res \in {"terminal", "rejected"} => bridge[call[c].key] = "closed"
    /\ call[c].pc \in {"apply", "record"} /\ call[c].res = "answer" =>
         model[call[c].key[1]].status = "succeeded"
ResultsAs == \A c \in Callers : ResultAs(c)

BridgeAs == \A k \in Keys : bridge[k] # "none" => k[2] <= model[k[1]].attempt

(* At most the last submission of one ModelRun may still be answered.      *)
DeadAs == \A k \in Keys : Dead(k) \/ (Live(k[1]) /\ k = LastKey(k[1]))
OneLive == \A m, n \in Models : Live(m) /\ Live(n) => m = n

IdentityAs ==
    \/ run.id.key = NoKey /\ ~run.id.on
    \/ /\ run.id.key = LastKey(run.id.key[1])
       /\ model[run.id.key[1]].status \in {"needs_review", "succeeded"}

(* The executions of the generation work on n, or on an answer.            *)
Covered(n) == \A c \in Callers : Active(c) /\ call[c].gen = run.gen =>
    call[c].key[1] = n \/ model[call[c].key[1]].status = "succeeded"

(* The run knows of the ModelRun that may still be answered.               *)
LiveAs == \A n \in Models : Live(n) =>
    CASE run.status = "running" -> ModelFor(run.gen) = n /\ Covered(n)
      [] run.status = "cancelled" -> TRUE
      [] OTHER -> \/ RequiresReconciliation /\ n = run.id.key[1]
                  \/ ReusesModelRun /\ n = run.gen /\ Covered(n)

GenAs == /\ \A m \in Models : model[m].status # "absent" => m <= run.gen
         /\ \A c \in Callers : Active(c) => call[c].gen <= run.gen

(* The ModelRun an execution of the generation found is still the one.     *)
TargetAs(c) ==
    LET g == run.gen
        e == Max(Earlier(g))
        m == call[c].key[1]
    IN  Active(c) /\ call[c].gen = g =>
          /\ m # g => ReusesModelRun /\ Earlier(g) # {} /\ m = e
          /\ m = g /\ ReusesModelRun /\ model[g].status = "absent" /\ Earlier(g) # {} =>
               model[e].code = "abandoned" \/ model[e].status = "succeeded"
          /\ m # g /\ (run.status = "running" \/ run.id.on) /\ model[m].status # "succeeded" =>
               model[g].status = "absent" /\ model[m].code # "abandoned"
TargetsAs == \A c \in Callers : TargetAs(c)

(* What a probe knows of the submission it asked about.                    *)
ProbeAs(r) ==
    /\ recon[r].pc = "retrieve" => recon[r].key \in Keys
    /\ recon[r].pc = "release" => recon[r].key \in Keys /\ bridge[recon[r].key] = "closed"
    /\ recon[r].pc = "import" => recon[r].text # NoText
ProbesAs == \A r \in Reconcilers : ProbeAs(r)

(* What is known of the submissions and of the run that waits for one, and *)
(* the inductive invariant.                                                *)
KeysAs == RowsAs /\ SendersAs /\ ResultsAs /\ BridgeAs /\ DeadAs /\ OneLive /\ ProbesAs
BInv == SInv /\ KeysAs /\ IdentityAs
CInv == BInv /\ LiveAs /\ GenAs /\ TargetsAs

-----------------------------------------------------------------------------
(* What most steps make of a row, an execution and a key.                  *)
RowStands(m) ==
    /\ (model'[m].status = "absent") <=> (model[m].status = "absent")
    /\ model[m].status = "succeeded" => model'[m].status = "succeeded"
    /\ model[m].code = "abandoned" =>
         model'[m].code = "abandoned" \/ model'[m].status = "succeeded"

RowKept(m) ==
    /\ RowStands(m)
    /\ model'[m].attempt = model[m].attempt
    /\ Sent(model'[m]) => Sent(model[m])
    /\ Sent(model[m]) \/ model[m].status = "needs_review" =>
         \/ Sent(model'[m]) \/ model'[m].status = "needs_review"
         \/ Dead(LastKey(m))'

CallStands(c) == Active(c)' =>
    /\ Active(c) /\ call'[c].gen = call[c].gen /\ call'[c].key[1] = call[c].key[1]

CallKept(c) ==
    /\ CallStands(c)
    /\ Sending(c)' => Sending(c) /\ call'[c].key = call[c].key
    /\ call'[c].pc = "invoke" => call[c].pc = "invoke"

SameCall(c) ==
    /\ call'[c].pc = call[c].pc /\ call'[c].key = call[c].key /\ call'[c].res = call[c].res

KeyKept(k) ==
    /\ bridge[k] = "closed" => bridge'[k] = "closed"
    /\ bridge[k] \in {"none", "closed"} =>
         \/ bridge'[k] \in {"none", "closed"}
         \/ \E c \in Callers : /\ call[c].pc = "invoke" /\ call[c].key = k
                               /\ call'[c].pc # "invoke"

(* No submission is made and none is given up without reason.              *)
Kept ==
    /\ lost \subseteq lost' /\ AnswersStay
    /\ \A m \in Models : RowKept(m)
    /\ \A k \in Keys : KeyKept(k)
    /\ \A c \in Callers : Sending(c)' => Sending(c) /\ call'[c].key = call[c].key
    /\ \A c \in Callers : call'[c].pc = "invoke" => call[c].pc = "invoke"

(* Such a step, with what executions and probes know after it; it gives no *)
(* review up either.                                                       *)
QuietRows ==
    /\ \A m \in Models : model'[m].code = "abandoned" => model[m].code = "abandoned"
    /\ \A m \in Models : model[m].status = "needs_review" =>
                          model'[m].status \in {"needs_review", "succeeded"}

Quiet ==
    /\ Kept /\ RowsAs'
    /\ \A c \in Callers : CallKept(c) /\ (SameCall(c) \/ ResultAs(c)')
    /\ \A k \in Keys : bridge[k] = "none" /\ bridge'[k] # "none" =>
                        k[2] <= model[k[1]].attempt
    /\ \A r \in Reconcilers : recon'[r] = recon[r] \/ ProbeAs(r)'

LEMMA KeyParts ==
  ASSUME NEW k \in Keys
  PROVE  k[1] \in Models /\ k[2] \in 1..MaxAttempt /\ k = <<k[1], k[2]>>
BY DEF Keys

LEMMA LastKeyType ==
  ASSUME SInv, NEW m \in Models, model[m].status # "absent"
  PROVE  LastKey(m) \in Keys /\ LastKey(m)[1] = m /\ LastKey(m)[2] = model[m].attempt
<1>1. model[m] \in ModelRun /\ ModelSound(model[m])
  BY DEF SInv, TypeOK, ModelsSound
<1>2. model[m].attempt \in 1..MaxAttempt
  BY <1>1, SubmissionAssumption DEF ModelRun, ModelSound
<1> QED
  BY <1>2 DEF LastKey, Keys

(* A key with nothing to come stays one.                                   *)
LEMMA DeadStays ==
  ASSUME Kept, NEW k \in Keys, Dead(k)
  PROVE  Dead(k)'
<1>1. CASE k \in lost
  BY <1>1 DEF Kept, Dead
<1>2. CASE model[k[1]].out # NoText
  BY <1>2, KeyParts DEF Kept, AnswersStay, Dead
<1>3. CASE bridge[k] = "closed"
  BY <1>3 DEF Kept, KeyKept, Dead
<1>4. CASE bridge[k] = "none" /\ \A c \in Callers : call[c].pc = "invoke" => call[c].key # k
  <2>1. \A c \in Callers : call'[c].pc = "invoke" => call'[c].key # k
    BY <1>4 DEF Kept, Sending
  <2>2. bridge'[k] \in {"none", "closed"}
    BY <1>4 DEF Kept, KeyKept
  <2> QED
    BY <2>1, <2>2 DEF Dead
<1> QED
  BY <1>1, <1>2, <1>3, <1>4 DEF Dead

(* Such a step revives nothing.                                            *)
LEMMA LiveShrinks ==
  ASSUME SInv, DeadAs, Kept, NEW m \in Models, Live(m)'
  PROVE  Live(m)
<1>1. RowKept(m)
  BY DEF Kept
<1>2. CASE Sent(model'[m])
  BY <1>1, <1>2 DEF RowKept, Live
<1>3. CASE model'[m].status = "needs_review" /\ ~Dead(LastKey(m))'
  <2>1. model[m].status # "absent" /\ LastKey(m)' = LastKey(m)
    BY <1>1, <1>3 DEF RowKept, RowStands, LastKey
  <2>2. LastKey(m) \in Keys /\ LastKey(m)[1] = m
    BY <2>1, LastKeyType
  <2>3. ~Dead(LastKey(m))
    <3>1. PICK k \in Keys : k = LastKey(m)
      BY <2>2
    <3>2. ~Dead(k)'
      BY <1>3, <2>1, <3>1 DEF Dead
    <3> QED
      BY <3>1, <3>2, DeadStays DEF Dead
  <2> QED
    BY <2>2, <2>3 DEF DeadAs
<1> QED
  BY <1>2, <1>3 DEF Live

LEMMA DeadAsKept ==
  ASSUME SInv, DeadAs, OneLive, Kept
  PROVE  DeadAs' /\ OneLive'
<1>1. ASSUME NEW k \in Keys, ~Dead(k)'
      PROVE  Live(k[1])' /\ k = LastKey(k[1])'
  <2> DEFINE m == k[1]
  <2>1. ~Dead(k)
    BY <1>1, DeadStays
  <2>2. Live(m) /\ k = LastKey(m) /\ m \in Models
    BY <2>1, KeyParts DEF DeadAs
  <2>3. RowKept(m)
    BY <2>2 DEF Kept
  <2>4. LastKey(m)' = LastKey(m)
    BY <2>3 DEF RowKept, RowStands, LastKey
  <2>5. ~Dead(LastKey(m))'
    BY <1>1, <2>2, <2>4 DEF Dead
  <2>6. Sent(model'[m]) \/ model'[m].status = "needs_review"
    BY <2>2, <2>3, <2>5 DEF RowKept, Live
  <2> QED
    BY <2>2, <2>4, <2>5, <2>6 DEF Live
<1>2. DeadAs'
  BY <1>1 DEF DeadAs
<1>3. OneLive'
  BY LiveShrinks DEF OneLive
<1> QED
  BY <1>2, <1>3

(* The parts of the invariant such a step keeps.                           *)
LEMMA SendersKept ==
  ASSUME SInv, SendersAs, Kept
  PROVE  SendersAs'
<1> SUFFICES ASSUME NEW c \in Callers, Sending(c)'
             PROVE  /\ call'[c].key \in Keys
                    /\ call'[c].key[2] <= model'[call'[c].key[1]].attempt
                    /\ \A d \in Callers : Sending(d)' /\ call'[d].key = call'[c].key => d = c
  BY DEF SendersAs, SenderAs
<1>1. Sending(c) /\ call'[c].key = call[c].key
  BY DEF Kept
<1>2. /\ call[c].key \in Keys /\ call[c].key[1] \in Models
      /\ call[c].key[2] <= model[call[c].key[1]].attempt
      /\ \A d \in Callers : Sending(d) /\ call[d].key = call[c].key => d = c
  BY <1>1, KeyParts DEF SendersAs, SenderAs
<1>3. model'[call[c].key[1]].attempt = model[call[c].key[1]].attempt
  BY <1>2 DEF Kept, RowKept, RowStands
<1>4. \A d \in Callers : Sending(d)' => Sending(d) /\ call'[d].key = call[d].key
  BY DEF Kept
<1> QED
  BY <1>1, <1>2, <1>3, <1>4

LEMMA ResultsKept ==
  ASSUME SInv, SendersAs, ResultsAs, Kept, \A c \in Callers : SameCall(c) \/ ResultAs(c)'
  PROVE  ResultsAs'
<1> SUFFICES ASSUME NEW c \in Callers, SameCall(c) PROVE ResultAs(c)'
  BY DEF ResultsAs
<1> DEFINE k == call[c].key
<1>0. ResultAs(c) /\ k[1] \in Models
  BY KeyTypes DEF ResultsAs, SInv
<1>1. ASSUME Sending(c), bridge[k] \in {"none", "closed"},
             call[c].pc \in {"invoke", "settle"}
      PROVE  bridge'[k] \in {"none", "closed"}
  <2>1. k \in Keys /\ \A d \in Callers : Sending(d) /\ call[d].key = k => d = c
    BY <1>1 DEF SendersAs, SenderAs
  <2>2. SUFFICES ASSUME NEW d \in Callers, call[d].pc = "invoke", call[d].key = k,
                        call'[d].pc # "invoke"
                 PROVE  FALSE
    BY <1>1, <2>1 DEF Kept, KeyKept
  <2>3. d = c
    BY <2>1, <2>2 DEF Sending
  <2> QED
    BY <1>1, <2>2, <2>3 DEF SameCall
<1>2. call[c].pc = "invoke" => bridge'[k] \in {"none", "closed"}
  BY <1>0, <1>1 DEF ResultAs, Sending
<1>3. call[c].pc = "settle" =>
         /\ call[c].res = "pre" => bridge'[k] \in {"none", "closed"}
         /\ call[c].res \in {"terminal", "rejected"} => bridge'[k] = "closed"
  <2> SUFFICES ASSUME call[c].pc = "settle"
               PROVE  /\ call[c].res = "pre" => bridge'[k] \in {"none", "closed"}
                      /\ call[c].res \in {"terminal", "rejected"} => bridge'[k] = "closed"
    OBVIOUS
  <2>1. Sending(c) /\ k \in Keys
    BY DEF SendersAs, SenderAs, Sending
  <2>2. call[c].res = "pre" => bridge'[k] \in {"none", "closed"}
    BY <1>0, <1>1, <2>1 DEF ResultAs
  <2>3. bridge[k] = "closed" => bridge'[k] = "closed"
    BY <2>1 DEF Kept, KeyKept
  <2> QED
    BY <1>0, <2>2, <2>3 DEF ResultAs
<1>4. model[k[1]].status = "succeeded" => model'[k[1]].status = "succeeded"
  BY <1>0 DEF Kept, RowKept, RowStands
<1> QED
  BY <1>0, <1>2, <1>3, <1>4 DEF ResultAs, SameCall

LEMMA BridgeAsKept ==
  ASSUME SInv, BridgeAs, Kept,
         \A k \in Keys : bridge[k] = "none" /\ bridge'[k] # "none"
                           => k[2] <= model[k[1]].attempt
  PROVE  BridgeAs'
<1> SUFFICES ASSUME NEW k \in Keys, bridge'[k] # "none"
             PROVE  k[2] <= model'[k[1]].attempt
  BY DEF BridgeAs
<1>1. k[2] <= model[k[1]].attempt
  BY DEF BridgeAs
<1>2. model'[k[1]].attempt = model[k[1]].attempt
  BY KeyParts DEF Kept, RowKept, RowStands
<1> QED
  BY <1>1, <1>2

(* The generations before g that have a ModelRun.                          *)
LEMMA EarlierFacts ==
  ASSUME NEW g \in Generations
  PROVE  /\ Earlier(g) \subseteq Models
         /\ Earlier(g) # {} =>
              /\ Max(Earlier(g)) \in Earlier(g) /\ Max(Earlier(g)) \in Models
              /\ Max(Earlier(g)) < g /\ model[Max(Earlier(g))].status # "absent"
              /\ \A x \in Earlier(g) : x <= Max(Earlier(g))
<1>1. Earlier(g) \in SUBSET (0..MaxGeneration) /\ MaxGeneration \in Nat /\ g \in Nat
  BY SubmissionAssumption DEF Earlier, Generations
<1>2. ASSUME Earlier(g) # {}
      PROVE  Max(Earlier(g)) \in Earlier(g) /\ \A x \in Earlier(g) : x <= Max(Earlier(g))
  BY <1>1, <1>2, MaxOfBounded
<1>3. \A x \in Earlier(g) : x \in Models /\ x < g /\ model[x].status # "absent"
  BY <1>1 DEF Earlier, Models, Generations
<1> QED
  BY <1>2, <1>3

SameRows == \A m \in Models : (model'[m].status = "absent") <=> (model[m].status = "absent")

LEMMA EarlierKept ==
  ASSUME NEW g \in Generations,
         \A m \in Models : m # g =>
           ((model'[m].status = "absent") <=> (model[m].status = "absent"))
  PROVE  Earlier(g)' = Earlier(g) /\ Max(Earlier(g))' = Max(Earlier(g))
<1>1. \A m \in 0..(g - 1) : m \in Models /\ m # g
  BY SubmissionAssumption DEF Models, Generations
<1>2. Earlier(g)' = Earlier(g)
  BY <1>1 DEF Earlier
<1> QED
  BY <1>2

(* A ModelRun the run continues is the one it would continue afterwards.   *)
LEMMA ModelForKept ==
  ASSUME SameRows, NEW g \in Generations, NEW n \in Models, ModelFor(g) = n,
         model[n].status # "absent", model'[n].code # "abandoned"
  PROVE  ModelFor(g)' = n
<1>1. Earlier(g)' = Earlier(g) /\ Max(Earlier(g))' = Max(Earlier(g))
  BY EarlierKept DEF SameRows
<1>2. (model'[g].status = "absent") <=> (model[g].status = "absent")
  BY DEF SameRows, Models
<1>3. CASE n = g
  <2>1. model'[g].status # "absent"
    BY <1>2, <1>3
  <2> QED
    BY <1>3, <2>1 DEF ModelFor
<1>4. CASE n # g
  <2>1. n = Max(Earlier(g)) /\ ReusesModelRun /\ model[g].status = "absent" /\ Earlier(g) # {}
    BY <1>4 DEF ModelFor
  <2>2. model'[Max(Earlier(g))].code # "abandoned"
    BY <2>1
  <2> QED
    BY <1>1, <1>2, <2>1, <2>2 DEF ModelFor
<1> QED
  BY <1>3, <1>4

LEMMA LiveRow ==
  ASSUME RowsAs, NEW m \in Models, Live(m)
  PROVE  /\ model[m].status \in {"running", "needs_review"}
         /\ model[m].code # "abandoned" /\ Unsettled(m)
BY DEF RowsAs, RowAs, Live, Sent, Unsettled

(* The executions of the generation still work on n, or on an answer.      *)
LEMMA CoveredKept ==
  ASSUME TypeOK, \A m \in Models : RowStands(m), \A c \in Callers : CallStands(c),
         run'.gen = run.gen, NEW n, Covered(n)
  PROVE  Covered(n)'
<1> SUFFICES ASSUME NEW c \in Callers, Active(c)', call'[c].gen = run.gen
             PROVE  call'[c].key[1] = n \/ model'[call'[c].key[1]].status = "succeeded"
  BY DEF Covered
<1>1. Active(c) /\ call'[c].gen = call[c].gen /\ call'[c].key[1] = call[c].key[1]
  BY DEF CallStands
<1>2. call[c].key[1] = n \/ model[call[c].key[1]].status = "succeeded"
  BY <1>1 DEF Covered
<1>3. call[c].key[1] \in Models
  BY KeyTypes
<1> QED
  BY <1>1, <1>2, <1>3 DEF RowStands

(* Neither a row nor an execution misleads the run.                        *)
LEMMA TargetsKept ==
  ASSUME SInv, TargetsAs, \A m \in Models : RowStands(m),
         \A c \in Callers : CallStands(c), run'.gen = run.gen,
         run'.status = "running" \/ run'.id.on => run.status = "running" \/ run.id.on,
         run'.status = "running" \/ run'.id.on =>
           \A m \in Models : model'[m].code = "abandoned" => model[m].code = "abandoned"
  PROVE  TargetsAs'
<1>1. PICK g \in Generations : g = run.gen
  BY KeyTypes DEF SInv
<1>2. SameRows /\ Earlier(g)' = Earlier(g) /\ Max(Earlier(g))' = Max(Earlier(g))
  BY EarlierKept DEF RowStands, SameRows
<1> SUFFICES ASSUME NEW c \in Callers, Active(c)', call'[c].gen = g
             PROVE  TargetAs(c)'
  BY <1>1 DEF TargetsAs, TargetAs
<1>3. Active(c) /\ call[c].gen = g /\ call'[c].key[1] = call[c].key[1]
  BY DEF CallStands
<1>4. PICK m \in Models : m = call[c].key[1]
  BY KeyTypes DEF SInv
<1>5. TargetAs(c) /\ g \in Models
  BY DEF TargetsAs, Models
<1>6. Earlier(g) # {} => Max(Earlier(g)) \in Models
  BY EarlierFacts
<1>7. PICK e : e = Max(Earlier(g))
  OBVIOUS
<1>8. m # g => ReusesModelRun /\ Earlier(g) # {} /\ m = e
  BY <1>1, <1>3, <1>4, <1>5, <1>7 DEF TargetAs
<1>9. m = g /\ ReusesModelRun /\ model'[g].status = "absent" /\ Earlier(g) # {} =>
        model'[e].code = "abandoned" \/ model'[e].status = "succeeded"
  <2> SUFFICES ASSUME m = g, ReusesModelRun, model'[g].status = "absent", Earlier(g) # {}
               PROVE  model'[e].code = "abandoned" \/ model'[e].status = "succeeded"
    OBVIOUS
  <2>1. model[g].status = "absent" /\ e \in Models
    BY <1>2, <1>5, <1>6, <1>7 DEF SameRows
  <2>2. model[e].code = "abandoned" \/ model[e].status = "succeeded"
    BY <2>1, <1>1, <1>3, <1>4, <1>5, <1>7 DEF TargetAs
  <2> QED
    BY <2>1, <2>2 DEF RowStands
<1>10. m # g /\ (run'.status = "running" \/ run'.id.on) /\ model'[m].status # "succeeded" =>
         model'[g].status = "absent" /\ model'[m].code # "abandoned"
  <2> SUFFICES ASSUME m # g, run'.status = "running" \/ run'.id.on,
                      model'[m].status # "succeeded"
               PROVE  model'[g].status = "absent" /\ model'[m].code # "abandoned"
    OBVIOUS
  <2>1. model[m].status # "succeeded"
    BY DEF RowStands
  <2>2. model[g].status = "absent" /\ model[m].code # "abandoned"
    BY <2>1, <1>1, <1>3, <1>4, <1>5 DEF TargetAs
  <2> QED
    BY <2>2, <1>2, <1>5 DEF SameRows
<1> QED
  BY <1>1, <1>2, <1>3, <1>4, <1>7, <1>8, <1>9, <1>10 DEF TargetAs

LEMMA GenAsKept ==
  ASSUME SInv, GenAs, \A m \in Models : RowStands(m),
         \A c \in Callers : CallStands(c), run'.gen = run.gen
  PROVE  GenAs'
<1>1. \A m \in Models : model'[m].status # "absent" => m <= run.gen
  BY DEF GenAs, RowStands
<1>2. \A c \in Callers : Active(c)' => call'[c].gen <= run.gen
  BY DEF GenAs, CallStands
<1> QED
  BY <1>1, <1>2 DEF GenAs

LEMMA LiveAsKept ==
  ASSUME CInv, RowsAs', \A m \in Models : RowStands(m), \A c \in Callers : CallStands(c),
         UNCHANGED run, \A n \in Models : Live(n)' => Live(n)
  PROVE  LiveAs'
<1>0. PICK g \in Generations : g = run.gen
  BY KeyTypes DEF CInv, BInv, KeysAs, SInv
<1> SUFFICES ASSUME NEW n \in Models, Live(n)'
             PROVE  CASE run.status = "running" -> (ModelFor(g) = n)' /\ Covered(n)'
                      [] run.status = "cancelled" -> TRUE
                      [] OTHER -> \/ RequiresReconciliation /\ n = run.id.key[1]
                                  \/ ReusesModelRun /\ n = g /\ Covered(n)'
  BY <1>0 DEF LiveAs, RequiresReconciliation
<1>1. Live(n)
  OBVIOUS
<1>2. Covered(n) => Covered(n)'
  BY CoveredKept DEF CInv, BInv, KeysAs, SInv
<1>3. model'[n].code # "abandoned" /\ model[n].status # "absent" /\ SameRows
  <2>1. model'[n].code # "abandoned"
    BY DEF Live, Sent, RowsAs, RowAs
  <2> QED
    BY <1>1, <2>1, LiveRow DEF CInv, BInv, KeysAs, RowStands, SameRows
<1>4. ModelFor(g) = n => ModelFor(g)' = n
  BY <1>3, ModelForKept
<1> QED
  BY <1>0, <1>1, <1>2, <1>4 DEF CInv, BInv, KeysAs, LiveAs

(* The run itself is left alone.                                           *)
LEMMA RunKept ==
  ASSUME CInv, RowsAs', Kept, \A c \in Callers : CallKept(c), UNCHANGED run,
         \A m \in Models : model'[m].code = "abandoned" => model[m].code = "abandoned",
         \A m \in Models : model[m].status = "needs_review" =>
                             model'[m].status \in {"needs_review", "succeeded"}
  PROVE  IdentityAs' /\ LiveAs' /\ GenAs' /\ TargetsAs'
<1>1. IdentityAs'
  <2>1. CASE run.id.key = NoKey /\ ~run.id.on
    BY <2>1 DEF IdentityAs
  <2>2. CASE /\ run.id.key = LastKey(run.id.key[1])
             /\ model[run.id.key[1]].status \in {"needs_review", "succeeded"}
    <3>1. run.id.key[1] \in Models
      BY KeyTypes DEF CInv, BInv, KeysAs, SInv
    <3>2. RowKept(run.id.key[1])
      BY <3>1 DEF Kept
    <3> QED
      BY <2>2, <3>1, <3>2 DEF IdentityAs, LastKey, RowKept, RowStands
  <2> QED
    BY <2>1, <2>2 DEF CInv, BInv, KeysAs, IdentityAs
<1>2. LiveAs'
  BY LiveShrinks, LiveAsKept DEF CInv, BInv, KeysAs, Kept, RowKept, CallKept
<1>3. GenAs'
  BY GenAsKept DEF CInv, BInv, KeysAs, Kept, RowKept, CallKept
<1>4. TargetsAs'
  BY TargetsKept DEF CInv, BInv, KeysAs, Kept, RowKept, CallKept
<1> QED
  BY <1>1, <1>2, <1>3, <1>4

LEMMA ProbesKept ==
  ASSUME ProbesAs, \A k \in Keys : bridge[k] = "closed" => bridge'[k] = "closed",
         \A r \in Reconcilers : recon'[r] = recon[r] \/ ProbeAs(r)'
  PROVE  ProbesAs'
<1> SUFFICES ASSUME NEW r \in Reconcilers, recon'[r] = recon[r] PROVE ProbeAs(r)'
  BY DEF ProbesAs
<1>1. ProbeAs(r)
  BY DEF ProbesAs
<1> QED
  BY <1>1 DEF ProbeAs

(* A step of an execution, of the Bridge or of a probe that leaves the run *)
(* alone and makes no submission.                                          *)
LEMMA KeysKept ==
  ASSUME SInv, KeysAs, Kept, RowsAs',
         \A c \in Callers : SameCall(c) \/ ResultAs(c)',
         \A k \in Keys : bridge[k] = "none" /\ bridge'[k] # "none"
                           => k[2] <= model[k[1]].attempt,
         \A r \in Reconcilers : recon'[r] = recon[r] \/ ProbeAs(r)'
  PROVE  KeysAs'
<1>1. SendersAs' /\ ResultsAs' /\ BridgeAs'
  BY SendersKept, ResultsKept, BridgeAsKept DEF KeysAs
<1>2. DeadAs' /\ OneLive'
  BY DeadAsKept DEF KeysAs
<1>3. ProbesAs'
  BY ProbesKept DEF KeysAs, Kept, KeyKept
<1> QED
  BY <1>1, <1>2, <1>3 DEF KeysAs

LEMMA KeptStep ==
  ASSUME CInv, SInv', Quiet, QuietRows, UNCHANGED run
  PROVE  CInv'
<1>1. KeysAs'
  BY KeysKept DEF CInv, BInv, Quiet
<1>2. IdentityAs' /\ LiveAs' /\ GenAs' /\ TargetsAs'
  BY RunKept DEF Quiet, QuietRows
<1> QED
  BY <1>1, <1>2 DEF CInv, BInv

LEMMA SameRowsKept ==
  ASSUME UNCHANGED model
  PROVE  (\A m \in Models : RowKept(m)) /\ (RowsAs => RowsAs')
BY DEF RowKept, RowStands, RowsAs

LEMMA SameKeysKept ==
  ASSUME UNCHANGED bridge
  PROVE  \A k \in Keys : KeyKept(k)
BY DEF KeyKept

LEMMA SameCallsKept ==
  ASSUME UNCHANGED call
  PROVE  \A c \in Callers : CallKept(c) /\ SameCall(c)
BY DEF CallKept, CallStands, SameCall, Active, Sending

(* A step of an execution or of the Bridge that changes no row.            *)
LEMMA CallStepKept ==
  ASSUME BInv, AnswersStay, UNCHANGED <<model, lost, recon>>,
         \A c \in Callers : CallKept(c) /\ (SameCall(c) \/ ResultAs(c)'),
         \A k \in Keys : KeyKept(k),
         \A k \in Keys : bridge[k] = "none" /\ bridge'[k] # "none"
                           => k[2] <= model[k[1]].attempt
  PROVE  Quiet /\ QuietRows
<1>1. Kept
  BY SameRowsKept DEF Kept, CallKept
<1>2. RowsAs' /\ QuietRows
  BY SameRowsKept DEF BInv, KeysAs, QuietRows
<1> QED
  BY <1>1, <1>2 DEF Quiet

(* The execution goes on, without a new submission, or ends.               *)
LEMMA CallMoves ==
  ASSUME TypeOK, NEW c \in Callers, NEW pc \in CallPcs, NEW res \in Results, SetCall(c, pc, res),
         Active(c), pc # "invoke", pc \in {"wait", "settle"} => Sending(c)
  PROVE  /\ \A d \in Callers : CallKept(d) /\ (d # c => SameCall(d))
         /\ call'[c].pc = pc /\ call'[c].res = res /\ call'[c].key = call[c].key
<1>1. /\ call'[c].pc = pc /\ call'[c].res = res /\ call'[c].key = call[c].key
      /\ call'[c].gen = call[c].gen
      /\ \A d \in Callers : d # c => call'[d] = call[d]
  BY DEF TypeOK, Execution, SetCall
<1>2. \A d \in Callers : d # c => CallKept(d) /\ SameCall(d)
  BY <1>1 DEF CallKept, CallStands, SameCall, Active, Sending
<1>3. CallKept(c)
  BY <1>1 DEF CallKept, CallStands, Sending
<1> QED
  BY <1>1, <1>2, <1>3

LEMMA CallEnds ==
  ASSUME TypeOK, NEW c \in Callers, call' = [call EXCEPT ![c] = IdleCall]
  PROVE  \A d \in Callers : CallKept(d) /\ (SameCall(d) \/ ResultAs(d)')
<1>1. call'[c].pc = "idle" /\ \A d \in Callers : d # c => call'[d] = call[d]
  BY DEF TypeOK, IdleCall
<1>2. \A d \in Callers : d # c => CallKept(d) /\ SameCall(d)
  BY <1>1 DEF CallKept, CallStands, SameCall, Active, Sending
<1>3. CallKept(c) /\ ResultAs(c)'
  BY <1>1 DEF CallKept, CallStands, Active, Sending, ResultAs
<1> QED
  BY <1>2, <1>3

-----------------------------------------------------------------------------
(* The executions of the stage, step by step.                              *)
LEMMA PostQuiet ==
  ASSUME BInv, AnswersStay, NEW c \in Callers, Post(c)
  PROVE  Quiet /\ QuietRows
<1> DEFINE k == call[c].key
<1>0. TypeOK /\ Active(c) /\ Sending(c) /\ k \in Keys
  BY DEF BInv, KeysAs, SInv, Post, Active, Sending, SendersAs, SenderAs
<1>1. UNCHANGED <<model, run, lost, recon>> /\ call[c].pc = "invoke"
  BY DEF Post
<1>2. bridge[k] \in {"none", "closed"} /\ k[2] <= model[k[1]].attempt
  BY <1>0, <1>1 DEF BInv, KeysAs, ResultsAs, ResultAs, SendersAs, SenderAs
<1>3. \/ /\ bridge' = [bridge EXCEPT ![k] = IF @ = "none" THEN "pending" ELSE @]
         /\ SetCall(c, "wait", "none")
      \/ bridge' = [bridge EXCEPT ![k] = "closed"] /\ SetCall(c, "settle", "rejected")
      \/ SetCall(c, "settle", "pre") /\ UNCHANGED bridge
  BY DEF Post
<1>4. \E pc \in {"wait", "settle"}, res \in Results : SetCall(c, pc, res)
  BY <1>3 DEF Results
<1>5. /\ \A d \in Callers : CallKept(d) /\ (d # c => SameCall(d))
      /\ call'[c].pc # "invoke"
  BY <1>0, <1>4, CallMoves DEF CallPcs
<1>6. \A l \in Keys : l # k => bridge'[l] = bridge[l]
  BY <1>0, <1>3 DEF TypeOK
<1>7. bridge[k] = "closed" => bridge'[k] = "closed"
  BY <1>0, <1>3 DEF TypeOK
<1>8. \A l \in Keys : KeyKept(l)
  BY <1>0, <1>1, <1>5, <1>6, <1>7 DEF KeyKept
<1>9. ResultAs(c)'
  <2>1. CASE SetCall(c, "wait", "none")
    BY <1>0, <2>1, CallMoves DEF CallPcs, Results, ResultAs
  <2>2. CASE bridge' = [bridge EXCEPT ![k] = "closed"] /\ SetCall(c, "settle", "rejected")
    BY <1>0, <2>2, CallMoves DEF CallPcs, Results, ResultAs, TypeOK
  <2>3. CASE SetCall(c, "settle", "pre") /\ UNCHANGED bridge
    BY <1>0, <1>2, <2>3, CallMoves DEF CallPcs, Results, ResultAs
  <2> QED
    BY <1>3, <2>1, <2>2, <2>3
<1>10. \A l \in Keys : bridge[l] = "none" /\ bridge'[l] # "none" => l[2] <= model[l[1]].attempt
  BY <1>2, <1>6
<1> HIDE DEF k
<1> QED
  BY <1>1, <1>5, <1>8, <1>9, <1>10, CallStepKept

LEMMA ReceiveQuiet ==
  ASSUME BInv, AnswersStay, NEW c \in Callers, Receive(c)
  PROVE  Quiet /\ QuietRows
<1>0. TypeOK /\ Active(c) /\ Sending(c)
  BY DEF BInv, KeysAs, SInv, Receive, Active, Sending
<1>1. UNCHANGED <<model, bridge, run, lost, recon>>
  BY DEF Receive
<1>2. \E res \in {"completed", "terminal", "stopped", "unknown"} :
        SetCall(c, "settle", res) /\ (res = "terminal" => bridge[call[c].key] = "closed")
  BY DEF Receive
<1>3. \A d \in Callers : CallKept(d) /\ (SameCall(d) \/ ResultAs(d)')
  BY <1>0, <1>1, <1>2, CallMoves DEF CallPcs, Results, ResultAs
<1> QED
  BY <1>1, <1>3, SameKeysKept, CallStepKept

LEMMA ApplyQuiet ==
  ASSUME BInv, AnswersStay, NEW c \in Callers, Apply(c)
  PROVE  Quiet /\ QuietRows
<1>0. TypeOK /\ Active(c) /\ ResultAs(c) /\ call[c].res \in Results
  BY DEF BInv, KeysAs, SInv, TypeOK, Execution, Apply, Active, ResultsAs
<1>1. UNCHANGED <<model, bridge, run, lost, recon>>
  BY DEF Apply
<1>2. \/ call' = [call EXCEPT ![c] = IdleCall]
      \/ SetCall(c, "record", call[c].res)
  BY DEF Apply, EndCall
<1>3. CASE SetCall(c, "record", call[c].res)
  <2>1. \A d \in Callers : CallKept(d) /\ (SameCall(d) \/ ResultAs(d)')
    BY <1>0, <1>1, <1>3, CallMoves DEF CallPcs, ResultAs, Apply
  <2> QED
    BY <1>1, <2>1, SameKeysKept, CallStepKept
<1>4. CASE call' = [call EXCEPT ![c] = IdleCall]
  BY <1>0, <1>1, <1>4, CallEnds, SameKeysKept, CallStepKept
<1> QED
  BY <1>2, <1>3, <1>4

LEMMA FollowQuiet ==
  ASSUME BInv, AnswersStay, NEW c \in Callers, Follow(c)
  PROVE  Quiet /\ QuietRows
<1>1. UNCHANGED <<model, bridge, run, lost, recon>> /\ call' = [call EXCEPT ![c] = IdleCall]
  BY DEF Follow, EndCall
<1> QED
  BY <1>1, CallEnds, SameKeysKept, CallStepKept DEF BInv, KeysAs, SInv

LEMMA LapseLeaseQuiet ==
  ASSUME BInv, AnswersStay, NEW c \in Callers, LapseLease(c)
  PROVE  Quiet /\ QuietRows
<1>1. UNCHANGED <<model, bridge, run, lost, recon>>
  BY DEF LapseLease
<1>2. \A d \in Callers : SameCall(d) /\ call'[d].gen = call[d].gen
  BY DEF LapseLease, BInv, KeysAs, SInv, TypeOK, Execution, SameCall
<1>3. \A d \in Callers : CallKept(d)
  BY <1>2 DEF CallKept, CallStands, SameCall, Active, Sending
<1> QED
  BY <1>1, <1>2, <1>3, SameKeysKept, CallStepKept

LEMMA BridgeStepQuiet ==
  ASSUME BInv, AnswersStay, NEW k \in Keys, BridgeStep(k)
  PROVE  Quiet /\ QuietRows
<1>1. UNCHANGED <<model, run, lost, recon, call>>
  BY DEF BridgeStep
<1>2. \A l \in Keys : l # k => bridge'[l] = bridge[l]
  BY DEF BridgeStep, BInv, KeysAs, SInv, TypeOK
<1>3. /\ bridge[k] = "closed" => bridge'[k] = "closed"
      /\ bridge[k] \in {"none", "closed"} => bridge'[k] \in {"none", "closed"}
  BY DEF BridgeStep, BInv, KeysAs, SInv, TypeOK
<1>4. \A l \in Keys : KeyKept(l)
  BY <1>2, <1>3 DEF KeyKept
<1>5. bridge[k] = "none" => k[2] <= model[k[1]].attempt
  <2> SUFFICES ASSUME bridge[k] = "none" PROVE k[2] <= model[k[1]].attempt
    OBVIOUS
  <2>1. run.id.key = k
    BY DEF BridgeStep
  <2>2. k # NoKey /\ k[1] \in Models /\ k[2] \in 1..MaxAttempt
    BY KeyParts, SubmissionAssumption DEF NoKey
  <2>3. k = LastKey(k[1])
    BY <2>1, <2>2 DEF BInv, KeysAs, IdentityAs
  <2>4. k[2] = model[k[1]].attempt
    BY <2>3 DEF LastKey
  <2> QED
    BY <2>2, <2>4, SubmissionAssumption
<1> QED
  BY <1>1, <1>2, <1>4, <1>5, SameCallsKept, CallStepKept

(* One row changes, without a submission.                                  *)
RowMoves(r, v) ==
    /\ v.attempt = r.attempt /\ v.status # "absent" /\ r.status \notin {"absent", "succeeded"}
    /\ r.code = "abandoned" => v.code = "abandoned" \/ v.status = "succeeded"
    /\ v.code = "abandoned" => r.code = "abandoned"
    /\ Sent(v) => Sent(r)
    /\ r.status = "needs_review" => v.status \in {"needs_review", "succeeded"}

LEMMA RowMethods ==
  ASSUME NEW r \in ModelRun, RowAs(r), r.status \notin {"absent", "succeeded"}
  PROVE  /\ \A text : text # NoText =>
              RowAs(Succeed(r, text)) /\ RowMoves(r, Succeed(r, text))
         /\ r.status = "running" =>
              /\ \A code \in {"reconcile", "no_final"} :
                   RowAs(RequireReview(r, code)) /\ RowMoves(r, RequireReview(r, code))
              /\ \A sub : RowAs(Fail(r, sub, "failed")) /\ RowMoves(r, Fail(r, sub, "failed"))
              /\ /\ RowAs([r EXCEPT !.sub = "not_submitted"])
                 /\ RowMoves(r, [r EXCEPT !.sub = "not_submitted"])
              /\ RowAs(r) /\ RowMoves(r, r)
<1> USE DEF ModelRun, RowAs, RowMoves, Sent
<1>1. ASSUME NEW text, text # NoText
      PROVE  RowAs(Succeed(r, text)) /\ RowMoves(r, Succeed(r, text))
  BY <1>1 DEF Succeed
<1>2. ASSUME r.status = "running", NEW code \in {"reconcile", "no_final"}
      PROVE  RowAs(RequireReview(r, code)) /\ RowMoves(r, RequireReview(r, code))
  BY <1>2 DEF RequireReview
<1>3. ASSUME r.status = "running", NEW sub
      PROVE  RowAs(Fail(r, sub, "failed")) /\ RowMoves(r, Fail(r, sub, "failed"))
  BY <1>3 DEF Fail
<1>4. ASSUME r.status = "running"
      PROVE  /\ RowAs([r EXCEPT !.sub = "not_submitted"])
             /\ RowMoves(r, [r EXCEPT !.sub = "not_submitted"])
  BY <1>4
<1> QED
  BY <1>1, <1>2, <1>3, <1>4

LEMMA OneRowKept ==
  ASSUME TypeOK, RowsAs, NEW m \in Models, NEW v, model' = [model EXCEPT ![m] = v],
         RowAs(v), RowMoves(model[m], v),
         Sent(model[m]) \/ model[m].status = "needs_review" =>
           Sent(v) \/ v.status = "needs_review" \/ Dead(LastKey(m))'
  PROVE  /\ RowsAs' /\ \A n \in Models : RowKept(n)
         /\ \A n \in Models : model'[n].code = "abandoned" => model[n].code = "abandoned"
         /\ \A n \in Models : model[n].status = "needs_review" =>
                                model'[n].status \in {"needs_review", "succeeded"}
<1>1. model'[m] = v /\ \A n \in Models : n # m => model'[n] = model[n]
  BY DEF TypeOK
<1>2. RowKept(m)
  BY <1>1 DEF RowMoves, RowKept, RowStands
<1>3. \A n \in Models : n # m => RowKept(n)
  BY <1>1 DEF RowKept, RowStands
<1>4. RowsAs'
  BY <1>1 DEF RowsAs
<1>5. \A n \in Models : model'[n].code = "abandoned" => model[n].code = "abandoned"
  BY <1>1 DEF RowMoves
<1>6. \A n \in Models : model[n].status = "needs_review" =>
                          model'[n].status \in {"needs_review", "succeeded"}
  BY <1>1 DEF RowMoves
<1> QED
  BY <1>2, <1>3, <1>4, <1>5, <1>6

(* A step that changes one row and keeps keys, submissions and the run.    *)
LEMMA OneRowStep ==
  ASSUME BInv, AnswersStay, UNCHANGED <<bridge, lost>>,
         NEW m \in Models, NEW v, model' = [model EXCEPT ![m] = v],
         RowAs(v), RowMoves(model[m], v),
         Sent(model[m]) \/ model[m].status = "needs_review" =>
           Sent(v) \/ v.status = "needs_review" \/ Dead(LastKey(m))',
         \A c \in Callers : CallKept(c) /\ (SameCall(c) \/ ResultAs(c)'),
         \A r \in Reconcilers : recon'[r] = recon[r] \/ ProbeAs(r)'
  PROVE  Quiet /\ QuietRows
<1>1. /\ RowsAs' /\ \A n \in Models : RowKept(n)
      /\ \A n \in Models : model'[n].code = "abandoned" => model[n].code = "abandoned"
      /\ \A n \in Models : model[n].status = "needs_review" =>
                             model'[n].status \in {"needs_review", "succeeded"}
  BY OneRowKept DEF BInv, KeysAs, SInv
<1>2. Kept
  BY <1>1, SameKeysKept DEF Kept, CallKept
<1> QED
  BY <1>1, <1>2 DEF Quiet, QuietRows

LEMMA AnsweredDead ==
  ASSUME TypeOK, NEW m \in Models, NEW v, model' = [model EXCEPT ![m] = v], v.out # NoText
  PROVE  Dead(LastKey(m))'
<1>1. model'[m] = v
  BY DEF TypeOK
<1>2. LastKey(m)'[1] = m
  BY DEF LastKey
<1> QED
  BY <1>1, <1>2 DEF Dead

(* A key whose call has left, or was refused, has nothing to come.         *)
LEMMA SettledDead ==
  ASSUME BInv, NEW c \in Callers, Sending(c), NEW m \in Models, m = call[c].key[1], Own(c),
         UNCHANGED <<bridge, lost>>, bridge[call[c].key] \in {"none", "closed"},
         call'[c].pc # "invoke", \A d \in Callers : d # c => call'[d] = call[d],
         model'[m].attempt = model[m].attempt
  PROVE  Dead(LastKey(m))'
<1>1. /\ call[c].key \in Keys
      /\ \A d \in Callers : Sending(d) /\ call[d].key = call[c].key => d = c
  BY DEF BInv, KeysAs, SendersAs, SenderAs
<1>2. PICK k \in Keys : k = call[c].key
  BY <1>1
<1>3. LastKey(m)' = k
  BY <1>2, KeyParts DEF Own, LastKey
<1>4. \A d \in Callers : call'[d].pc = "invoke" => call'[d].key # k
  BY <1>1, <1>2 DEF Sending
<1>5. Dead(k)'
  BY <1>2, <1>4 DEF Dead
<1> QED
  BY <1>3, <1>5 DEF Dead

LEMMA SettleQuiet ==
  ASSUME BInv, AnswersStay, NEW c \in Callers, Settle(c), model' # model => Own(c)
  PROVE  Quiet /\ QuietRows
<1>a. PICK m \in Models : m = call[c].key[1]
  BY KeyTypes DEF BInv, KeysAs, SInv
<1>b. PICK r \in ModelRun : r = model[m]
  BY DEF BInv, KeysAs, SInv, TypeOK
<1>c. PICK v : v = Settled(c, r)[1]
  OBVIOUS
<1>0. /\ TypeOK /\ Active(c) /\ Sending(c) /\ call[c].pc = "settle" /\ ResultAs(c)
      /\ RowAs(r) /\ ModelSound(r)
  BY <1>a, <1>b
  DEF BInv, KeysAs, SInv, TypeOK, ModelsSound, Settle, Active, Sending, ResultsAs, RowsAs
<1>1. /\ UNCHANGED <<bridge, run, lost, recon>> /\ model' = [model EXCEPT ![m] = v]
      /\ \E res \in Settled(c, r)[2] : SetCall(c, "apply", res)
  BY <1>a, <1>b, <1>c DEF Settle
<1>2. PICK res \in Settled(c, r)[2] : SetCall(c, "apply", res)
  BY <1>1
<1>3. Settled(c, r)[2] \subseteq Results
  BY <1>0, SettledSound
<1>4. /\ \A d \in Callers : CallKept(d) /\ (d # c => SameCall(d))
      /\ call'[c].pc = "apply" /\ call'[c].res = res /\ call'[c].key = call[c].key
  BY <1>0, <1>2, <1>3, CallMoves DEF CallPcs
<1>5. \A d \in Callers : d # c => call'[d] = call[d]
  BY <1>0, <1>2 DEF TypeOK, SetCall
<1>6. ResultAs(c)' <=> (res = "answer" => model'[m].status = "succeeded")
  BY <1>4, <1>a DEF ResultAs
<1>7. CASE r.status # "running"
  <2>1. v = r /\ res # "answer"
    BY <1>2, <1>7, <1>c DEF Settled
  <2>2. UNCHANGED model
    BY <1>0, <1>1, <1>b, <2>1 DEF TypeOK
  <2> QED
    BY <1>1, <1>4, <1>6, <2>1, <2>2, SameKeysKept, CallStepKept
<1>8. CASE r.status = "running" /\ v = r
  <2>1. UNCHANGED model
    BY <1>0, <1>1, <1>8, <1>b DEF TypeOK
  <2>2. res # "answer"
    <3>1. CASE call[c].res = "completed"
      <4>1. v = Succeed(r, AnswerTo(call[c].key))
        BY <1>8, <1>c, <3>1 DEF Settled, Outcome
      <4> QED
        BY <1>0, <1>8, <4>1 DEF Succeed, ModelRun
    <3>2. CASE call[c].res # "completed"
      BY <1>2, <1>8, <1>c, <3>2 DEF Settled, Outcome
    <3> QED
      BY <3>1, <3>2
  <2> QED
    BY <1>1, <1>4, <1>6, <2>1, <2>2, SameKeysKept, CallStepKept
<1>9. CASE r.status = "running" /\ v # r
  <2>1. Own(c)
    BY <1>0, <1>1, <1>9, <1>b DEF TypeOK
  <2>2. Settled(c, r) = Outcome(c, r)
    BY <1>9 DEF Settled
  <2>3. model'[m] = v
    BY <1>0, <1>1 DEF TypeOK
  <2>4. CASE call[c].res = "completed"
    <3>1. v = Succeed(r, AnswerTo(call[c].key)) /\ AnswerTo(call[c].key) # NoText
      BY <2>2, <2>4, <1>c DEF Outcome, AnswerTo, NoText
    <3>2. /\ RowAs(v) /\ RowMoves(r, v)
      BY <1>0, <1>9, <3>1, RowMethods
    <3>3. v.status = "succeeded" /\ v.out # NoText
      BY <1>0, <3>1 DEF Succeed, ModelRun
    <3>4. Dead(LastKey(m))'
      BY <1>0, <1>1, <3>3, AnsweredDead
    <3>5. ResultAs(c)'
      BY <1>6, <2>3, <3>3
    <3> QED
      BY <1>0, <1>1, <1>4, <3>2, <3>4, <3>5, <1>b, OneRowStep
  <2>5. CASE call[c].res \in {"unknown", "stopped"}
    <3>1. \E code \in {"reconcile", "no_final"} : v = RequireReview(r, code)
      BY <2>2, <2>5, <1>c DEF Outcome
    <3>2. res # "answer"
      BY <1>2, <2>2, <2>5 DEF Outcome
    <3>3. /\ RowAs(v) /\ RowMoves(r, v)
      BY <1>0, <1>9, <3>1, RowMethods
    <3>4. v.status = "needs_review"
      BY <3>1 DEF RequireReview, ModelRun
    <3> QED
      BY <1>0, <1>1, <1>4, <1>6, <3>2, <3>3, <3>4, <1>b, OneRowStep
  <2>6. CASE call[c].res \in {"pre", "rejected", "terminal"}
    <3>1. \E sub : v = Fail(r, sub, "failed")
      <4>1. CASE call[c].res = "pre"
        BY <2>2, <1>c, <4>1 DEF Outcome
      <4>2. CASE call[c].res = "rejected"
        BY <2>2, <1>c, <4>2 DEF Outcome
      <4>3. CASE call[c].res = "terminal"
        BY <1>9, <1>c, <2>2, <4>3 DEF Outcome
      <4> QED
        BY <2>6, <4>1, <4>2, <4>3
    <3>2. res # "answer"
      BY <1>2, <2>2, <2>6 DEF Outcome
    <3>3. /\ RowAs(v) /\ RowMoves(r, v)
      BY <1>0, <1>9, <3>1, RowMethods
    <3>4. bridge[call[c].key] \in {"none", "closed"}
      BY <1>0, <2>6 DEF ResultAs
    <3>5. v.attempt = r.attempt
      BY <3>3 DEF RowMoves
    <3>6. Dead(LastKey(m))'
      BY <1>0, <1>1, <1>4, <1>5, <2>1, <2>3, <3>4, <3>5, <1>a, <1>b, SettledDead
    <3> QED
      BY <1>0, <1>1, <1>4, <1>6, <3>2, <3>3, <3>6, <1>b, OneRowStep
  <2>7. call[c].res \in {"completed", "terminal", "unknown", "stopped", "pre", "rejected"}
    BY <1>0 DEF ResultAs
  <2> QED
    BY <2>4, <2>5, <2>6, <2>7
<1> QED
  BY <1>7, <1>8, <1>9

LEMMA LoseCallQuiet ==
  ASSUME BInv, AnswersStay, NEW c \in Callers, LoseCall(c), model' # model => Own(c)
  PROVE  Quiet /\ QuietRows
<1>1. /\ UNCHANGED <<bridge, run, lost, recon>> /\ call' = [call EXCEPT ![c] = IdleCall]
      /\ TypeOK
  BY DEF LoseCall, EndCall, BInv, KeysAs, SInv
<1>2. PICK m \in Models : m = call[c].key[1]
  BY KeyTypes DEF BInv, KeysAs, SInv
<1>3. PICK r \in ModelRun : r = model[m] /\ RowAs(r)
  BY DEF BInv, KeysAs, SInv, TypeOK, RowsAs
<1>4. \A d \in Callers : CallKept(d) /\ (SameCall(d) \/ ResultAs(d)')
  BY <1>1, CallEnds
<1>5. CASE UNCHANGED model
  BY <1>1, <1>4, <1>5, SameKeysKept, CallStepKept
<1>6. CASE /\ call[c].pc = "invoke" /\ r.status = "running" /\ r.sub = "unknown"
           /\ model' = [model EXCEPT ![m].sub = "not_submitted"]
  <2>1. PICK v : v = [r EXCEPT !.sub = "not_submitted"]
    OBVIOUS
  <2>2. model' = [model EXCEPT ![m] = v] /\ v.sub = "not_submitted" /\ v.attempt = r.attempt
    BY <1>1, <1>3, <1>6, <2>1 DEF TypeOK, ModelRun
  <2>3. RowAs(v) /\ RowMoves(r, v)
    BY <1>3, <1>6, <2>1, RowMethods
  <2>4. model' # model /\ model'[m] = v
    BY <1>1, <1>3, <1>6, <2>2 DEF TypeOK
  <2>5. Own(c)
    BY <2>4
  <2>6. bridge[call[c].key] \in {"none", "closed"}
    BY <1>6 DEF BInv, KeysAs, ResultsAs, ResultAs
  <2>7. call'[c].pc # "invoke" /\ \A d \in Callers : d # c => call'[d] = call[d]
    BY <1>1 DEF TypeOK, IdleCall
  <2>8. Sending(c)
    BY <1>6 DEF Sending
  <2>9. Dead(LastKey(m))'
    BY <1>1, <1>2, <1>3, <2>2, <2>4, <2>5, <2>6, <2>7, <2>8, SettledDead
  <2> QED
    BY <1>1, <1>3, <1>4, <2>2, <2>3, <2>9, OneRowStep
<1> QED
  BY <1>2, <1>3, <1>5, <1>6 DEF LoseCall

-----------------------------------------------------------------------------
(* The probes and the requests, step by step.                              *)
LEMMA ReconStepKept ==
  ASSUME BInv, UNCHANGED <<model, bridge, call, lost>>,
         \A r \in Reconcilers : recon'[r] = recon[r] \/ ProbeAs(r)'
  PROVE  Quiet /\ QuietRows
<1>1. AnswersStay
  BY SameModels DEF BInv
<1>2. Kept /\ RowsAs' /\ QuietRows
  BY <1>1, SameRowsKept, SameKeysKept, SameCallsKept
  DEF Kept, CallKept, BInv, KeysAs, QuietRows
<1> QED
  BY <1>2, SameCallsKept DEF Quiet

LEMMA ReconMoves ==
  ASSUME TypeOK, NEW r \in Reconcilers,
         \/ recon' = [recon EXCEPT ![r] = IdleRecon]
         \/ \E pc \in ReconPcs \ {"retrieve", "release", "import"} :
              \/ recon' = [recon EXCEPT ![r].pc = pc]
              \/ \E text \in Text : recon' = [recon EXCEPT ![r].pc = pc, ![r].text = text]
              \/ \E job \in {"stage", "resume"} :
                    recon' = [recon EXCEPT ![r].pc = pc, ![r].job = job]
  PROVE  \A x \in Reconcilers : recon'[x] = recon[x] \/ ProbeAs(x)'
<1>1. \A x \in Reconcilers : x # r => recon'[x] = recon[x]
  BY DEF TypeOK
<1>2. recon'[r].pc \notin {"retrieve", "release", "import"}
  <2>0. recon[r] \in Reconciliation /\ recon \in [Reconcilers -> Reconciliation]
    BY DEF TypeOK
  <2>1. CASE recon' = [recon EXCEPT ![r] = IdleRecon]
    BY <2>0, <2>1 DEF IdleRecon
  <2>2. ASSUME NEW pc \in ReconPcs \ {"retrieve", "release", "import"}, NEW text, NEW job,
               \/ recon' = [recon EXCEPT ![r].pc = pc]
               \/ recon' = [recon EXCEPT ![r].pc = pc, ![r].text = text]
               \/ recon' = [recon EXCEPT ![r].pc = pc, ![r].job = job]
        PROVE  recon'[r].pc = pc
    BY <2>0, <2>2 DEF Reconciliation
  <2> QED
    BY <2>1, <2>2
<1> QED
  BY <1>1, <1>2 DEF ProbeAs

LEMMA StartProbeQuiet ==
  ASSUME BInv, NEW r \in Reconcilers, NEW kind \in {"job", "api", "lost"},
         StartProbe(r, kind)
  PROVE  Quiet /\ QuietRows
<1>1. UNCHANGED <<model, bridge, run, call, lost>> /\ recon \in [Reconcilers -> Reconciliation]
  BY DEF StartProbe, BInv, KeysAs, SInv, TypeOK
<1>2. RequiresReconciliation => run.id.key \in Keys
  BY DEF RequiresReconciliation, BInv, KeysAs, SInv, IdentitySound
<1>3. /\ recon'[r].key = run.id.key
      /\ recon'[r].pc = (IF RequiresReconciliation THEN "retrieve" ELSE "undecided")
      /\ \A x \in Reconcilers : x # r => recon'[x] = recon[x]
  BY <1>1 DEF StartProbe, IdleRecon
<1>4. \A x \in Reconcilers : recon'[x] = recon[x] \/ ProbeAs(x)'
  BY <1>2, <1>3 DEF ProbeAs
<1> QED
  BY <1>1, <1>4, ReconStepKept

LEMMA RetrieveQuiet ==
  ASSUME BInv, NEW r \in Reconcilers, Retrieve(r),
         recon'[r].pc = "release" => bridge[recon[r].key] = "closed"
  PROVE  Quiet /\ QuietRows
<1>1. /\ UNCHANGED <<model, bridge, run, call, lost>> /\ TypeOK
      /\ recon[r].pc = "retrieve" /\ recon[r].key \in Keys
  BY DEF Retrieve, BInv, KeysAs, SInv, ProbesAs, ProbeAs
<1>2. CASE recon' = [recon EXCEPT ![r].pc = "adopt", ![r].text = AnswerTo(recon[r].key)]
  <2>1. AnswerTo(recon[r].key) \in Text
    BY <1>1, SubmissionAssumption DEF AnswerTo, Text, Keys
  <2>2. \A x \in Reconcilers : recon'[x] = recon[x] \/ ProbeAs(x)'
    BY <1>1, <1>2, <2>1, ReconMoves DEF ReconPcs
  <2> QED
    BY <1>1, <2>2, ReconStepKept
<1>3. CASE SetRecon(r, "undecided")
  <2>1. \A x \in Reconcilers : recon'[x] = recon[x] \/ ProbeAs(x)'
    BY <1>1, <1>3, ReconMoves DEF ReconPcs, SetRecon
  <2> QED
    BY <1>1, <2>1, ReconStepKept
<1>4. CASE SetRecon(r, "release")
  <2>1. /\ recon'[r].pc = "release" /\ recon'[r].key = recon[r].key
        /\ \A x \in Reconcilers : x # r => recon'[x] = recon[x]
    BY <1>1, <1>4 DEF SetRecon, TypeOK, Reconciliation
  <2>2. bridge[recon[r].key] = "closed"
    BY <2>1
  <2>3. ProbeAs(r)'
    BY <1>1, <2>1, <2>2 DEF ProbeAs
  <2> QED
    BY <1>1, <2>1, <2>3, ReconStepKept
<1> QED
  BY <1>2, <1>3, <1>4 DEF Retrieve

LEMMA AdoptAnswerQuiet ==
  ASSUME BInv, AnswersStay, NEW r \in Reconcilers, AdoptAnswer(r)
  PROVE  Quiet /\ QuietRows
<1>1. UNCHANGED <<bridge, run, call, lost>> /\ TypeOK
  BY DEF AdoptAnswer, BInv, KeysAs, SInv
<1>2. PICK m \in Models : m = recon[r].key[1]
  BY KeyTypes DEF BInv, KeysAs, SInv
<1>3. PICK q \in ModelRun : q = model[m] /\ RowAs(q)
  BY DEF BInv, KeysAs, SInv, TypeOK, RowsAs
<1>4. \A x \in Reconcilers : recon'[x] = recon[x] \/ ProbeAs(x)'
  <2>1. \/ recon' = [recon EXCEPT ![r] = IdleRecon]
        \/ \E pc \in {"resume", "undecided"} : recon' = [recon EXCEPT ![r].pc = pc]
    BY DEF AdoptAnswer, SetRecon, EndRecon
  <2> QED
    BY <1>1, <2>1, ReconMoves DEF ReconPcs
<1>5. CASE UNCHANGED model
  BY <1>1, <1>4, <1>5, ReconStepKept
<1>6. CASE /\ q.status = "needs_review"
           /\ model' = [model EXCEPT ![m] = Succeed(@, recon[r].text)]
  <2>1. PICK v : v = Succeed(q, recon[r].text)
    OBVIOUS
  <2>2. recon[r].text # NoText
    BY DEF AdoptAnswer, BInv, KeysAs, SInv, ReconsSound, ReconSound
  <2>3. RowAs(v) /\ RowMoves(q, v)
    BY <1>3, <1>6, <2>1, <2>2, RowMethods
  <2>4. model' = [model EXCEPT ![m] = v] /\ v.out # NoText
    BY <1>1, <1>3, <1>6, <2>1, <2>2 DEF Succeed, TypeOK, ModelRun
  <2>5. Dead(LastKey(m))'
    BY <1>1, <2>4, AnsweredDead
  <2> QED
    BY <1>1, <1>3, <1>4, <2>3, <2>4, <2>5, SameCallsKept, OneRowStep
<1> QED
  BY <1>2, <1>3, <1>5, <1>6 DEF AdoptAnswer

LEMMA ImportAnswerQuiet ==
  ASSUME BInv, AnswersStay, NEW r \in Reconcilers, ImportAnswer(r)
  PROVE  Quiet /\ QuietRows
<1>1. UNCHANGED <<bridge, run, call, lost>> /\ TypeOK
  BY DEF ImportAnswer, BInv, KeysAs, SInv
<1>2. PICK m \in Models : m = recon[r].key[1]
  BY KeyTypes DEF BInv, KeysAs, SInv
<1>3. PICK q \in ModelRun : q = model[m] /\ RowAs(q)
  BY DEF BInv, KeysAs, SInv, TypeOK, RowsAs
<1>4. \A x \in Reconcilers : recon'[x] = recon[x] \/ ProbeAs(x)'
  <2>1. \/ recon' = [recon EXCEPT ![r] = IdleRecon]
        \/ \E pc \in {"reopen"} : recon' = [recon EXCEPT ![r].pc = pc]
    BY DEF ImportAnswer, SetRecon
  <2> QED
    BY <1>1, <2>1, ReconMoves DEF ReconPcs
<1>5. CASE UNCHANGED model
  BY <1>1, <1>4, <1>5, ReconStepKept
<1>6. CASE /\ q.status \in {"needs_review", "failed"}
           /\ model' = [model EXCEPT ![m] = Succeed(@, recon[r].text)]
  <2>1. PICK v : v = Succeed(q, recon[r].text)
    OBVIOUS
  <2>2. recon[r].text # NoText
    BY DEF ImportAnswer, BInv, KeysAs, ProbesAs, ProbeAs
  <2>3. RowAs(v) /\ RowMoves(q, v)
    BY <1>3, <1>6, <2>1, <2>2, RowMethods
  <2>4. model' = [model EXCEPT ![m] = v] /\ v.out # NoText
    BY <1>1, <1>3, <1>6, <2>1, <2>2 DEF Succeed, TypeOK, ModelRun
  <2>5. Dead(LastKey(m))'
    BY <1>1, <2>4, AnsweredDead
  <2> QED
    BY <1>1, <1>3, <1>4, <2>3, <2>4, <2>5, SameCallsKept, OneRowStep
<1> QED
  BY <1>2, <1>3, <1>5, <1>6 DEF ImportAnswer

LEMMA UndecidedQuiet ==
  ASSUME BInv, NEW r \in Reconcilers, Undecided(r)
  PROVE  Quiet /\ QuietRows
<1>1. UNCHANGED <<model, bridge, run, call, lost>> /\ TypeOK
  BY DEF Undecided, BInv, KeysAs, SInv
<1>2. \/ recon' = [recon EXCEPT ![r] = IdleRecon]
      \/ recon' = [recon EXCEPT ![r].pc = "declare"]
      \/ recon' = [recon EXCEPT ![r].pc = "dispatch", ![r].job = "resume"]
  <2>1. CASE recon[r].kind = "lost"
    BY <2>1 DEF Undecided, SetRecon
  <2>2. CASE recon[r].kind = "api"
    BY <2>2 DEF Undecided, EndRecon
  <2>3. CASE recon[r].kind \notin {"lost", "api"}
    BY <2>3 DEF Undecided
  <2> QED
    BY <2>1, <2>2, <2>3
<1>3. \A x \in Reconcilers : recon'[x] = recon[x] \/ ProbeAs(x)'
  BY <1>1, <1>2, ReconMoves DEF ReconPcs
<1> QED
  BY <1>1, <1>3, ReconStepKept

LEMMA DispatchQuiet ==
  ASSUME BInv, NEW r \in Reconcilers, Dispatch(r) \/ LoseRecon(r)
  PROVE  Quiet /\ QuietRows
<1>1. /\ UNCHANGED <<model, bridge, run, call, lost>> /\ TypeOK
      /\ recon' = [recon EXCEPT ![r] = IdleRecon]
  BY DEF Dispatch, LoseRecon, EndRecon, BInv, KeysAs, SInv
<1>2. \A x \in Reconcilers : recon'[x] = recon[x] \/ ProbeAs(x)'
  BY <1>1, ReconMoves
<1> QED
  BY <1>1, <1>2, ReconStepKept

LEMMA StartAdoptionQuiet ==
  ASSUME BInv, NEW r \in Reconcilers, NEW by \in {"bridge", "analyst"},
         StartAdoption(r, [by |-> by, key |-> run.id.key])
  PROVE  Quiet /\ QuietRows
<1>1. UNCHANGED <<model, bridge, run, call, lost>> /\ TypeOK
  BY DEF StartAdoption, BInv, KeysAs, SInv
<1>2. /\ recon'[r].pc = "import" /\ recon'[r].text = [by |-> by, key |-> run.id.key]
      /\ \A x \in Reconcilers : x # r => recon'[x] = recon[x]
  BY <1>1 DEF StartAdoption, TypeOK, IdleRecon
<1>3. ProbeAs(r)'
  BY <1>2 DEF ProbeAs, NoText
<1> QED
  BY <1>1, <1>2, <1>3, ReconStepKept

-----------------------------------------------------------------------------
(* A submission, by an execution that alone is to send it.                 *)
LEMMA Submission ==
  ASSUME BInv, AnswersStay, UNCHANGED <<bridge, run, lost, recon>>,
         NEW c \in Callers, NEW m \in Models, NEW a \in 1..MaxAttempt,
         model' = [model EXCEPT ![m] = Submitted(model[m], a)], model[m].attempt < a,
         model[m].status \notin {"needs_review", "succeeded"},
         Live(m) => Dead(LastKey(m)), \A n \in Models : Live(n) => n = m,
         call'[c].pc = "invoke", call'[c].key = <<m, a>>,
         \A d \in Callers : d # c => call'[d] = call[d]
  PROVE  /\ RowsAs' /\ SendersAs' /\ ResultsAs' /\ BridgeAs' /\ DeadAs' /\ OneLive'
         /\ IdentityAs' /\ ProbesAs'
         /\ \A n \in Models : Live(n)' => n = m
<1>0. TypeOK /\ model[m] \in ModelRun /\ RowAs(model[m])
  BY DEF BInv, KeysAs, SInv, TypeOK, RowsAs
<1>1. /\ model'[m].status = "running" /\ model'[m].sub = "unknown"
      /\ model'[m].attempt = a /\ model'[m].code = "none"
      /\ \A n \in Models : n # m => model'[n] = model[n]
  BY <1>0 DEF TypeOK, Submitted, ModelRun
<1>2. PICK k0 \in Keys : k0 = <<m, a>>
  BY DEF Keys
<1>3. k0[1] = m /\ k0[2] = a /\ a \in Nat /\ model[m].attempt \in Nat
  BY <1>0, <1>2, SubmissionAssumption DEF ModelRun
<1>4. bridge[k0] = "none"
  BY <1>3 DEF BInv, KeysAs, BridgeAs
<1>5. \A d \in Callers : Sending(d) => call[d].key # k0
  BY <1>3 DEF BInv, KeysAs, SendersAs, SenderAs
<1>6. ASSUME NEW k \in Keys, k # k0, Dead(k)
      PROVE  Dead(k)'
  <2>1. CASE k \in lost
    BY <2>1 DEF Dead
  <2>2. CASE model[k[1]].out # NoText
    BY <2>2, KeyParts DEF AnswersStay, Dead
  <2>3. CASE bridge[k] = "closed"
    BY <2>3 DEF Dead
  <2>4. CASE bridge[k] = "none" /\ \A d \in Callers : call[d].pc = "invoke" => call[d].key # k
    BY <1>2, <1>6, <2>4 DEF Dead
  <2> QED
    BY <1>6, <2>1, <2>2, <2>3, <2>4 DEF Dead
<1>7. LastKey(m)' = k0 /\ Live(m)'
  BY <1>1, <1>2 DEF LastKey, Live, Sent
<1>8. RowsAs'
  BY <1>1 DEF BInv, KeysAs, RowsAs, RowAs
<1>9. SendersAs'
  <2>1. ASSUME NEW d \in Callers, d # c, Sending(d)'
        PROVE  /\ Sending(d) /\ call'[d].key = call[d].key /\ call[d].key \in Keys
               /\ call[d].key[2] <= model'[call[d].key[1]].attempt
    <3>1. Sending(d) /\ call'[d] = call[d]
      BY <2>1 DEF Sending
    <3>2. /\ call[d].key \in Keys /\ call[d].key[1] \in Models /\ call[d].key[2] \in Nat
          /\ call[d].key[2] <= model[call[d].key[1]].attempt
      BY <3>1, KeyParts, SubmissionAssumption DEF BInv, KeysAs, SendersAs, SenderAs
    <3>3. call[d].key[2] <= model'[call[d].key[1]].attempt
      BY <1>1, <1>3, <3>2
    <3> QED
      BY <3>1, <3>2, <3>3
  <2>2. SenderAs(c)'
    BY <1>1, <1>2, <1>3, <1>5, <2>1 DEF SenderAs
  <2>3. ASSUME NEW d \in Callers, d # c
        PROVE  SenderAs(d)'
    BY <1>2, <1>5, <2>1, <2>3 DEF BInv, KeysAs, SendersAs, SenderAs
  <2> QED
    BY <2>2, <2>3 DEF SendersAs
<1>10. ResultsAs'
  <2>1. ResultAs(c)'
    BY <1>2, <1>4 DEF ResultAs
  <2>2. ASSUME NEW d \in Callers, d # c
        PROVE  ResultAs(d)'
    <3>1. ResultAs(d) /\ call'[d] = call[d] /\ call[d].key[1] \in Models
      BY <1>0, <2>2, KeyTypes DEF BInv, KeysAs, ResultsAs
    <3> QED
      BY <1>1, <3>1 DEF ResultAs
  <2> QED
    BY <2>1, <2>2 DEF ResultsAs
<1>11. BridgeAs'
  <2> SUFFICES ASSUME NEW k \in Keys, bridge[k] # "none"
               PROVE  k[2] <= model'[k[1]].attempt
    BY DEF BridgeAs
  <2>1. k[2] <= model[k[1]].attempt /\ k[1] \in Models /\ k[2] \in Nat
    BY KeyParts, SubmissionAssumption DEF BInv, KeysAs, BridgeAs
  <2> QED
    BY <1>1, <1>3, <2>1
<1>12. DeadAs'
  <2> SUFFICES ASSUME NEW k \in Keys, k # k0 PROVE Dead(k)'
    BY <1>3, <1>7 DEF DeadAs
  <2>1. CASE Dead(k)
    BY <1>6, <2>1
  <2>2. CASE ~Dead(k)
    <3>1. Live(k[1]) /\ k = LastKey(k[1])
      BY <2>2 DEF BInv, KeysAs, DeadAs
    <3>2. k[1] = m
      BY <3>1, KeyParts
    <3> QED
      BY <2>2, <3>1, <3>2
  <2> QED
    BY <2>1, <2>2
<1>13. ASSUME NEW n \in Models, n # m
       PROVE  ~Live(n)'
  <2> SUFFICES ASSUME Live(n)' PROVE FALSE
    OBVIOUS
  <2>1. model'[n] = model[n] /\ ~Live(n)
    BY <1>1, <1>13
  <2>2. model[n].status = "needs_review" /\ ~Dead(LastKey(n))'
    BY <2>1 DEF Live
  <2>3. PICK k \in Keys : k = LastKey(n) /\ k[1] = n
    BY <2>2, LastKeyType DEF BInv, KeysAs
  <2>4. LastKey(n)' = k
    BY <2>1, <2>3 DEF LastKey
  <2>5. ~Dead(k)'
    BY <2>2, <2>4 DEF Dead
  <2>6. ~Dead(k)
    BY <1>3, <1>6, <1>13, <2>3, <2>5
  <2> QED
    BY <2>1, <2>3, <2>6 DEF BInv, KeysAs, DeadAs
<1>14. OneLive'
  BY <1>13 DEF OneLive
<1>15. IdentityAs'
  <2>1. CASE run.id.key = NoKey /\ ~run.id.on
    BY <2>1 DEF IdentityAs
  <2>2. CASE /\ run.id.key = LastKey(run.id.key[1])
             /\ model[run.id.key[1]].status \in {"needs_review", "succeeded"}
    <3>1. PICK n \in Models : n = run.id.key[1]
      BY <1>0, KeyTypes
    <3>2. n # m
      BY <2>2, <3>1
    <3>3. model'[n] = model[n]
      BY <1>1, <3>2
    <3> QED
      BY <2>2, <3>1, <3>3 DEF IdentityAs, LastKey
  <2> QED
    BY <2>1, <2>2 DEF BInv, KeysAs, IdentityAs
<1>16. ProbesAs'
  BY ProbesKept DEF BInv, KeysAs
<1> QED
  BY <1>8, <1>9, <1>10, <1>11, <1>12, <1>13, <1>14, <1>15, <1>16

LEMMA ReopenCareful ==
  ASSUME CInv, SInv', AnswersStay, TouchesOwn, NEW c \in Callers,
         ReopenAfterTerminalFailure(c)
  PROVE  CInv'
<1>0. TypeOK /\ ResultAs(c) /\ call[c] \in Execution
  BY DEF CInv, BInv, KeysAs, SInv, TypeOK, ResultsAs
<1>1. PICK m \in Models : m = call[c].key[1]
  BY <1>0, KeyTypes
<1>2. PICK r \in ModelRun : r = model[m] /\ RowAs(r)
  BY <1>0 DEF TypeOK, CInv, BInv, KeysAs, RowsAs
<1>3. /\ UNCHANGED <<bridge, run, lost, recon>>
      /\ call[c].pc = "settle" /\ call[c].res = "terminal"
      /\ r.status = "running" /\ r.sub = "unknown" /\ r.attempt < MaxAttempt
      /\ model' = [model EXCEPT ![m] = Submitted(r, r.attempt + 1)]
      /\ call' = [call EXCEPT ![c].pc = "invoke", ![c].retries = @ - 1,
                              ![c].key = <<m, r.attempt + 1>>]
  BY <1>0, <1>1, <1>2 DEF ReopenAfterTerminalFailure, TypeOK
<1>4. PICK a \in 1..MaxAttempt : a = r.attempt + 1 /\ r.attempt < a
  BY <1>2, <1>3, SubmissionAssumption DEF ModelRun
<1>5. /\ call'[c].pc = "invoke" /\ call'[c].key = <<m, a>> /\ call'[c].gen = call[c].gen
      /\ \A d \in Callers : d # c => call'[d] = call[d]
  BY <1>0, <1>3, <1>4 DEF TypeOK, Execution
<1>6. /\ model'[m].status = "running" /\ model'[m].attempt = a /\ model'[m].code = "none"
      /\ \A n \in Models : n # m => model'[n] = model[n]
  BY <1>0, <1>2, <1>3, <1>4 DEF TypeOK, Submitted, ModelRun
<1>7. Own(c)
  <2>1. model'[m].attempt # model[m].attempt
    BY <1>2, <1>4, <1>6 DEF ModelRun
  <2>2. model' # model
    BY <2>1
  <2>3. call[c].pc = "settle"
    BY <1>3
  <2>4. call'[c] # call[c]
    BY <1>5, <2>3
  <2> QED
    BY <2>2, <2>3, <2>4 DEF TouchesOwn
<1>8. Live(m) /\ \A n \in Models : Live(n) => n = m
  BY <1>2, <1>3 DEF Live, Sent, CInv, BInv, KeysAs, OneLive
<1>9. Dead(LastKey(m))
  <2>1. call[c].key \in Keys /\ Sending(c)
    BY <1>3 DEF CInv, BInv, KeysAs, SendersAs, SenderAs, Sending
  <2>2. LastKey(m) = call[c].key
    BY <1>1, <1>7, <2>1, KeyParts DEF Own, LastKey
  <2>3. bridge[call[c].key] = "closed"
    BY <1>0, <1>3 DEF ResultAs
  <2> QED
    BY <2>2, <2>3 DEF Dead
<1>10. /\ RowsAs' /\ SendersAs' /\ ResultsAs' /\ BridgeAs' /\ DeadAs' /\ OneLive'
       /\ IdentityAs' /\ ProbesAs' /\ \A n \in Models : Live(n)' => n = m
  <2>1. model' = [model EXCEPT ![m] = Submitted(model[m], a)] /\ model[m].attempt < a
    BY <1>2, <1>3, <1>4
  <2>2. model[m].status \notin {"needs_review", "succeeded"}
    BY <1>2, <1>3
  <2> QED
    BY <1>3, <1>5, <1>8, <1>9, <2>1, <2>2, Submission DEF CInv, KeysAs
<1>11. \A n \in Models : RowStands(n)
  BY <1>2, <1>3, <1>6 DEF RowStands, RowAs
<1>12. \A d \in Callers : CallStands(d)
  <2>1. CallStands(c)
    <3>1. call'[c].key = <<m, a>> /\ call'[c].gen = call[c].gen
      BY <1>5
    <3>2. call'[c].key[1] = m
      BY <3>1
    <3>3. call[c].pc = "settle"
      BY <1>3
    <3> QED
      BY <1>1, <3>1, <3>2, <3>3 DEF CallStands, Active
  <2> QED
    BY <1>5, <2>1 DEF CallStands, Active
<1>13. LiveAs'
  BY <1>3, <1>8, <1>10, <1>11, <1>12, LiveAsKept
<1>14. \A n \in Models : model'[n].code = "abandoned" => model[n].code = "abandoned"
  BY <1>6
<1>15. GenAs' /\ TargetsAs'
  BY <1>3, <1>11, <1>12, <1>14, GenAsKept, TargetsKept DEF CInv, BInv, KeysAs
<1> QED
  BY <1>10, <1>13, <1>15 DEF CInv, BInv, KeysAs

(* The executions of a running generation when one of them submits m: the  *)
(* others work on m, or on an answer.                                      *)
LEMMA OthersAnswered ==
  ASSUME CInv, NEW c \in Callers, NEW d \in Callers, Active(c), Active(d), Current(c),
         call[d].gen = run.gen, call[d].key[1] # call[c].key[1],
         model[call[c].key[1]].status # "succeeded"
  PROVE  call[c].key[1] = run.gen /\ model[call[d].key[1]].status = "succeeded"
<1>1. TargetAs(c) /\ TargetAs(d)
  BY DEF CInv, BInv, KeysAs, TargetsAs
<1>2. CASE call[c].key[1] = run.gen
  BY <1>1, <1>2 DEF TargetAs, Current
<1>3. CASE call[c].key[1] # run.gen
  BY <1>1, <1>3 DEF TargetAs, Current
<1> QED
  BY <1>2, <1>3

LEMMA ClaimSubmits ==
  ASSUME CInv, SInv', AnswersStay, NEW c \in Callers, Current(c), NEW m \in Models,
         m = call[c].key[1], NEW a \in 1..MaxAttempt, model[m].attempt < a,
         UNCHANGED <<bridge, run, lost, recon>>, Submittable(model[m]), call[c].pc = "claim",
         model' = [model EXCEPT ![m] = Submitted(model[m], a)],
         call'[c].pc = "invoke", call'[c].key = <<m, a>>, call'[c].gen = call[c].gen,
         \A d \in Callers : d # c => call'[d] = call[d]
  PROVE  CInv'
<1>0. TypeOK /\ model[m] \in ModelRun /\ Active(c)
  BY DEF CInv, BInv, KeysAs, SInv, TypeOK, Active
<1>1. PICK g \in Generations : g = run.gen /\ g \in Models /\ g = call[c].gen
  BY KeyTypes DEF CInv, BInv, KeysAs, SInv, Models, Current
<1>2. run.status = "running" /\ model[m].status \notin {"needs_review", "succeeded"} /\ ~Live(m)
  BY DEF Current, Submittable, Live, Sent
<1>3. \A n \in Models : ~Live(n)
  <2> SUFFICES ASSUME NEW n \in Models, Live(n) PROVE FALSE
    OBVIOUS
  <2>1. Covered(n)
    BY <1>2 DEF CInv, BInv, KeysAs, LiveAs
  <2> QED
    BY <1>0, <1>1, <1>2, <2>1 DEF Covered
<1>4. /\ RowsAs' /\ SendersAs' /\ ResultsAs' /\ BridgeAs' /\ DeadAs' /\ OneLive'
      /\ IdentityAs' /\ ProbesAs' /\ \A n \in Models : Live(n)' => n = m
  BY <1>2, <1>3, Submission DEF CInv, KeysAs
<1>5. /\ model'[m].status = "running" /\ model'[m].code = "none"
      /\ \A n \in Models : n # m => model'[n] = model[n]
  BY <1>0 DEF TypeOK, Submitted, ModelRun
<1>6. TargetAs(c)
  BY DEF CInv, BInv, KeysAs, TargetsAs
<1>7. m # g => /\ ReusesModelRun /\ Earlier(g) # {} /\ m = Max(Earlier(g))
               /\ model[m].status # "absent" /\ m < g
               /\ model[g].status = "absent" /\ model[m].code # "abandoned"
  BY <1>0, <1>1, <1>2, <1>6, EarlierFacts DEF TargetAs
<1>8. Earlier(g)' = Earlier(g) /\ Max(Earlier(g))' = Max(Earlier(g))
  BY <1>5, <1>7, EarlierKept
<1>9. \A d \in Callers : /\ Active(d)' => Active(d)
                         /\ call'[d].gen = call[d].gen /\ call'[d].key[1] = call[d].key[1]
  BY <1>0 DEF Active
<1>10. ASSUME NEW d \in Callers, Active(d)', call'[d].gen = g, call[d].key[1] # m
       PROVE  m = g /\ model[call[d].key[1]].status = "succeeded"
  BY <1>0, <1>1, <1>2, <1>9, <1>10, OthersAnswered
<1>11. Covered(m)'
  <2> SUFFICES ASSUME NEW d \in Callers, Active(d)', call'[d].gen = g, call[d].key[1] # m
               PROVE  model'[call[d].key[1]].status = "succeeded"
    BY <1>1, <1>9 DEF Covered
  <2>1. call[d].key[1] \in Models
    BY <1>0, KeyTypes
  <2> QED
    BY <1>5, <1>10, <2>1
<1>12. ModelFor(g)' = m
  <2>1. CASE m = g
    BY <1>5, <2>1 DEF ModelFor
  <2>2. CASE m # g
    <3>1. model'[g].status = "absent" /\ model'[Max(Earlier(g))].code # "abandoned"
      BY <1>1, <1>5, <1>7, <2>2
    <3> QED
      BY <1>7, <1>8, <2>2, <3>1 DEF ModelFor
  <2> QED
    BY <2>1, <2>2
<1>13. LiveAs'
  BY <1>1, <1>2, <1>4, <1>11, <1>12 DEF LiveAs
<1>14. GenAs'
  <2>1. \A n \in Models : model'[n].status # "absent" => n <= g
    BY <1>1, <1>5, <1>7 DEF CInv, BInv, KeysAs, GenAs, Models, Generations
  <2>2. \A d \in Callers : Active(d)' => call'[d].gen <= g
    BY <1>1, <1>9 DEF CInv, BInv, KeysAs, GenAs
  <2> QED
    BY <1>1, <2>1, <2>2 DEF GenAs
<1>15. ASSUME NEW d \in Callers, Active(d)', call'[d].gen = g
       PROVE  TargetAs(d)'
  <2>1. PICK e : e = Max(Earlier(g))
    OBVIOUS
  <2>2. PICK n \in Models : n = call[d].key[1] /\ n = call'[d].key[1]
    BY <1>0, <1>9, KeyTypes
  <2>3. n # g => ReusesModelRun /\ Earlier(g) # {} /\ n = e
    BY <1>1, <1>9, <1>15, <2>1, <2>2 DEF CInv, BInv, KeysAs, TargetsAs, TargetAs
  <2>4. n # m => m = g /\ model[n].status = "succeeded" /\ model'[n].status = "succeeded"
    BY <1>5, <1>10, <1>15, <2>2
  <2>5. n = g => model'[g].status # "absent"
    BY <1>5, <2>4
  <2>6. n # g /\ model'[n].status # "succeeded" =>
          model'[g].status = "absent" /\ model'[n].code # "abandoned"
    BY <1>1, <1>5, <1>7, <2>4
  <2> QED
    BY <1>1, <1>8, <2>1, <2>2, <2>3, <2>5, <2>6 DEF TargetAs
<1>16. TargetsAs'
  BY <1>1, <1>15 DEF TargetsAs, TargetAs
<1> QED
  BY <1>4, <1>13, <1>14, <1>16 DEF CInv, BInv, KeysAs

LEMMA ClaimMoves ==
  ASSUME BInv, AnswersStay, NEW c \in Callers, Claim(c), NEW m \in Models, m = call[c].key[1]
  PROVE  \/ Quiet /\ QuietRows /\ call'[c].pc # "invoke"
         \/ /\ Submittable(model[m])
            /\ \E a \in 1..MaxAttempt :
                 /\ model[m].attempt < a /\ model' = [model EXCEPT ![m] = Submitted(@, a)]
                 /\ call' = [call EXCEPT ![c].pc = "invoke", ![c].key = <<m, a>>,
                                         ![c].retries = Retries]
<1>0. TypeOK /\ Active(c) /\ call[c].pc = "claim" /\ call[c] \in Execution
  BY DEF BInv, SInv, TypeOK, Active, Claim
<1>2. PICK r \in ModelRun : r = model[m] /\ RowAs(r) /\ ModelSound(r)
  BY <1>0 DEF TypeOK, BInv, KeysAs, SInv, ModelsSound, RowsAs
<1>3. PICK a : a = IF r.status = "absent" THEN call[c].key[2] + 1 ELSE r.attempt + 1
  OBVIOUS
<1>4. UNCHANGED <<bridge, run, lost, recon>>
  BY DEF Claim
<1>5. CASE /\ Submittable(r) /\ a <= MaxAttempt
           /\ model' = [model EXCEPT ![m] = Submitted(r, a)]
           /\ call' = [call EXCEPT ![c].pc = "invoke", ![c].key = <<m, a>>,
                                   ![c].retries = Retries]
  <2>1. call[c].key[2] \in 0..MaxAttempt
    BY <1>0, KeyTypes
  <2>2. a \in 1..MaxAttempt /\ r.attempt < a
    <3>1. MaxAttempt \in Nat /\ r.attempt \in 0..MaxAttempt
      BY <1>2, SubmissionAssumption DEF ModelRun
    <3>2. r.status = "absent" => r.attempt = 0 /\ a = call[c].key[2] + 1
      BY <1>2, <1>3 DEF RowAs
    <3>3. r.status # "absent" => a = r.attempt + 1
      BY <1>3
    <3>4. a <= MaxAttempt
      BY <1>5
    <3> QED
      BY <2>1, <3>1, <3>2, <3>3, <3>4
  <2>3. model' = [model EXCEPT ![m] = Submitted(@, a)]
    BY <1>0, <1>2, <1>5 DEF TypeOK
  <2> QED
    BY <1>2, <1>5, <2>2, <2>3
<1>6. CASE /\ r.status = "running" /\ SetCall(c, "apply", "reconcile")
           /\ model' = [model EXCEPT ![m] = RequireReview(r, "reconcile")]
  <2>1. PICK v : v = RequireReview(r, "reconcile")
    OBVIOUS
  <2>2. RowAs(v) /\ RowMoves(r, v)
    BY <1>2, <1>6, <2>1, RowMethods
  <2>3. v.status = "needs_review"
    BY <2>1 DEF RequireReview, ModelRun
  <2>4. /\ \A d \in Callers : CallKept(d) /\ (SameCall(d) \/ ResultAs(d)')
        /\ call'[c].pc # "invoke"
    BY <1>0, <1>6, CallMoves DEF CallPcs, Results, ResultAs
  <2> QED
    BY <1>2, <1>4, <1>6, <2>1, <2>2, <2>3, <2>4, OneRowStep
<1>7. CASE /\ UNCHANGED model
           /\ \E res \in {"answer", "reconcile", "failed"} :
                 SetCall(c, "apply", res) /\ (res = "answer" => r.status = "succeeded")
  <2>1. /\ \A d \in Callers : CallKept(d) /\ (SameCall(d) \/ ResultAs(d)')
        /\ call'[c].pc # "invoke"
    BY <1>0, <1>2, <1>7, CallMoves DEF CallPcs, Results, ResultAs
  <2> QED
    BY <1>4, <1>7, <2>1, SameKeysKept, CallStepKept
<1> QED
  BY <1>2, <1>3, <1>5, <1>6, <1>7 DEF Claim

LEMMA ClaimCareful ==
  ASSUME CInv, SInv', AnswersStay, ClaimsCurrent, NEW c \in Callers, Claim(c)
  PROVE  CInv'
<1>0. TypeOK /\ call[c].pc = "claim" /\ call[c] \in Execution
  BY DEF CInv, BInv, SInv, TypeOK, Claim
<1>1. PICK m \in Models : m = call[c].key[1]
  BY <1>0, KeyTypes
<1>2. UNCHANGED <<bridge, run, lost, recon>>
  BY DEF Claim
<1>3. CASE Quiet /\ QuietRows
  BY <1>2, <1>3, KeptStep
<1>4. ASSUME NEW a \in 1..MaxAttempt, Submittable(model[m]), model[m].attempt < a,
             model' = [model EXCEPT ![m] = Submitted(@, a)],
             call' = [call EXCEPT ![c].pc = "invoke", ![c].key = <<m, a>>,
                                  ![c].retries = Retries]
      PROVE  CInv'
  <2>1. /\ call'[c].pc = "invoke" /\ call'[c].key = <<m, a>> /\ call'[c].gen = call[c].gen
        /\ \A d \in Callers : d # c => call'[d] = call[d]
    BY <1>0, <1>4 DEF TypeOK, Execution
  <2>2. Current(c)
    BY <1>0, <2>1 DEF ClaimsCurrent
  <2>3. model' = [model EXCEPT ![m] = Submitted(model[m], a)]
    BY <1>0, <1>4 DEF TypeOK
  <2> QED
    BY <1>0, <1>1, <1>2, <1>4, <2>1, <2>2, <2>3, ClaimSubmits
<1> QED
  BY <1>1, <1>3, <1>4, ClaimMoves DEF CInv

LEMMA StartStageCareful ==
  ASSUME CInv, SInv', AnswersStay, NEW c \in Callers, NEW j \in JobKeys,
         StartStage(c, j[1], j[2])
  PROVE  CInv'
<1>1. /\ UNCHANGED <<model, bridge, run, lost, recon>> /\ TypeOK
      /\ call[c].pc = "idle"
  BY DEF StartStage, CInv, BInv, KeysAs, SInv
<1>2. CASE UNCHANGED call
  BY <1>1, <1>2, SameCallsKept, SameKeysKept, CallStepKept, KeptStep DEF CInv
<1>3. CASE StageFence(j[1], j[2]) /\ ~UNCHANGED call
  <2>1. PICK g \in Generations : g = run.gen /\ g = j[2] /\ run.status # "cancelled"
    BY <1>1, <1>3, KeyTypes DEF StageFence
  <2>2. PICK m \in Models : m = ModelFor(g)
    BY <1>1, ModelForType
  <2>3. /\ call'[c].pc = "claim" /\ call'[c].gen = g /\ call'[c].key[1] = m
        /\ \A d \in Callers : d # c => call'[d] = call[d]
    <3>1. PICK k : k = <<ModelFor(j[2]), Offset(j[2], ModelFor(j[2]))>>
      OBVIOUS
    <3>2. k[1] = m
      BY <2>1, <2>2, <3>1
    <3>3. call' = [call EXCEPT ![c] = [IdleCall EXCEPT !.pc = "claim", !.job = j[1],
                                         !.gen = j[2], !.key = k]]
      BY <1>3, <3>1 DEF StartStage
    <3> QED
      BY <1>1, <2>1, <3>2, <3>3 DEF TypeOK, IdleCall
  <2>4. Kept /\ RowsAs'
    <3>1. \A d \in Callers : /\ Sending(d)' => Sending(d) /\ call'[d].key = call[d].key
                             /\ call'[d].pc = "invoke" => call[d].pc = "invoke"
      BY <2>3 DEF Sending
    <3> QED
      BY <1>1, <3>1, SameRowsKept, SameKeysKept DEF Kept, CInv, BInv, KeysAs
  <2>5. SendersAs' /\ BridgeAs' /\ DeadAs' /\ OneLive'
    BY <1>1, <2>4, SendersKept, BridgeAsKept, DeadAsKept DEF CInv, BInv, KeysAs
  <2>6. ResultsAs'
    <3>1. \A d \in Callers : SameCall(d) \/ ResultAs(d)'
      BY <2>3 DEF SameCall, ResultAs
    <3> QED
      BY <2>4, <3>1, ResultsKept DEF CInv, BInv, KeysAs
  <2>7. IdentityAs' /\ ProbesAs'
    BY <1>1 DEF CInv, BInv, KeysAs, IdentityAs, LastKey, ProbesAs, ProbeAs
  <2>8. GenAs'
    BY <1>1, <2>1, <2>3 DEF CInv, BInv, KeysAs, GenAs, Active, Generations
  <2>9. LiveAs'
    <3> SUFFICES ASSUME NEW n \in Models, Live(n)'
                 PROVE  CASE run.status = "running" -> ModelFor(g) = n /\ Covered(n)'
                          [] run.status = "cancelled" -> TRUE
                          [] OTHER -> \/ RequiresReconciliation /\ n = run.id.key[1]
                                      \/ ReusesModelRun /\ n = g /\ Covered(n)'
      BY <1>1, <2>1 DEF LiveAs, RequiresReconciliation, ModelFor, Earlier
    <3>1. Live(n)
      BY <2>4, LiveShrinks DEF CInv, BInv, KeysAs
    <3>2. ASSUME Covered(n), n = m
          PROVE  Covered(n)'
      BY <1>1, <2>1, <2>3, <3>2 DEF Covered, Active
    <3>3. n = g => m = n
      BY <2>2, <3>1, LiveRow DEF CInv, BInv, KeysAs, ModelFor
    <3> QED
      BY <2>1, <2>2, <3>1, <3>2, <3>3 DEF CInv, BInv, KeysAs, LiveAs
  <2>10. PICK e : e = Max(Earlier(g)) /\ e = Max(Earlier(g))'
    BY <1>1 DEF Earlier
  <2>11. Earlier(g)' = Earlier(g) /\ (Earlier(g) # {} => e # g)
    <3>1. Earlier(g)' = Earlier(g)
      BY <1>1 DEF Earlier
    <3>2. Earlier(g) # {} => e < g
      BY <2>10, EarlierFacts
    <3>3. g \in Int /\ (e < g => e # g)
      BY SubmissionAssumption DEF Generations
    <3> QED
      BY <3>1, <3>2, <3>3
  <2>12. /\ m # g => ReusesModelRun /\ Earlier(g) # {} /\ m = e
                     /\ model[g].status = "absent" /\ model[m].code # "abandoned"
         /\ m = g /\ ReusesModelRun /\ model[g].status = "absent" /\ Earlier(g) # {} =>
              model[e].code = "abandoned"
    BY <2>2, <2>10, <2>11 DEF ModelFor
  <2>13. TargetAs(c)'
    BY <1>1, <2>1, <2>3, <2>10, <2>11, <2>12 DEF TargetAs
  <2>14. \A d \in Callers : d # c => TargetAs(d)'
    <3> SUFFICES ASSUME NEW d \in Callers, d # c PROVE TargetAs(d)'
      OBVIOUS
    <3>1. TargetAs(d)
      BY DEF CInv, BInv, KeysAs, TargetsAs
    <3> QED
      BY <1>1, <2>1, <2>3, <2>10, <2>11, <3>1 DEF TargetAs, Active
  <2>15. TargetsAs'
    BY <2>13, <2>14 DEF TargetsAs
  <2> QED
    BY <2>4, <2>5, <2>6, <2>7, <2>8, <2>9, <2>15 DEF CInv, BInv, KeysAs
<1> QED
  BY <1>1, <1>2, <1>3 DEF StartStage

-----------------------------------------------------------------------------
(* The steps that change the run.                                          *)
LEMMA RunStep ==
  ASSUME CInv, SInv', UNCHANGED <<model, bridge, lost>>,
         \A c \in Callers : CallKept(c) /\ (SameCall(c) \/ ResultAs(c)'),
         \A r \in Reconcilers : recon'[r] = recon[r] \/ ProbeAs(r)'
  PROVE  /\ \A n \in Models : Live(n)' => Live(n)
         /\ IdentityAs' /\ LiveAs' /\ GenAs' /\ TargetsAs' => CInv'
<1>1. Kept /\ RowsAs'
  BY SameModels, SameRowsKept, SameKeysKept DEF Kept, CallKept, CInv, BInv, KeysAs
<1>2. \A n \in Models : Live(n)' => Live(n)
  BY <1>1, LiveShrinks DEF CInv, BInv, KeysAs
<1>3. SendersAs' /\ ResultsAs' /\ BridgeAs' /\ DeadAs' /\ OneLive'
  BY <1>1, SendersKept, ResultsKept, BridgeAsKept, DeadAsKept DEF CInv, BInv, KeysAs
<1>4. ProbesAs'
  BY ProbesKept DEF CInv, BInv, KeysAs
<1> QED
  BY <1>1, <1>2, <1>3, <1>4 DEF CInv, BInv, KeysAs

(* An execution that found another ModelRun than the one the run waits for *)
(* found its answer.                                                       *)
LEMMA FoundAnswer ==
  ASSUME CInv, NEW c \in Callers, Active(c), Current(c), NEW n \in Models, Live(n),
         n # call[c].key[1]
  PROVE  ReusesModelRun /\ n = run.gen
<1>1. PICK g \in Generations : g = run.gen
  BY KeyTypes DEF CInv, BInv, KeysAs, SInv
<1>2. PICK m \in Models : m = call[c].key[1]
  BY KeyTypes DEF CInv, BInv, KeysAs, SInv
<1>3. ModelFor(g) = n /\ model[m].status = "succeeded"
  BY <1>1, <1>2 DEF Current, CInv, BInv, KeysAs, LiveAs, Covered
<1>4. m # g => ReusesModelRun /\ Earlier(g) # {} /\ m = Max(Earlier(g))
  BY <1>1, <1>2 DEF Current, CInv, BInv, KeysAs, TargetsAs, TargetAs
<1>5. n # g => model[g].status = "absent" /\ n = Max(Earlier(g))
  BY <1>3 DEF ModelFor
<1> QED
  BY <1>1, <1>2, <1>3, <1>4, <1>5

LEMMA RecordCareful ==
  ASSUME CInv, SInv', AnswersStay, RecordsCurrent, ReviewsNamed, NEW c \in Callers, Record(c)
  PROVE  CInv'
<1>1. /\ UNCHANGED <<model, bridge, lost, recon>> /\ TypeOK /\ Active(c)
      /\ call[c].pc = "record" /\ SetCall(c, "follow", call[c].res) /\ call[c].res \in Results
  BY DEF Record, CInv, BInv, KeysAs, SInv, TypeOK, Execution, Active
<1>2. /\ \A d \in Callers : CallKept(d) /\ (SameCall(d) \/ ResultAs(d)')
      /\ call'[c].pc = "follow"
  BY <1>1, CallMoves DEF CallPcs, ResultAs
<1>3. CASE UNCHANGED run
  BY <1>1, <1>2, <1>3, SameModels, SameKeysKept, CallStepKept, KeptStep DEF CInv, BInv
<1>4. CASE run' # run
  <2>1. PICK m \in Models : m = call[c].key[1]
    BY <1>1, KeyTypes
  <2>2. PICK g \in Generations : g = run.gen
    BY <1>1, KeyTypes
  <2>3. Current(c) /\ run.status = "running"
    BY <1>1, <1>2, <1>4 DEF RecordsCurrent, Current
  <2>4. /\ run'.gen = g
        /\ \/ /\ call[c].res = "answer" /\ run'.status = "ready" /\ run'.id = run.id
           \/ /\ AwaitsReconciliation(m) /\ run'.status = "needs_review"
              /\ run'.code = "reconcile" /\ run'.id.on /\ run'.id.key = LastKey(m)
           \/ run'.status = "needs_review" /\ run'.id = NoIdentity
    <3>1. run \in ProductionRun
      BY <1>1 DEF TypeOK
    <3>2. CASE call[c].res = "answer"
      <4>1. run' = [run EXCEPT !.status = "ready"]
        BY <2>3, <3>2 DEF Record
      <4> QED
        BY <2>2, <3>1, <3>2, <4>1 DEF ProductionRun
    <3>3. CASE call[c].res = "reconcile" /\ AwaitsReconciliation(m)
      <4>1. run' = [run EXCEPT !.status = "needs_review", !.code = "reconcile",
                      !.id = [NoIdentity EXCEPT !.on = TRUE, !.key = LastKey(m)]]
        BY <2>1, <2>3, <3>3 DEF Record, LastKey
      <4>2. PICK k : k = LastKey(m)
        OBVIOUS
      <4> QED
        BY <2>2, <3>1, <3>3, <4>1, <4>2 DEF ProductionRun, NoIdentity
    <3>4. CASE call[c].res # "answer" /\ ~(call[c].res = "reconcile" /\ AwaitsReconciliation(m))
      <4>1. \/ run' = [run EXCEPT !.status = "needs_review", !.code = "reconcile",
                         !.id = NoIdentity]
            \/ run' = [run EXCEPT !.status = "needs_review", !.code = "other",
                         !.id = NoIdentity]
        BY <2>1, <2>3, <3>4 DEF Record
      <4> QED
        BY <2>2, <3>1, <4>1 DEF ProductionRun
    <3> QED
      BY <3>2, <3>3, <3>4
  <2>5. GenAs' /\ TargetsAs'
    BY <1>1, <1>2, <2>2, <2>3, <2>4, SameRowsKept, GenAsKept, TargetsKept
    DEF CInv, BInv, KeysAs, CallKept, RowKept
  <2>6. AwaitsReconciliation(m) => model[m].status = "needs_review"
    BY DEF AwaitsReconciliation, CInv, BInv, KeysAs, RowsAs, RowAs
  <2>7. IdentityAs'
    <3>1. LastKey(m)[1] = m /\ LastKey(m)' = LastKey(m)
      BY <1>1 DEF LastKey
    <3>2. run'.id = run.id \/ run'.id = NoIdentity \/
            (model[m].status = "needs_review" /\ run'.id.key = LastKey(m))
      BY <2>4, <2>6
    <3>3. CASE run'.id = run.id
      BY <1>1, <3>3 DEF CInv, BInv, KeysAs, IdentityAs, LastKey
    <3>4. CASE run'.id = NoIdentity
      BY <3>4 DEF IdentityAs, NoIdentity
    <3>5. CASE model[m].status = "needs_review" /\ run'.id.key = LastKey(m)
      <4>1. run'.id.key[1] = m
        BY <3>1, <3>5
      <4>2. run'.id.key = LastKey(run.id.key[1])'
        BY <1>1, <3>5, <4>1 DEF LastKey
      <4> QED
        BY <1>1, <3>5, <4>1, <4>2 DEF IdentityAs
    <3> QED
      BY <3>2, <3>3, <3>4, <3>5
  <2>8. LiveAs'
    <3> SUFFICES ASSUME NEW n \in Models, Live(n)
                 PROVE  \/ RequiresReconciliation' /\ n = run'.id.key[1]
                        \/ ReusesModelRun /\ n = g /\ Covered(n)'
      BY <1>1, <1>2, <2>4, RunStep DEF LiveAs
    <3>1. Covered(n)
      BY <2>3 DEF CInv, BInv, KeysAs, LiveAs
    <3>2. Covered(n)'
      BY <1>1, <1>2, <2>2, <2>4, <3>1, SameRowsKept, CoveredKept DEF CallKept, RowKept
    <3>3. ASSUME n # m
          PROVE  ReusesModelRun /\ n = g
      BY <1>1, <2>1, <2>2, <2>3, <3>3, FoundAnswer
    <3>4. CASE call[c].res = "answer"
      <4>1. model[m].status = "succeeded"
        BY <1>1, <2>1, <3>4 DEF CInv, BInv, KeysAs, ResultsAs, ResultAs
      <4>2. n # m
        BY <4>1, LiveRow DEF CInv, BInv, KeysAs
      <4> QED
        BY <3>2, <3>3, <4>2
    <3>5. CASE /\ AwaitsReconciliation(m) /\ run'.status = "needs_review"
               /\ run'.code = "reconcile" /\ run'.id.on /\ run'.id.key = LastKey(m)
      <4>1. n = m
        BY <1>1, <2>1, <2>3, <2>6, <3>1, <3>5 DEF Covered, Current
      <4> QED
        BY <3>5, <4>1 DEF RequiresReconciliation, LastKey
    <3>6. CASE run'.status = "needs_review" /\ run'.id = NoIdentity
      <4>1. ~Unsettled(m)
        BY <1>1, <1>2, <1>4, <2>1, <3>6 DEF ReviewsNamed, NoIdentity
      <4>2. n # m
        BY <4>1, LiveRow DEF CInv, BInv, KeysAs
      <4> QED
        BY <3>2, <3>3, <4>2
    <3> QED
      BY <2>4, <3>4, <3>5, <3>6
  <2> QED
    BY <1>1, <1>2, <2>5, <2>7, <2>8, RunStep
<1> QED
  BY <1>3, <1>4

LEMMA Resumption ==
  ASSUME CInv, SInv', UNCHANGED <<model, bridge, lost, call>>, NEW text, NEW prov,
         run' = ResumedRun(text, prov), run.id.on,
         model[run.id.key[1]].status = "succeeded",
         RequiresReconciliation \/ run.status = "running",
         \A r \in Reconcilers : recon'[r] = recon[r] \/ ProbeAs(r)'
  PROVE  CInv'
<1>0. /\ TypeOK /\ run \in ProductionRun /\ run.id \in Identity
      /\ \A c \in Callers : CallKept(c) /\ SameCall(c)
  BY SameCallsKept, KeyTypes DEF CInv, BInv, KeysAs, SInv, TypeOK
<1>1. PICK g \in Generations : g = run.gen
  BY <1>0, KeyTypes
<1>2. run'.status = "running" /\ run'.gen = g /\ run'.id.key = run.id.key
  <2>1. run' = [run EXCEPT !.status = "running", !.code = "none",
                  !.id = [run.id EXCEPT !.out = text, !.prov = prov]]
    BY <1>0 DEF ResumedRun, ProductionRun, Identity
  <2>2. PICK i : i = [run.id EXCEPT !.out = text, !.prov = prov]
    OBVIOUS
  <2>3. i.key = run.id.key
    BY <1>0, <2>2 DEF Identity
  <2> QED
    BY <1>0, <1>1, <2>1, <2>2, <2>3 DEF ProductionRun
<1>3. GenAs' /\ TargetsAs'
  BY <1>0, <1>1, <1>2, SameRowsKept, GenAsKept, TargetsKept DEF CInv, BInv, KeysAs, CallKept, RowKept
<1>4. IdentityAs'
  BY <1>2 DEF CInv, BInv, KeysAs, IdentityAs, LastKey
<1>5. LiveAs'
  <2> SUFFICES ASSUME NEW n \in Models, Live(n) PROVE ModelFor(g)' = n /\ Covered(n)'
    BY <1>0, <1>1, <1>2, RunStep DEF LiveAs
  <2>1. n # run.id.key[1]
    BY LiveRow DEF CInv, BInv, KeysAs
  <2>2. ModelFor(g) = n /\ Covered(n)
    <3>1. CASE run.status = "running"
      BY <1>1, <3>1 DEF CInv, BInv, KeysAs, LiveAs
    <3>2. CASE RequiresReconciliation
      <4>1. ReusesModelRun /\ n = g /\ Covered(n)
        BY <1>1, <2>1, <3>2 DEF CInv, BInv, KeysAs, LiveAs, RequiresReconciliation
      <4>2. model[n].status # "absent"
        BY LiveRow DEF CInv, BInv, KeysAs
      <4> QED
        BY <4>1, <4>2 DEF ModelFor
    <3> QED
      BY <3>1, <3>2
  <2>3. ModelFor(g)' = ModelFor(g)
    BY DEF ModelFor, Earlier
  <2>4. Covered(n)'
    BY <1>0, <1>1, <1>2, <2>2, SameRowsKept, CoveredKept DEF CallKept, RowKept
  <2> QED
    BY <2>2, <2>3, <2>4
<1> QED
  BY <1>0, <1>3, <1>4, <1>5, RunStep

LEMMA ResumeRunCareful ==
  ASSUME CInv, SInv', NEW r \in Reconcilers, ResumeRun(r)
  PROVE  CInv'
<1>1. UNCHANGED <<model, bridge, call, lost>> /\ TypeOK /\ recon[r].pc = "resume"
  BY DEF ResumeRun, CInv, BInv, KeysAs, SInv
<1>2. \A x \in Reconcilers : recon'[x] = recon[x] \/ ProbeAs(x)'
  <2>1. \/ recon' = [recon EXCEPT ![r].pc = "undecided"]
        \/ recon' = [recon EXCEPT ![r].pc = "dispatch", ![r].job = "resume"]
    BY DEF ResumeRun, SetRecon
  <2> QED
    BY <1>1, <2>1, ReconMoves DEF ReconPcs
<1>3. CASE UNCHANGED run
  BY <1>1, <1>2, <1>3, ReconStepKept, KeptStep DEF CInv
<1>4. CASE /\ RequiresReconciliation /\ run.id.key[1] = recon[r].key[1]
           /\ run' = ResumedRun(recon[r].text, "automatic")
  <2>1. model[run.id.key[1]].out # NoText
    BY <1>1, <1>4 DEF CInv, BInv, KeysAs, SInv, ReconsSound, ReconSound
  <2>2. run.id.key[1] \in Models
    BY <1>1, KeyTypes
  <2>3. model[run.id.key[1]].status = "succeeded"
    BY <2>1, <2>2 DEF CInv, BInv, KeysAs, SInv, ModelsSound, ModelSound
  <2> QED
    BY <1>1, <1>2, <1>4, <2>3, Resumption DEF RequiresReconciliation
<1> QED
  BY <1>3, <1>4 DEF ResumeRun

LEMMA ReopenRunCareful ==
  ASSUME CInv, SInv', NEW r \in Reconcilers, ReopenRun(r)
  PROVE  CInv'
<1>1. UNCHANGED <<model, bridge, call, lost>> /\ TypeOK
  BY DEF ReopenRun, CInv, BInv, KeysAs, SInv
<1>2. \A x \in Reconcilers : recon'[x] = recon[x] \/ ProbeAs(x)'
  <2>1. \/ recon' = [recon EXCEPT ![r] = IdleRecon]
        \/ recon' = [recon EXCEPT ![r].pc = "dispatch", ![r].job = "resume"]
    BY DEF ReopenRun
  <2> QED
    BY <1>1, <2>1, ReconMoves DEF ReconPcs
<1>3. CASE UNCHANGED run
  BY <1>1, <1>2, <1>3, ReconStepKept, KeptStep DEF CInv
<1>4. CASE /\ run.id.on /\ run.id.key[1] = recon[r].key[1]
           /\ model[recon[r].key[1]].status = "succeeded"
           /\ RequiresReconciliation \/ run.status = "running"
           /\ run' = ResumedRun(recon[r].text, "operator")
  BY <1>1, <1>2, <1>4, Resumption
<1> QED
  BY <1>3, <1>4 DEF ReopenRun

(* The submission a run waited for is given up.                            *)
LEMMA GivenUp ==
  ASSUME CInv, SInv', AnswersStay, UNCHANGED <<bridge, call>>, lost \subseteq lost',
         NEW m \in Models, m = run.id.key[1], RequiresReconciliation,
         model[m].status = "needs_review",
         NEW v, model' = [model EXCEPT ![m] = v], RowAs(v), v.attempt = model[m].attempt,
         v.status \notin {"absent", "needs_review"}, ~Sent(v), Dead(LastKey(m))',
         run'.status = "needs_review", run'.gen = run.gen, run'.id = NoIdentity,
         \A r \in Reconcilers : recon'[r] = recon[r] \/ ProbeAs(r)'
  PROVE  CInv'
<1>0. TypeOK /\ \A c \in Callers : CallKept(c) /\ SameCall(c)
  BY SameCallsKept DEF CInv, BInv, KeysAs, SInv
<1>1. model'[m] = v /\ \A n \in Models : n # m => model'[n] = model[n]
  BY <1>0 DEF TypeOK
<1>2. RowsAs' /\ \A n \in Models : RowKept(n)
  <2>1. RowKept(m)
    <3>1. model[m].code # "abandoned"
      BY DEF CInv, BInv, KeysAs, RowsAs, RowAs
    <3> QED
      BY <1>1, <3>1 DEF RowKept, RowStands
  <2>2. \A n \in Models : n # m => RowKept(n)
    BY <1>1 DEF RowKept, RowStands
  <2>3. RowsAs'
    BY <1>1 DEF CInv, BInv, KeysAs, RowsAs
  <2> QED
    BY <2>1, <2>2, <2>3
<1>3. Kept
  BY <1>0, <1>2, SameKeysKept DEF Kept, CallKept
<1>4. SendersAs' /\ ResultsAs' /\ BridgeAs' /\ DeadAs' /\ OneLive'
  BY <1>0, <1>3, SendersKept, ResultsKept, BridgeAsKept, DeadAsKept DEF CInv, BInv, KeysAs
<1>5. ProbesAs'
  BY ProbesKept DEF CInv, BInv, KeysAs
<1>6. IdentityAs'
  BY DEF IdentityAs, NoIdentity
<1>7. ~run'.id.on
  BY DEF NoIdentity
<1>8. GenAs' /\ TargetsAs'
  BY <1>0, <1>2, <1>7, GenAsKept, TargetsKept DEF CInv, BInv, KeysAs, CallKept, RowKept
<1>9. LiveAs'
  <2> SUFFICES ASSUME NEW n \in Models, Live(n)'
               PROVE  ReusesModelRun /\ n = run.gen /\ Covered(n)'
    BY DEF LiveAs
  <2>1. Live(n) /\ n # m
    BY <1>1, <1>3, LiveShrinks DEF CInv, BInv, KeysAs, Live
  <2>2. ReusesModelRun /\ n = run.gen /\ Covered(n)
    BY <2>1 DEF CInv, BInv, KeysAs, LiveAs, RequiresReconciliation
  <2> QED
    BY <1>0, <1>2, <2>2, CoveredKept DEF CallKept, RowKept
<1> QED
  BY <1>2, <1>4, <1>5, <1>6, <1>8, <1>9 DEF CInv, BInv, KeysAs

LEMMA ReleaseCareful ==
  ASSUME CInv, SInv', AnswersStay, ReleasesProbed, NEW r \in Reconcilers, Release(r)
  PROVE  CInv'
<1>1. /\ UNCHANGED <<bridge, call, lost>> /\ TypeOK /\ recon[r].pc = "release"
      /\ run \in ProductionRun
  BY DEF Release, CInv, BInv, KeysAs, SInv, TypeOK
<1>2. /\ \A x \in Reconcilers : recon'[x] = recon[x] \/ ProbeAs(x)'
      /\ recon'[r].pc # "release"
  <2>1. \/ recon' = [recon EXCEPT ![r] = IdleRecon]
        \/ \E pc \in {"undecided", "retry"} : recon' = [recon EXCEPT ![r].pc = pc]
    BY DEF Release, SetRecon, EndRecon
  <2>2. recon'[r].pc # "release"
    BY <1>1, <2>1 DEF TypeOK, Reconciliation, IdleRecon
  <2> QED
    BY <1>1, <2>1, <2>2, ReconMoves DEF ReconPcs
<1>3. CASE UNCHANGED <<model, run>>
  BY <1>1, <1>2, <1>3, ReconStepKept, KeptStep DEF CInv
<1>4. PICK m \in Models : m = run.id.key[1]
  BY <1>1, KeyTypes
<1>5. PICK q \in ModelRun : q = model[m]
  BY <1>1 DEF TypeOK
<1>6. CASE /\ RequiresReconciliation /\ q.status = "needs_review"
           /\ model' = [model EXCEPT ![m] = Reopened(q)]
           /\ run' = [run EXCEPT !.code = "unavailable", !.id = NoIdentity]
  <2>1. PICK v : v = Reopened(q)
    OBVIOUS
  <2>2. v.status = "running" /\ v.sub = "not_submitted" /\ v.attempt = q.attempt /\ RowAs(v)
    BY <2>1 DEF Reopened, ModelRun, RowAs
  <2>3. model'[m] = v
    BY <1>1, <1>6, <2>1 DEF TypeOK
  <2>4. run.id.key = LastKey(m)
    BY <1>4, <1>6 DEF RequiresReconciliation, CInv, BInv, KeysAs, IdentityAs
  <2>5. recon[r].key = run.id.key
    BY <1>1, <1>2, <1>5, <1>6, <2>2, <2>3 DEF ReleasesProbed
  <2>6. bridge[run.id.key] = "closed"
    BY <1>1, <2>5 DEF CInv, BInv, KeysAs, ProbesAs, ProbeAs
  <2>7. Dead(LastKey(m))'
    BY <1>1, <1>5, <2>2, <2>3, <2>4, <2>6 DEF Dead, LastKey
  <2>8. run'.status = "needs_review" /\ run'.gen = run.gen /\ run'.id = NoIdentity
    BY <1>1, <1>6 DEF ProductionRun, RequiresReconciliation
  <2> QED
    BY <1>1, <1>2, <1>4, <1>5, <1>6, <2>1, <2>2, <2>7, <2>8, GivenUp DEF Sent
<1> QED
  BY <1>1, <1>3, <1>4, <1>5, <1>6 DEF Release, Releasable, TypeOK

LEMMA DeclareLostCareful ==
  ASSUME CInv, SInv', AnswersStay, NEW r \in Reconcilers, DeclareLost(r)
  PROVE  CInv'
<1>1. /\ UNCHANGED <<bridge, call>> /\ TypeOK /\ run \in ProductionRun
      /\ recon' = [recon EXCEPT ![r] = IdleRecon]
  BY DEF DeclareLost, EndRecon, CInv, BInv, KeysAs, SInv, TypeOK
<1>2. \A x \in Reconcilers : recon'[x] = recon[x] \/ ProbeAs(x)'
  BY <1>1, ReconMoves
<1>3. CASE UNCHANGED <<model, run, lost>>
  BY <1>1, <1>2, <1>3, ReconStepKept, KeptStep DEF CInv
<1>4. PICK m \in Models : m = run.id.key[1]
  BY <1>1, KeyTypes
<1>5. PICK q \in ModelRun : q = model[m]
  BY <1>1 DEF TypeOK
<1>6. CASE /\ RequiresReconciliation /\ q.status = "needs_review"
           /\ model' = [model EXCEPT ![m] = Fail(q, q.sub, "abandoned")]
           /\ run' = [run EXCEPT !.code = "lost", !.id = NoIdentity]
           /\ lost' = lost \union {run.id.key}
  <2>1. PICK v : v = Fail(q, q.sub, "abandoned")
    OBVIOUS
  <2>2. v.status = "failed" /\ v.attempt = q.attempt /\ RowAs(v)
    BY <2>1 DEF Fail, ModelRun, RowAs
  <2>3. model'[m] = v
    BY <1>1, <1>6, <2>1 DEF TypeOK
  <2>4. run.id.key = LastKey(m)
    BY <1>4, <1>6 DEF RequiresReconciliation, CInv, BInv, KeysAs, IdentityAs
  <2>5. LastKey(m)' \in lost'
    BY <1>5, <1>6, <2>2, <2>3, <2>4 DEF LastKey
  <2>6. Dead(LastKey(m))'
    BY <2>5 DEF Dead
  <2>7. run'.status = "needs_review" /\ run'.gen = run.gen /\ run'.id = NoIdentity
    BY <1>1, <1>6 DEF ProductionRun, RequiresReconciliation
  <2> QED
    BY <1>1, <1>2, <1>4, <1>5, <1>6, <2>1, <2>2, <2>6, <2>7, GivenUp DEF Sent
<1> QED
  BY <1>1, <1>3, <1>4, <1>5, <1>6 DEF DeclareLost, Releasable, TypeOK

(* A new generation continues the one ModelRun that may still be answered. *)
LEMMA Generation ==
  ASSUME CInv, SInv', UNCHANGED <<model, bridge, lost, call>>,
         run'.status = "running", run'.gen = run.gen + 1, run'.id = NoIdentity,
         \A n \in Models : Live(n) => ReusesModelRun /\ n = run.gen,
         \A r \in Reconcilers : recon'[r] = recon[r] \/ ProbeAs(r)'
  PROVE  CInv'
<1>0. \A c \in Callers : CallKept(c) /\ SameCall(c)
  BY SameCallsKept
<1>1. PICK g \in Generations : g = run.gen
  BY KeyTypes DEF CInv, BInv, KeysAs, SInv
<1>2. PICK h \in Generations : h = run'.gen /\ h = g + 1
  BY <1>1 DEF SInv, TypeOK, ProductionRun
<1>3. g \in Nat /\ h \in Models /\ Models \subseteq Nat
  BY SubmissionAssumption DEF Generations, Models
<1>4. \A m \in Models : model[m].status # "absent" => m <= g
  BY <1>1 DEF CInv, BInv, KeysAs, GenAs
<1>5. \A c \in Callers : Active(c) => call[c].gen <= g /\ call[c].gen \in Nat
  <2>1. \A c \in Callers : call[c].gen \in Generations
    BY DEF CInv, BInv, KeysAs, SInv, TypeOK, Execution
  <2> QED
    BY <1>1, <2>1, SubmissionAssumption DEF CInv, BInv, KeysAs, GenAs, Generations
<1>6. \A c \in Callers : Active(c)' => Active(c) /\ call'[c].gen # h /\ call'[c].gen <= h
  BY <1>2, <1>3, <1>5 DEF Active
<1>7. GenAs'
  <2>1. \A m \in Models : model'[m].status # "absent" => m <= h
    BY <1>2, <1>3, <1>4
  <2> QED
    BY <1>2, <1>6, <2>1 DEF GenAs
<1>8. TargetsAs'
  BY <1>2, <1>6 DEF TargetsAs, TargetAs
<1>9. IdentityAs'
  BY DEF IdentityAs, NoIdentity
<1>10. LiveAs'
  <2> SUFFICES ASSUME NEW n \in Models, Live(n)
               PROVE  ModelFor(h)' = n /\ Covered(n)'
    BY <1>0, <1>2, RunStep DEF LiveAs
  <2>1. n = g /\ ReusesModelRun /\ model[n].status # "absent" /\ model[n].code # "abandoned"
    BY <1>1, LiveRow DEF CInv, BInv, KeysAs
  <2>2. model[h].status = "absent"
    BY <1>2, <1>3, <1>4
  <2>3. n \in Earlier(h)
    BY <1>2, <1>3, <2>1 DEF Earlier
  <2>4. PICK e : e = Max(Earlier(h))
    OBVIOUS
  <2>5. e = n
    <3>1. e \in Models /\ e < h /\ n <= e
      BY <2>3, <2>4, EarlierFacts
    <3> QED
      BY <1>2, <1>3, <2>1, <3>1
  <2>6. ModelFor(h) = n
    BY <2>1, <2>2, <2>3, <2>4, <2>5 DEF ModelFor
  <2>7. ModelFor(h)' = ModelFor(h)
    BY DEF ModelFor, Earlier
  <2>8. Covered(n)'
    BY <1>2, <1>6 DEF Covered
  <2> QED
    BY <2>6, <2>7, <2>8
<1> QED
  BY <1>0, <1>7, <1>8, <1>9, <1>10, RunStep

LEMMA NextGenerationRun ==
  ASSUME TypeOK, \/ run' = NextGeneration
                 \/ \E n : run' = [NextGeneration EXCEPT !.reemitted = n]
  PROVE  run'.status = "running" /\ run'.gen = run.gen + 1 /\ run'.id = NoIdentity
<1>1. run \in ProductionRun
  BY DEF TypeOK
<1>2. PICK q : q = NextGeneration
  OBVIOUS
<1>3. /\ q.status = "running" /\ q.gen = run.gen + 1 /\ q.id = NoIdentity
      /\ DOMAIN q = DOMAIN run /\ q = [x \in DOMAIN run |-> q[x]]
  BY <1>1, <1>2 DEF NextGeneration, ProductionRun
<1>4. DOMAIN run = {"status", "gen", "id", "reemitted", "code"}
  BY <1>1 DEF ProductionRun
<1>5. CASE run' = q
  BY <1>3, <1>5
<1>6. ASSUME NEW n, run' = [q EXCEPT !.reemitted = n]
      PROVE  run'.status = "running" /\ run'.gen = run.gen + 1 /\ run'.id = NoIdentity
  BY <1>3, <1>4, <1>6
<1> QED
  BY <1>2, <1>5, <1>6

LEMMA ReemitCareful ==
  ASSUME CInv, SInv', NEW r \in Reconcilers, Reemit(r)
  PROVE  CInv'
<1>1. UNCHANGED <<model, bridge, call, lost>> /\ TypeOK
  BY DEF Reemit, CInv, BInv, KeysAs, SInv
<1>2. \A x \in Reconcilers : recon'[x] = recon[x] \/ ProbeAs(x)'
  <2>1. \/ recon' = [recon EXCEPT ![r] = IdleRecon]
        \/ recon' = [recon EXCEPT ![r].pc = "dispatch", ![r].job = "stage"]
    BY DEF Reemit, EndRecon
  <2> QED
    BY <1>1, <2>1, ReconMoves DEF ReconPcs
<1>3. CASE UNCHANGED run
  BY <1>1, <1>2, <1>3, ReconStepKept, KeptStep DEF CInv
<1>4. CASE /\ run.status = "needs_review" /\ run.code = "unavailable"
           /\ run' = [NextGeneration EXCEPT !.reemitted = @ + 1]
  <2>1. run'.status = "running" /\ run'.gen = run.gen + 1 /\ run'.id = NoIdentity
    BY <1>1, <1>4, NextGenerationRun
  <2>2. \A n \in Models : Live(n) => ReusesModelRun /\ n = run.gen
    BY <1>4 DEF CInv, BInv, KeysAs, LiveAs, RequiresReconciliation
  <2> QED
    BY <1>1, <1>2, <2>1, <2>2, Generation
<1> QED
  BY <1>3, <1>4 DEF Reemit

LEMMA RetryRunCareful ==
  ASSUME CInv, SInv', RetryRun
  PROVE  CInv'
<1>1. UNCHANGED <<model, bridge, call, lost, recon>> /\ TypeOK
  BY DEF RetryRun, CInv, BInv, KeysAs, SInv
<1>2. run'.status = "running" /\ run'.gen = run.gen + 1 /\ run'.id = NoIdentity
  BY <1>1, NextGenerationRun DEF RetryRun
<1>3. \A n \in Models : Live(n) => ReusesModelRun /\ n = run.gen
  BY DEF RetryRun, CInv, BInv, KeysAs, LiveAs
<1> QED
  BY <1>1, <1>2, <1>3, Generation

LEMMA ResumeCancelledCareful ==
  ASSUME CInv, SInv', ResumesQuiet, ResumeCancelled
  PROVE  CInv'
<1>1. UNCHANGED <<model, bridge, call, lost, recon>> /\ TypeOK
  BY DEF ResumeCancelled, CInv, BInv, KeysAs, SInv
<1>2. run'.status = "running" /\ run'.gen = run.gen + 1 /\ run'.id = NoIdentity
  BY <1>1, NextGenerationRun DEF ResumeCancelled
<1>3. \A n \in Models : ~Live(n)
  BY <1>2, LiveRow DEF ResumeCancelled, ResumesQuiet, CInv, BInv, KeysAs
<1> QED
  BY <1>1, <1>2, <1>3, Generation

LEMMA CancelRunCareful ==
  ASSUME CInv, SInv', CancelRun
  PROVE  CInv'
<1>1. UNCHANGED <<model, bridge, call, lost, recon>> /\ TypeOK /\ run \in ProductionRun
  BY DEF CancelRun, CInv, BInv, KeysAs, SInv, TypeOK
<1>2. \A c \in Callers : CallKept(c) /\ SameCall(c)
  BY <1>1, SameCallsKept
<1>3. /\ run.status = "running" /\ run'.status = "cancelled" /\ run'.gen = run.gen
      /\ run'.id = run.id
  BY <1>1 DEF CancelRun, ProductionRun
<1>4. IdentityAs'
  BY <1>1, <1>3 DEF CInv, BInv, KeysAs, IdentityAs, LastKey
<1>5. LiveAs'
  BY <1>3 DEF LiveAs
<1>6. GenAs' /\ TargetsAs'
  BY <1>1, <1>2, <1>3, SameRowsKept, GenAsKept, TargetsKept DEF CInv, BInv, KeysAs, CallKept, RowKept
<1> QED
  BY <1>1, <1>2, <1>4, <1>5, <1>6, RunStep

-----------------------------------------------------------------------------
LEMMA InitCareful == Init => CInv
<1> SUFFICES ASSUME Init PROVE CInv
  OBVIOUS
<1>1. SInv
  BY InitSound
<1>2. /\ \A m \in Models : model[m] = NewModel
      /\ \A c \in Callers : call[c].pc = "idle"
      /\ \A r \in Reconcilers : recon[r].pc = "idle"
      /\ \A k \in Keys : bridge[k] = "none"
      /\ run.id = NoIdentity
  BY DEF Init, IdleCall, IdleRecon
<1>3. RowsAs /\ \A m \in Models : model[m].status = "absent" /\ ~Live(m)
  BY <1>2 DEF RowsAs, RowAs, Live, Sent, NewModel
<1>4. SendersAs /\ ResultsAs /\ BridgeAs /\ ProbesAs
  BY <1>2 DEF SendersAs, SenderAs, Sending, ResultsAs, ResultAs, BridgeAs, ProbesAs, ProbeAs
<1>5. DeadAs /\ OneLive /\ LiveAs
  BY <1>2, <1>3 DEF DeadAs, Dead, OneLive, LiveAs
<1>6. IdentityAs
  BY <1>2 DEF IdentityAs, NoIdentity
<1>7. GenAs /\ TargetsAs
  BY <1>2, <1>3 DEF GenAs, TargetsAs, TargetAs, Active
<1> QED
  BY <1>1, <1>3, <1>4, <1>5, <1>6, <1>7 DEF CInv, BInv, KeysAs

(* Every careful step keeps the invariant.                                 *)
LEMMA OwnTouched ==
  ASSUME TypeOK, TouchesOwn, NEW c \in Callers, Settle(c) \/ LoseCall(c), model' # model
  PROVE  Own(c)
<1>1. call[c].pc \in {"invoke", "settle"} /\ call'[c].pc \in {"idle", "apply"}
  BY DEF TypeOK, Execution, Settle, SetCall, LoseCall, EndCall, IdleCall
<1> QED
  BY <1>1 DEF TouchesOwn

LEMMA CarefulStep == CInv /\ [Next]_vars /\ Careful => CInv'
<1> SUFFICES ASSUME CInv, [Next]_vars, Careful PROVE CInv'
  OBVIOUS
<1>1. SInv' /\ AnswersStay
  BY StepSound DEF CInv, BInv, KeysAs
<1>2. /\ ClaimsCurrent /\ RecordsCurrent /\ ReviewsNamed /\ TouchesOwn
      /\ FailuresFinal /\ ReleasesProbed /\ ResumesQuiet
  BY DEF Careful
<1>3. CASE UNCHANGED vars
  BY <1>1, <1>3, ReconStepKept, KeptStep DEF CInv, vars
<1>q. ASSUME Quiet /\ QuietRows, UNCHANGED run PROVE CInv'
  BY <1>1, <1>q, KeptStep
<1>4. ASSUME NEW c \in Callers, CallStep(c) \/ LoseCall(c) \/ LapseLease(c)
      PROVE  CInv'
  <2>1. CASE \/ Post(c) \/ Receive(c) \/ Apply(c) \/ Follow(c) \/ LapseLease(c)
             \/ Settle(c) \/ LoseCall(c)
    <3>1. Settle(c) \/ LoseCall(c) => (model' # model => Own(c))
      BY <1>2, OwnTouched DEF CInv, BInv, SInv
    <3>2. Quiet /\ QuietRows
      BY <1>1, <2>1, <3>1, PostQuiet, ReceiveQuiet, ApplyQuiet, FollowQuiet, LapseLeaseQuiet,
         SettleQuiet, LoseCallQuiet
      DEF CInv
    <3>3. UNCHANGED run
      BY <2>1 DEF Post, Receive, Apply, Follow, LapseLease, Settle, LoseCall
    <3> QED
      BY <3>2, <3>3, <1>q
  <2>2. CASE \/ \E j \in JobKeys : StartStage(c, j[1], j[2])
             \/ Claim(c) \/ ReopenAfterTerminalFailure(c) \/ Record(c)
    BY <1>1, <1>2, <2>2, StartStageCareful, ClaimCareful, ReopenCareful, RecordCareful
  <2> QED
    BY <1>4, <2>1, <2>2 DEF CallStep
<1>5. ASSUME NEW k \in Keys, BridgeStep(k)
      PROVE  CInv'
  <2>1. Quiet /\ QuietRows
    BY <1>1, <1>5, BridgeStepQuiet DEF CInv
  <2> QED
    BY <1>5, <2>1, <1>q DEF BridgeStep
<1>6. ASSUME NEW r \in Reconcilers, ReconStep(r) \/ LoseRecon(r)
      PROVE  CInv'
  <2>1. CASE \/ Retrieve(r) \/ AdoptAnswer(r) \/ ImportAnswer(r) \/ Undecided(r)
             \/ Dispatch(r) \/ LoseRecon(r)
    <3>1. Retrieve(r) => (recon'[r].pc = "release" => bridge[recon[r].key] = "closed")
      BY <1>2 DEF FailuresFinal, Retrieve
    <3>2. Quiet /\ QuietRows
      BY <1>1, <2>1, <3>1, RetrieveQuiet, AdoptAnswerQuiet, ImportAnswerQuiet,
         UndecidedQuiet, DispatchQuiet
      DEF CInv
    <3>3. UNCHANGED run
      BY <2>1 DEF Retrieve, AdoptAnswer, ImportAnswer, Undecided, Dispatch, LoseRecon
    <3> QED
      BY <3>2, <3>3, <1>q
  <2>2. CASE \/ ResumeRun(r) \/ Release(r) \/ DeclareLost(r) \/ Reemit(r) \/ ReopenRun(r)
    BY <1>1, <1>2, <2>2, ResumeRunCareful, ReleaseCareful, DeclareLostCareful, ReemitCareful,
       ReopenRunCareful
  <2> QED
    BY <1>6, <2>1, <2>2 DEF ReconStep
<1>7. ASSUME NEW r \in Reconcilers, StartProbe(r, "job") \/ AnalystStep(r)
      PROVE  CInv'
  <2>1. Quiet /\ QuietRows
    BY <1>1, <1>7, StartProbeQuiet, StartAdoptionQuiet DEF AnalystStep, CInv
  <2>2. UNCHANGED run
    BY <1>7 DEF AnalystStep, StartProbe, StartAdoption
  <2> QED
    BY <2>1, <2>2, <1>q
<1>8. CASE RetryRun \/ CancelRun \/ ResumeCancelled
  BY <1>1, <1>2, <1>8, RetryRunCareful, CancelRunCareful, ResumeCancelledCareful
<1>9. CASE TurnBatch
  BY <1>1, <1>9, ReconStepKept, KeptStep DEF CInv, TurnBatch
<1> QED
  BY <1>3, <1>4, <1>5, <1>6, <1>7, <1>8, <1>9 DEF Next

LEMMA CarefulOne == CInv => OneUnresolvedSubmission
<1> SUFFICES ASSUME CInv, NEW k \in Keys, NEW l \in Keys, Unresolved(k), Unresolved(l)
             PROVE  k = l
  BY DEF OneUnresolvedSubmission
<1>1. ~Dead(k) /\ ~Dead(l)
  BY DEF Unresolved, Dead
<1>2. /\ Live(k[1]) /\ k = LastKey(k[1]) /\ k[1] \in Models
      /\ Live(l[1]) /\ l = LastKey(l[1]) /\ l[1] \in Models
  BY <1>1, KeyParts DEF CInv, BInv, KeysAs, DeadAs
<1>3. k[1] = l[1]
  BY <1>2 DEF CInv, BInv, KeysAs, OneLive
<1> QED
  BY <1>2, <1>3

(* Of the prompt of a stage at most one submission may still be answered,  *)
(* whatever crashes, lapsed leases, cancellations, retries, probes and     *)
(* declared losses there are, in every behaviour without a step that       *)
(* Careful names: _release and release_declared_lost give a submission up  *)
(* only when nothing can answer it, begin_submission_attempt follows one   *)
(* that was, and what opens a generation continues the one ModelRun that   *)
(* may still be answered.                                                  *)
THEOREM OneSubmissionIfChecked ==
  Spec /\ [][Careful]_vars => []OneUnresolvedSubmission
<1>1. CInv /\ [Next]_vars /\ [Careful]_vars => CInv'
  <2> SUFFICES ASSUME CInv, [Next]_vars, [Careful]_vars PROVE CInv'
    OBVIOUS
  <2>1. CASE Careful
    BY <2>1, CarefulStep
  <2>2. CASE UNCHANGED vars
    BY <2>2, StepSound, ReconStepKept, KeptStep DEF CInv, BInv, vars
  <2> QED
    BY <2>1, <2>2
<1> QED
  BY InitCareful, <1>1, CarefulOne, PTL DEF Spec

-----------------------------------------------------------------------------
(* Which of those steps the first generation of a run never takes.  Until  *)
(* the run is first reopened, and while no job is delivered again as it    *)
(* still executes, a single execution submits, and the run waits for one   *)
(* submission at most once; all that can go wrong then is a failure the    *)
(* Bridge reports without its proof.                                       *)
Fresh == run.gen = 0 /\ used.lapse = 0
NoAnswer == model[0].out = NoText

(* Everything belongs to the ModelRun of that generation.                  *)
FirstOnly ==
    /\ \A m \in Models : m # 0 => model[m].status = "absent"
    /\ \A k \in Keys : k[1] # 0 => bridge[k] = "none"
    /\ \A c \in Callers : call[c].gen = 0 /\ call[c].key[1] = 0
    /\ \A r \in Reconcilers : recon[r].key[1] = 0
    /\ run.id.key[1] = 0
    /\ \A j \in JobKeys : j[2] # 0 => jobs[j] = "none"

(* One execution at a time, which sends the last submission.               *)
SoloAs(c) == call[c].pc # "idle" =>
    /\ call[c].leased /\ call[c].job = "stage" /\ jobs[<<"stage", 0>>] = "running"
    /\ Sending(c) => Own(c) /\ Sent(model[0])
    /\ \A d \in Callers : call[d].pc # "idle" => d = c
SoloExecution == \A c \in Callers : SoloAs(c)

(* The run has one submission to wait for, once; its probes, however old,  *)
(* ask about that one.                                                     *)
WaitsOnce ==
    /\ IF run.id.on THEN run.id.key = LastKey(0) /\ model[0].status = "needs_review"
       ELSE run.id.key = NoKey
    /\ run.status = "running" => ~run.id.on /\ \A r \in Reconcilers : recon[r].key = NoKey
    /\ run.id.on => \A r \in Reconcilers : recon[r].key \in {NoKey, run.id.key}
    /\ \A r \in Reconcilers : recon[r].pc \notin {"dispatch", "reopen"}

FirstInv ==
    Fresh => FirstOnly /\ (NoAnswer => KeysAs /\ SoloExecution /\ WaitsOnce)

(* The invariant while it says something, and what a step then has to show. *)
Waiting == FirstOnly /\ NoAnswer /\ KeysAs /\ SoloExecution /\ WaitsOnce
Unanswered == SInv' /\ AnswersStay /\ FirstOnly' /\ NoAnswer'

LEMMA ZeroModel == 0 \in Models /\ NoKey[1] = 0 /\ NoKey \notin Keys /\ NoIdentity.key = NoKey
BY SubmissionAssumption DEF Models, Generations, NoKey, Keys, NoIdentity

LEMMA FirstBInv ==
  ASSUME SInv, Waiting
  PROVE  BInv /\ (run.id.on => run.id.key = LastKey(0) /\ run.id.key[1] = 0)
<1>1. IdentityAs
  BY ZeroModel DEF Waiting, WaitsOnce, IdentityAs, LastKey
<1> QED
  BY <1>1 DEF BInv, Waiting, WaitsOnce, LastKey

(* A step without submission or answer that leaves the run alone.          *)
LEMMA WaitKept ==
  ASSUME SInv, Waiting, Unanswered, Quiet, QuietRows, UNCHANGED run, SoloExecution',
         \A r \in Reconcilers : /\ recon'[r].key \in {NoKey, recon[r].key, run.id.key}
                                /\ recon'[r].pc \notin {"dispatch", "reopen"}
  PROVE  Waiting'
<1>1. KeysAs'
  BY KeysKept DEF Waiting, Quiet
<1>2. model'[0].attempt = model[0].attempt
  BY ZeroModel DEF Quiet, Kept, RowKept
<1>3. model[0].status = "needs_review" => model'[0].status = "needs_review"
  <2>1. model'[0].status # "succeeded"
    BY <1>1, ZeroModel DEF Unanswered, NoAnswer, KeysAs, RowsAs, RowAs
  <2> QED
    BY <2>1, ZeroModel DEF QuietRows
<1>4. WaitsOnce'
  BY <1>2, <1>3 DEF Waiting, WaitsOnce, LastKey
<1> QED
  BY <1>1, <1>4 DEF Waiting, Unanswered

LEMMA SoloSame ==
  ASSUME SoloExecution, UNCHANGED <<model, call>>,
         jobs[<<"stage", 0>>] = "running" => jobs'[<<"stage", 0>>] = "running"
  PROVE  SoloExecution'
BY DEF SoloExecution, SoloAs, Sending, Own

(* A step of the execution.                                                *)
LEMMA SoloStep ==
  ASSUME SoloExecution, NEW c \in Callers, call[c].pc # "idle",
         \A d \in Callers : d # c => call'[d] = call[d],
         call'[c].pc # "idle" =>
           /\ call'[c].leased = call[c].leased /\ call'[c].job = call[c].job
           /\ UNCHANGED jobs
           /\ Sending(c)' => Own(c)' /\ Sent(model'[0])
  PROVE  SoloExecution'
<1>1. SoloAs(c) /\ \A d \in Callers : d # c => call[d].pc = "idle"
  BY DEF SoloExecution, SoloAs
<1>2. \A d \in Callers : d # c => call'[d].pc = "idle"
  BY <1>1
<1>3. SoloAs(c)'
  BY <1>1, <1>2 DEF SoloAs
<1> QED
  BY <1>2, <1>3 DEF SoloExecution, SoloAs

-----------------------------------------------------------------------------
(* The first generation stays the only one.                                *)
LEMMA FirstOnlyKept ==
  ASSUME FirstOnly,
         \A m \in Models : m # 0 => model'[m] = model[m],
         \A k \in Keys : k[1] # 0 => bridge'[k] = bridge[k],
         \A c \in Callers : call'[c].gen = 0 /\ call'[c].key[1] = 0,
         \A r \in Reconcilers : recon'[r].key[1] = 0,
         run'.id.key[1] = 0,
         \A j \in JobKeys : j[2] # 0 => jobs'[j] = jobs[j]
  PROVE  FirstOnly'
BY DEF FirstOnly

LEMMA FirstCall ==
  ASSUME SInv, Fresh, FirstOnly, NEW c \in Callers, CallStep(c) \/ LoseCall(c)
  PROVE  FirstOnly'
<1>0. /\ TypeOK /\ call[c] \in Execution /\ call[c].gen = 0 /\ call[c].key[1] = 0
      /\ UNCHANGED recon /\ model \in [Models -> ModelRun] /\ call \in [Callers -> Execution]
      /\ jobs \in [JobKeys -> {"none", "queued", "running", "done"}]
  BY DEF SInv, TypeOK, FirstOnly, CallStep, StartStage, Claim, Post, Receive,
         ReopenAfterTerminalFailure, Settle, Apply, Record, Follow, LoseCall
<1>1. \A m \in Models : m # 0 => model'[m] = model[m]
  BY <1>0 DEF CallStep, StartStage, Claim, Post, Receive, ReopenAfterTerminalFailure, Settle,
         Apply, Record, Follow, LoseCall
<1>2. \A k \in Keys : k[1] # 0 => bridge'[k] = bridge[k]
  BY <1>0 DEF TypeOK, CallStep, StartStage, Claim, Post, Receive, ReopenAfterTerminalFailure,
         Settle, Apply, Record, Follow, LoseCall
<1>3. /\ \A d \in Callers : call'[d].gen = 0 /\ call'[d].key[1] = 0
      /\ \A j \in JobKeys : j[2] # 0 => jobs'[j] = jobs[j]
  <2>1. \A d \in Callers : d # c => call'[d] = call[d]
    BY <1>0 DEF CallStep, StartStage, Claim, Post, Receive, ReopenAfterTerminalFailure,
         Settle, Apply, Record, Follow, LoseCall, SetCall, EndCall
  <2>2. \A j \in JobKeys : j[2] # 0 => jobs'[j] = jobs[j]
    <3>1. CASE \E j \in JobKeys : StartStage(c, j[1], j[2])
      <4>1. PICK j \in JobKeys : StartStage(c, j[1], j[2])
        BY <3>1
      <4>2. j = <<j[1], j[2]>> /\ jobs[j] = "queued"
        BY <4>1 DEF JobKeys, StartStage
      <4>3. j[2] = 0
        BY <4>2 DEF FirstOnly
      <4>4. \E st : jobs' = [jobs EXCEPT ![j] = st]
        BY <4>1, <4>2 DEF StartStage
      <4> QED
        BY <1>0, <4>3, <4>4
    <3>2. CASE \E st : SetJob(c, st)
      <4>1. \E st : jobs' = [jobs EXCEPT ![<<call[c].job, 0>>] = st]
        BY <1>0, <3>2 DEF SetJob
      <4> QED
        BY <1>0, <4>1 DEF JobKeys
    <3>3. CASE UNCHANGED jobs
      BY <3>3
    <3> QED
      BY <3>1, <3>2, <3>3 DEF CallStep, Claim, Post, Receive, ReopenAfterTerminalFailure,
         Settle, Apply, Record, Follow, LoseCall, EndCall
  <2>3. call'[c].gen = 0 /\ call'[c].key[1] = 0
    <3>1. CASE \E j \in JobKeys : StartStage(c, j[1], j[2])
      <4>1. PICK j \in JobKeys : StartStage(c, j[1], j[2])
        BY <3>1
      <4>2. j = <<j[1], j[2]>> /\ jobs[j] = "queued"
        BY <4>1 DEF JobKeys, StartStage
      <4>3. j[2] = 0
        BY <4>2 DEF FirstOnly
      <4>4. Earlier(0) = {}
        BY DEF Earlier
      <4>5. ModelFor(0) = 0
        BY <4>4 DEF ModelFor
      <4>6. PICK q : q = Offset(0, 0)
        OBVIOUS
      <4>7. \/ call' = [call EXCEPT ![c] = [IdleCall EXCEPT !.pc = "claim", !.job = j[1],
                                                  !.gen = 0, !.key = <<0, q>>]]
            \/ UNCHANGED call
        BY <4>1, <4>3, <4>5, <4>6 DEF StartStage
      <4>8. ASSUME NEW x, x = [IdleCall EXCEPT !.pc = "claim", !.job = j[1], !.gen = 0,
                                               !.key = <<0, q>>]
            PROVE  x.gen = 0 /\ x.key[1] = 0
        BY <4>8 DEF IdleCall
      <4> QED
        BY <1>0, <4>7, <4>8
    <3>2. CASE Claim(c) \/ ReopenAfterTerminalFailure(c)
      BY <1>0, <3>2 DEF Claim, ReopenAfterTerminalFailure, SetCall, Execution
    <3>3. CASE \E pc \in CallPcs : \E res : SetCall(c, pc, res)
      BY <1>0, <3>3 DEF SetCall, Execution
    <3>4. CASE call' = [call EXCEPT ![c] = IdleCall]
      BY <1>0, <3>4, ZeroModel DEF IdleCall
    <3>5. Post(c) \/ Receive(c) \/ Settle(c) \/ Record(c) \/ Apply(c)
            => (\E pc \in CallPcs : \E res : SetCall(c, pc, res)) \/ call' = [call EXCEPT ![c] = IdleCall]
      BY DEF Post, Receive, Settle, Record, Apply, EndCall, CallPcs
    <3> QED
      BY <3>1, <3>2, <3>3, <3>4, <3>5 DEF CallStep, Follow, LoseCall, EndCall
  <2> QED
    BY <1>0, <2>1, <2>2, <2>3 DEF FirstOnly
<1>4. run'.id.key[1] = 0
  <2>1. CASE UNCHANGED run
    BY <2>1 DEF FirstOnly
  <2>2. CASE Record(c)
    <3>1. run \in ProductionRun /\ run.id.key[1] = 0 /\ NoIdentity.key[1] = 0
      BY <1>0, ZeroModel DEF TypeOK, FirstOnly
    <3>2. PICK a : a = model[0].attempt
      OBVIOUS
    <3>3. [NoIdentity EXCEPT !.on = TRUE, !.key = <<0, a>>].key[1] = 0
      BY DEF NoIdentity
    <3> QED
      BY <1>0, <2>2, <3>1, <3>2, <3>3 DEF Record, ProductionRun
  <2> QED
    BY <2>1, <2>2 DEF CallStep, StartStage, Claim, Post, Receive,
         ReopenAfterTerminalFailure, Settle, Apply, Follow, LoseCall
<1> QED
  BY <1>0, <1>1, <1>2, <1>3, <1>4, FirstOnlyKept DEF FirstOnly

LEMMA FirstRecon ==
  ASSUME SInv, Fresh, Fresh', FirstOnly, NEW r \in Reconcilers,
         \/ ReconStep(r) \/ AnalystStep(r) \/ StartProbe(r, "job") \/ LoseRecon(r)
  PROVE  FirstOnly'
<1> USE DEF ReconStep, AnalystStep
<1>0. /\ TypeOK /\ recon[r] \in Reconciliation /\ recon[r].key[1] = 0 /\ run.id.key[1] = 0
      /\ UNCHANGED <<call, bridge>> /\ model \in [Models -> ModelRun]
      /\ recon \in [Reconcilers -> Reconciliation] /\ run \in ProductionRun
  BY DEF SInv, TypeOK, FirstOnly, Retrieve, AdoptAnswer, ResumeRun, Release, DeclareLost,
     Undecided, Reemit, Dispatch, ImportAnswer, ReopenRun, StartProbe, StartAdoption, LoseRecon
<1>1. \A m \in Models : m # 0 => model'[m] = model[m]
  BY <1>0 DEF Retrieve, AdoptAnswer, ResumeRun, Release, DeclareLost,
     Undecided, Reemit, Dispatch, ImportAnswer, ReopenRun, StartProbe, StartAdoption, LoseRecon
<1>2. \A x \in Reconcilers : recon'[x].key[1] = 0
  <2>1. \A x \in Reconcilers : x # r => recon'[x] = recon[x]
    BY <1>0 DEF Retrieve, AdoptAnswer, ResumeRun, Release, DeclareLost, SetRecon, EndRecon,
     Undecided, Reemit, Dispatch, ImportAnswer, ReopenRun, StartProbe, StartAdoption, LoseRecon
  <2>2. CASE \E text : StartAdoption(r, text)
    <3>1. \E text : recon' = [recon EXCEPT ![r] = [IdleRecon EXCEPT !.kind = "operator",
                        !.key = run.id.key, !.text = text, !.pc = "import"]]
      BY <2>2 DEF StartAdoption
    <3>2. recon'[r].key = run.id.key
      BY <1>0, <3>1 DEF IdleRecon
    <3> QED
      BY <1>0, <2>1, <3>2 DEF FirstOnly
  <2>3. CASE \E kind \in {"api", "lost", "job"} : StartProbe(r, kind)
    <3>1. recon'[r].key = run.id.key
      <4>1. PICK kind \in {"api", "lost", "job"} : StartProbe(r, kind)
        BY <2>3
      <4>2. CASE \E a \in Probes, pc \in ReconPcs : recon' = [recon EXCEPT ![r] =
                [IdleRecon EXCEPT !.kind = kind, !.probe = a, !.key = run.id.key, !.pc = pc]]
        BY <1>0, <4>2 DEF IdleRecon
      <4>3. CASE recon' = [recon EXCEPT ![r] =
                [IdleRecon EXCEPT !.kind = kind, !.key = run.id.key, !.pc = "retrieve"]]
        BY <1>0, <4>3 DEF IdleRecon
      <4> QED
        BY <4>1, <4>2, <4>3 DEF StartProbe, ReconPcs
    <3> QED
      BY <1>0, <2>1, <3>1 DEF FirstOnly
  <2>4. CASE ReconStep(r) \/ LoseRecon(r)
    <3>1. \/ recon' = [recon EXCEPT ![r] = IdleRecon]
          \/ \E pc, text : \/ recon' = [recon EXCEPT ![r].pc = pc]
                         \/ recon' = [recon EXCEPT ![r].pc = pc, ![r].text = text]
                         \/ recon' = [recon EXCEPT ![r].pc = pc, ![r].job = text]
      <4>1. CASE Retrieve(r)
        BY <4>1 DEF Retrieve, SetRecon, EndRecon
      <4>2. CASE AdoptAnswer(r)
        BY <4>2 DEF AdoptAnswer, SetRecon, EndRecon
      <4>3. CASE ResumeRun(r)
        BY <4>3 DEF ResumeRun, SetRecon, EndRecon
      <4>4. CASE Release(r)
        BY <4>4 DEF Release, SetRecon, EndRecon
      <4>5. CASE DeclareLost(r)
        BY <4>5 DEF DeclareLost, SetRecon, EndRecon
      <4>6. CASE Undecided(r)
        BY <4>6 DEF Undecided, SetRecon, EndRecon
      <4>7. CASE Reemit(r)
        BY <4>7 DEF Reemit, SetRecon, EndRecon
      <4>8. CASE Dispatch(r)
        BY <4>8 DEF Dispatch, SetRecon, EndRecon
      <4>9. CASE ImportAnswer(r)
        BY <4>9 DEF ImportAnswer, SetRecon, EndRecon
      <4>10. CASE ReopenRun(r)
        BY <4>10 DEF ReopenRun, SetRecon, EndRecon
      <4>11. CASE LoseRecon(r)
        BY <4>11 DEF LoseRecon, SetRecon, EndRecon
      <4> QED
        BY <2>4, <4>1, <4>2, <4>3, <4>4, <4>5, <4>6, <4>7, <4>8, <4>9, <4>10, <4>11
    <3>2. PICK pc, text : \/ recon' = [recon EXCEPT ![r] = IdleRecon]
                         \/ recon' = [recon EXCEPT ![r].pc = pc]
                         \/ recon' = [recon EXCEPT ![r].pc = pc, ![r].text = text]
                         \/ recon' = [recon EXCEPT ![r].pc = pc, ![r].job = text]
      BY <3>1
    <3>3. recon'[r].key \in {NoKey, recon[r].key}
      BY <1>0, <3>2 DEF Reconciliation, IdleRecon
    <3> QED
      BY <1>0, <2>1, <3>3, ZeroModel DEF FirstOnly
  <2> QED
    BY <2>2, <2>3, <2>4
<1>3. run'.id.key[1] = 0
  <2>1. CASE UNCHANGED run
    BY <1>0, <2>1
  <2>2. CASE \E text, prov : run' = ResumedRun(text, prov)
    <3>1. PICK text, prov : run' = ResumedRun(text, prov)
      BY <2>2
    <3>2. run.id \in Identity
      BY <1>0 DEF ProductionRun
    <3> QED
      BY <1>0, <3>1, <3>2 DEF ResumedRun, ProductionRun, Identity
  <2>3. CASE \E code : run' = [run EXCEPT !.code = code, !.id = NoIdentity]
    BY <1>0, <2>3, ZeroModel DEF ProductionRun
  <2>4. CASE Reemit(r)
    <3>1. run' = run \/ \E n : run' = [NextGeneration EXCEPT !.reemitted = n]
      BY <2>4 DEF Reemit
    <3> QED
      BY <1>0, <2>1, <3>1, NextGenerationRun, ZeroModel
  <2> QED
    BY <2>1, <2>2, <2>3, <2>4 DEF Retrieve, AdoptAnswer, ResumeRun, Release, DeclareLost,
     Undecided, Dispatch, ImportAnswer, ReopenRun, StartProbe, StartAdoption, LoseRecon
<1>4. \A j \in JobKeys : j[2] # 0 => jobs'[j] = jobs[j]
  <2>1. CASE UNCHANGED jobs
    BY <2>1
  <2>2. CASE \E job : Submit(job, run.gen)
    BY <2>2 DEF Submit, Fresh, SInv, TypeOK, JobKeys
  <2> QED
    BY <2>1, <2>2 DEF Retrieve, AdoptAnswer, ResumeRun, Release, DeclareLost,
     Undecided, Reemit, Dispatch, ImportAnswer, ReopenRun, StartProbe, StartAdoption, LoseRecon
<1> QED
  BY <1>0, <1>1, <1>2, <1>3, <1>4, FirstOnlyKept DEF FirstOnly

LEMMA FirstStays ==
  ASSUME SInv, Fresh, Fresh', FirstOnly, [Next]_vars
  PROVE  FirstOnly'
<1>0. TypeOK /\ run \in ProductionRun /\ used.lapse \in Nat
  BY SubmissionAssumption DEF SInv, TypeOK
<1>1. ASSUME NEW c \in Callers, LapseLease(c)
      PROVE  FALSE
  <2>1. used'.lapse = used.lapse + 1
    BY <1>0, <1>1 DEF TypeOK, LapseLease
  <2> QED
    BY <1>0, <2>1 DEF Fresh
<1>2. CASE RetryRun \/ ResumeCancelled
  <2>1. run'.gen = 1
    BY <1>0, <1>2, NextGenerationRun DEF RetryRun, ResumeCancelled, Fresh
  <2> QED
    BY <2>1 DEF Fresh
<1>3. ASSUME NEW k \in Keys, BridgeStep(k)
      PROVE  FirstOnly'
  <2>1. k[1] # 0 => bridge[k] = "none" /\ run.id.key # k
    BY DEF FirstOnly
  <2>2. k[1] = 0
    BY <1>3, <2>1 DEF BridgeStep
  <2>3. UNCHANGED <<model, run, jobs, call, recon>>
    BY <1>3 DEF BridgeStep
  <2>4. \A l \in Keys : l[1] # 0 => bridge'[l] = bridge[l]
    BY <1>0, <1>3, <2>2 DEF BridgeStep, TypeOK
  <2> QED
    BY <2>3, <2>4, FirstOnlyKept DEF FirstOnly
<1>4. CASE CancelRun
  <2>1. run'.id = run.id /\ UNCHANGED <<model, bridge, call, recon>>
    BY <1>0, <1>4 DEF CancelRun, ProductionRun
  <2>2. \A j \in JobKeys : j[2] # 0 => jobs'[j] = jobs[j]
    BY <1>4 DEF CancelRun, FirstOnly
  <2> QED
    BY <2>1, <2>2, FirstOnlyKept DEF FirstOnly
<1>5. CASE TurnBatch \/ UNCHANGED vars
  BY <1>5 DEF TurnBatch, vars, FirstOnly
<1>6. ASSUME NEW c \in Callers, CallStep(c) \/ LoseCall(c)
      PROVE  FirstOnly'
  BY <1>6, FirstCall
<1>7. ASSUME NEW r \in Reconcilers,
             StartProbe(r, "job") \/ ReconStep(r) \/ AnalystStep(r) \/ LoseRecon(r)
      PROVE  FirstOnly'
  BY <1>7, FirstRecon
<1> QED
  BY <1>1, <1>2, <1>3, <1>4, <1>5, <1>6, <1>7 DEF Next

-----------------------------------------------------------------------------
(* The executions of that generation.                                      *)
LEMMA FirstStart ==
  ASSUME SInv, Fresh, Waiting, Unanswered, NEW c \in Callers, NEW j \in JobKeys,
         StartStage(c, j[1], j[2])
  PROVE  Waiting'
<1>0. TypeOK /\ j = <<j[1], j[2]>> /\ jobs \in [JobKeys -> {"none", "queued", "running", "done"}]
  BY DEF SInv, TypeOK, JobKeys
<1>1. j[2] = 0 /\ jobs[j] = "queued" /\ <<"stage", 0>> \in JobKeys /\ call[c].pc = "idle"
  BY <1>0, ZeroModel DEF StartStage, Waiting, FirstOnly, JobKeys, Models
<1>2. UNCHANGED <<model, bridge, run, recon, lost>>
  BY DEF StartStage
<1>3. j[1] = "resume" => ~StageFence(j[1], j[2])
  BY DEF StageFence, Waiting, WaitsOnce
<1>4. \/ /\ j[1] = "stage" /\ jobs' = [jobs EXCEPT ![j] = "running"]
         /\ call'[c].pc = "claim" /\ call'[c].job = "stage" /\ call'[c].leased = TRUE
         /\ \A d \in Callers : d # c => call'[d] = call[d]
      \/ jobs' = [jobs EXCEPT ![j] = "done"] /\ UNCHANGED call
  <2>1. CASE StageFence(j[1], j[2])
    <3>1. j[1] = "stage"
      BY <1>0, <1>3, <2>1 DEF JobKeys
    <3>2. PICK k : k = <<ModelFor(j[2]), Offset(j[2], ModelFor(j[2]))>>
      OBVIOUS
    <3>3. call' = [call EXCEPT ![c] = [IdleCall EXCEPT !.pc = "claim", !.job = j[1],
                                            !.gen = j[2], !.key = k]]
      BY <2>1, <3>2 DEF StartStage
    <3> QED
      BY <1>0, <2>1, <3>1, <3>3 DEF StartStage, IdleCall, TypeOK
  <2> QED
    BY <1>0, <2>1 DEF StartStage
<1>5. j[1] = "stage" => \A d \in Callers : call[d].pc = "idle"
  BY <1>0, <1>1 DEF Waiting, SoloExecution, SoloAs
<1>6. SoloExecution'
  <2>1. CASE j[1] = "stage"
    BY <1>0, <1>1, <1>4, <1>5, <2>1 DEF SoloExecution, SoloAs, Sending
  <2>2. CASE j[1] # "stage"
    <3>1. jobs'[<<"stage", 0>>] = jobs[<<"stage", 0>>]
      BY <1>0, <1>1, <1>4, <2>2
    <3> QED
      BY <1>2, <1>4, <2>2, <3>1, SoloSame DEF Waiting
  <2> QED
    BY <2>1, <2>2
<1>7. KeysAs'
  <2>1. \A d \in Callers : /\ Sending(d)' => Sending(d) /\ call'[d].key = call[d].key
                           /\ call'[d].pc = "invoke" => call[d].pc = "invoke"
                           /\ SameCall(d) \/ ResultAs(d)'
    BY <1>4 DEF Sending, SameCall, ResultAs
  <2>2. Kept /\ RowsAs'
    BY <1>2, <2>1, SameRowsKept, SameKeysKept DEF Kept, Unanswered, Waiting, KeysAs
  <2> QED
    BY <1>2, <2>1, <2>2, KeysKept DEF Waiting
<1>8. WaitsOnce'
  BY <1>2 DEF Waiting, WaitsOnce, LastKey
<1> QED
  BY <1>6, <1>7, <1>8 DEF Waiting, Unanswered

(* A submission.                                                           *)
LEMMA FirstSubmission ==
  ASSUME SInv, Waiting, Unanswered, UNCHANGED <<bridge, run, lost, recon, jobs>>,
         NEW c \in Callers, call[c].pc # "idle", NEW a \in 1..MaxAttempt,
         model' = [model EXCEPT ![0] = Submitted(model[0], a)], model[0].attempt < a,
         model[0].status \notin {"needs_review", "succeeded"},
         Live(0) => Dead(LastKey(0)),
         call'[c].pc = "invoke", call'[c].key = <<0, a>>,
         call'[c].leased = call[c].leased, call'[c].job = call[c].job,
         \A d \in Callers : d # c => call'[d] = call[d]
  PROVE  Waiting'
<1>0. BInv /\ TypeOK /\ model[0] \in ModelRun
  BY FirstBInv, ZeroModel DEF SInv, TypeOK
<1>2. \A n \in Models : Live(n) => n = 0
  BY DEF Waiting, FirstOnly, Live, Sent
<1>3. KeysAs'
  BY <1>0, <1>2, ZeroModel, Submission DEF Unanswered, KeysAs
<1>4. model'[0].attempt = a /\ Sent(model'[0])
  BY <1>0, ZeroModel DEF TypeOK, Submitted, ModelRun, Sent
<1>5. SoloExecution'
  <2>1. call'[c].key[1] = 0 /\ call'[c].key[2] = a
    OBVIOUS
  <2>2. Own(c)'
    BY <1>4, <2>1 DEF Own
  <2> QED
    BY <1>4, <2>2, SoloStep DEF Waiting
<1>6. WaitsOnce'
  BY DEF Waiting, WaitsOnce
<1> QED
  BY <1>3, <1>5, <1>6 DEF Waiting, Unanswered

LEMMA FirstClaim ==
  ASSUME SInv, Waiting, Unanswered, NEW c \in Callers, Claim(c)
  PROVE  Waiting'
<1>0. BInv /\ TypeOK /\ call[c].key[1] = 0 /\ call[c].pc = "claim"
  BY FirstBInv DEF SInv, Waiting, FirstOnly, Claim
<1>1. UNCHANGED <<bridge, run, lost, recon, jobs>>
  BY DEF Claim
<1>2. \A d \in Callers : d # c => call'[d] = call[d]
  BY <1>0 DEF TypeOK, Claim, SetCall
<1>3. CASE Quiet /\ QuietRows /\ call'[c].pc # "invoke"
  <2>1. SetCall(c, "apply", "reconcile") \/ \E res : SetCall(c, "apply", res)
    BY <1>0, <1>3 DEF Claim, TypeOK, Execution
  <2>2. /\ call'[c].pc = "apply" /\ call'[c].leased = call[c].leased
        /\ call'[c].job = call[c].job
    BY <1>0, <2>1 DEF SetCall, TypeOK, Execution
  <2>3. SoloExecution'
    BY <1>0, <1>1, <1>2, <2>2, SoloStep DEF Waiting, Sending
  <2> QED
    BY <1>1, <1>3, <2>3, WaitKept DEF Waiting, WaitsOnce
<1>4. CASE /\ Submittable(model[0])
           /\ \E a \in 1..MaxAttempt :
                /\ model[0].attempt < a /\ model' = [model EXCEPT ![0] = Submitted(@, a)]
                /\ call' = [call EXCEPT ![c].pc = "invoke", ![c].key = <<0, a>>,
                                        ![c].retries = Retries]
  <2>1. PICK a \in 1..MaxAttempt :
                /\ model[0].attempt < a /\ model' = [model EXCEPT ![0] = Submitted(@, a)]
                /\ call' = [call EXCEPT ![c].pc = "invoke", ![c].key = <<0, a>>,
                                        ![c].retries = Retries]
    BY <1>4
  <2>2. model' = [model EXCEPT ![0] = Submitted(model[0], a)]
    BY <1>0, <2>1, ZeroModel DEF TypeOK
  <2>3. model[0].status \notin {"needs_review", "succeeded"} /\ ~Live(0)
    BY <1>4 DEF Submittable, Live, Sent
  <2>4. /\ call'[c].pc = "invoke" /\ call'[c].key = <<0, a>>
        /\ call'[c].leased = call[c].leased /\ call'[c].job = call[c].job
    BY <1>0, <2>1 DEF TypeOK, Execution
  <2> QED
    BY <1>0, <1>1, <1>2, <2>1, <2>2, <2>3, <2>4, FirstSubmission
<1> QED
  BY <1>0, <1>3, <1>4, ZeroModel, ClaimMoves DEF Unanswered

LEMMA FirstReopen ==
  ASSUME SInv, Waiting, Unanswered, NEW c \in Callers, ReopenAfterTerminalFailure(c)
  PROVE  Waiting'
<1>0. /\ TypeOK /\ call[c].key[1] = 0 /\ call[c].pc = "settle" /\ call[c].res = "terminal"
      /\ UNCHANGED <<bridge, run, lost, recon, jobs>> /\ model[0] \in ModelRun
  BY ZeroModel DEF SInv, TypeOK, Waiting, FirstOnly, ReopenAfterTerminalFailure
<1>1. Sending(c) /\ Own(c) /\ call[c].key \in Keys /\ bridge[call[c].key] = "closed"
  BY <1>0 DEF Waiting, SoloExecution, SoloAs, Sending, KeysAs, SendersAs, SenderAs,
     ResultsAs, ResultAs
<1>2. Dead(LastKey(0))
  <2>1. LastKey(0) = call[c].key
    BY <1>0, <1>1, KeyParts DEF Own, LastKey
  <2> QED
    BY <1>1, <2>1 DEF Dead
<1>3. PICK a \in 1..MaxAttempt : a = model[0].attempt + 1 /\ model[0].attempt < a
  <2>1. model[0].attempt < MaxAttempt /\ model[0].attempt \in 0..MaxAttempt
    BY <1>0 DEF ReopenAfterTerminalFailure, ModelRun
  <2> QED
    BY <2>1, SubmissionAssumption
<1>4. /\ model[0].status = "running"
      /\ model' = [model EXCEPT ![0] = Submitted(model[0], a)]
  BY <1>0, <1>3, ZeroModel DEF ReopenAfterTerminalFailure, TypeOK
<1>5. /\ call'[c].pc = "invoke" /\ call'[c].key = <<0, a>>
      /\ call'[c].leased = call[c].leased /\ call'[c].job = call[c].job
      /\ \A d \in Callers : d # c => call'[d] = call[d]
  BY <1>0, <1>3 DEF ReopenAfterTerminalFailure, TypeOK, Execution
<1> QED
  BY <1>0, <1>2, <1>3, <1>4, <1>5, FirstSubmission

(* What it makes of its submission, and its end.                           *)
LEMMA FirstMove ==
  ASSUME SInv, Waiting, Unanswered, NEW c \in Callers,
         \/ Post(c) \/ Receive(c) \/ Settle(c) \/ Apply(c) \/ Follow(c) \/ LoseCall(c)
  PROVE  Waiting'
<1>0. BInv /\ TypeOK /\ call[c].key[1] = 0 /\ call[c].pc # "idle" /\ UNCHANGED <<run, recon>>
  BY FirstBInv
  DEF SInv, Waiting, FirstOnly, Post, Receive, Settle, Apply, Follow, LoseCall
<1>1. Sending(c) => Own(c) /\ Sent(model[0])
  BY <1>0 DEF Waiting, SoloExecution, SoloAs
<1>2. model' # model => Own(c)
  <2>1. Settle(c) => Sending(c)
    BY DEF Settle, Sending
  <2>2. LoseCall(c) /\ model' # model => Sending(c)
    BY DEF LoseCall, Sending
  <2> QED
    BY <1>1, <2>1, <2>2 DEF Post, Receive, Apply, Follow
<1>3. Quiet /\ QuietRows
  BY <1>0, <1>2, PostQuiet, ReceiveQuiet, SettleQuiet, ApplyQuiet, FollowQuiet, LoseCallQuiet
  DEF Unanswered
<1>4. \/ call' = [call EXCEPT ![c] = IdleCall]
      \/ /\ \E pc \in {"wait", "settle"} : \E res : SetCall(c, pc, res)
         /\ Sending(c) /\ UNCHANGED <<model, jobs>>
      \/ (\E pc \in {"apply", "record"} : \E res : SetCall(c, pc, res)) /\ UNCHANGED jobs
  <2>1. CASE Post(c)
    <3>1. \E pc \in {"wait", "settle"} : \E res : SetCall(c, pc, res)
      BY <2>1 DEF Post
    <3> QED
      BY <2>1, <3>1 DEF Post, Sending
  <2>2. CASE Receive(c)
    <3>1. \E pc \in {"wait", "settle"} : \E res : SetCall(c, pc, res)
      BY <2>2 DEF Receive
    <3> QED
      BY <2>2, <3>1 DEF Receive, Sending
  <2>3. CASE Settle(c)
    <3>1. \E pc \in {"apply", "record"} : \E res : SetCall(c, pc, res)
      BY <2>3 DEF Settle
    <3> QED
      BY <2>3, <3>1 DEF Settle
  <2>4. CASE Apply(c)
    BY <2>4 DEF Apply, EndCall
  <2>5. CASE Follow(c) \/ LoseCall(c)
    BY <2>5 DEF Follow, LoseCall, EndCall
  <2> QED
    BY <2>1, <2>2, <2>3, <2>4, <2>5
<1>5. SoloExecution'
  <2>1. CASE call' = [call EXCEPT ![c] = IdleCall]
    <3>1. call'[c].pc = "idle" /\ \A d \in Callers : d # c => call'[d] = call[d]
      BY <1>0, <2>1 DEF TypeOK, IdleCall
    <3> QED
      BY <1>0, <3>1, SoloStep DEF Waiting
  <2>2. ASSUME NEW pc, NEW res, SetCall(c, pc, res), UNCHANGED jobs,
               \/ Sending(c) /\ UNCHANGED model
               \/ pc \in {"apply", "record"}
        PROVE  SoloExecution'
    <3>1. /\ call'[c].pc = pc /\ call'[c].leased = call[c].leased
          /\ call'[c].job = call[c].job /\ call'[c].key = call[c].key
          /\ \A d \in Callers : d # c => call'[d] = call[d]
      BY <1>0, <2>2 DEF SetCall, TypeOK, Execution
    <3>2. Sending(c)' => Own(c)' /\ Sent(model'[0])
      BY <1>1, <2>2, <3>1 DEF Sending, Own
    <3> QED
      BY <1>0, <2>2, <3>1, <3>2, SoloStep DEF Waiting
  <2> QED
    BY <1>4, <2>1, <2>2
<1> QED
  BY <1>0, <1>3, <1>5, WaitKept DEF Waiting, WaitsOnce

LEMMA FirstRecord ==
  ASSUME SInv, Waiting, Unanswered, NEW c \in Callers, Record(c)
  PROVE  Waiting'
<1>0. /\ BInv /\ TypeOK /\ call[c].key[1] = 0 /\ call[c].pc = "record" /\ Active(c)
      /\ UNCHANGED <<model, bridge, recon, lost, jobs>> /\ run \in ProductionRun
  BY FirstBInv DEF SInv, TypeOK, Waiting, FirstOnly, Record, Active
<1>1. /\ \A d \in Callers : CallKept(d) /\ (d # c => SameCall(d))
      /\ call'[c].pc = "follow"
  BY <1>0, CallMoves DEF Record, TypeOK, Execution, CallPcs
<1>2. \A d \in Callers : CallKept(d) /\ (SameCall(d) \/ ResultAs(d)')
  BY <1>1 DEF ResultAs
<1>3. Quiet /\ QuietRows
  BY <1>0, <1>2, SameKeysKept, CallStepKept DEF Unanswered
<1>4. KeysAs'
  BY <1>3, KeysKept DEF Quiet, Waiting
<1>5. SoloExecution'
  <2>1. /\ call'[c].leased = call[c].leased /\ call'[c].job = call[c].job
        /\ \A d \in Callers : d # c => call'[d] = call[d]
    BY <1>0 DEF Record, SetCall, TypeOK, Execution
  <2> QED
    BY <1>0, <1>1, <2>1, SoloStep DEF Waiting, Sending
<1>6. WaitsOnce'
  <2>1. CASE run.status # "running"
    BY <1>0, <2>1 DEF Record, Waiting, WaitsOnce, LastKey
  <2>2. CASE run.status = "running"
    <3>1. /\ ~run.id.on /\ run.id.key = NoKey /\ \A r \in Reconcilers : recon[r].key = NoKey
          /\ \A r \in Reconcilers : recon[r].pc \notin {"dispatch", "reopen"}
      BY <2>2 DEF Waiting, WaitsOnce
    <3>2. call[c].res # "answer"
      <4>1. model[0].status # "succeeded"
        BY ZeroModel DEF Waiting, NoAnswer, KeysAs, RowsAs, RowAs
      <4> QED
        BY <1>0, <4>1 DEF Waiting, KeysAs, ResultsAs, ResultAs
    <3>3. AwaitsReconciliation(0) => model[0].status = "needs_review"
      BY ZeroModel DEF AwaitsReconciliation, Waiting, KeysAs, RowsAs, RowAs
    <3>4. PICK i : i = [NoIdentity EXCEPT !.on = TRUE, !.key = <<0, model[0].attempt>>]
      OBVIOUS
    <3>5. i.on /\ i.key = LastKey(0) /\ ~NoIdentity.on /\ NoIdentity.key = NoKey
      BY <3>4 DEF NoIdentity, LastKey
    <3>6. /\ run'.status = "needs_review"
          /\ run'.id = NoIdentity \/ (run'.id = i /\ AwaitsReconciliation(0))
      <4>1. CASE call[c].res = "reconcile"
        <5>1. run' = [run EXCEPT !.status = "needs_review", !.code = "reconcile",
                        !.id = IF AwaitsReconciliation(0) THEN i ELSE NoIdentity]
          BY <1>0, <2>2, <3>4, <4>1 DEF Record
        <5>2. run \in ProductionRun
          BY <1>0
        <5> QED
          BY <5>1, <5>2 DEF ProductionRun
      <4>2. CASE call[c].res # "reconcile"
        <5>1. run' = [run EXCEPT !.status = "needs_review", !.code = "other",
                        !.id = NoIdentity]
          BY <1>0, <2>2, <3>2, <4>2 DEF Record
        <5>2. run \in ProductionRun
          BY <1>0
        <5> QED
          BY <5>1, <5>2 DEF ProductionRun
      <4> QED
        BY <4>1, <4>2
    <3> QED
      BY <1>0, <3>1, <3>3, <3>5, <3>6 DEF WaitsOnce, LastKey
  <2> QED
    BY <2>1, <2>2
<1> QED
  BY <1>4, <1>5, <1>6 DEF Waiting, Unanswered

-----------------------------------------------------------------------------
(* Its probes and requests.                                                *)
LEMMA ReconRest ==
  ASSUME TypeOK, ProbesAs, NEW r \in Reconcilers,
         \/ recon' = [recon EXCEPT ![r] = IdleRecon]
         \/ \E pc \in {"undecided", "declare", "retry"} : SetRecon(r, pc)
  PROVE  \A x \in Reconcilers : /\ recon'[x] = recon[x] \/ ProbeAs(x)'
                                /\ recon'[x].key \in {NoKey, recon[x].key}
                                /\ recon'[x].pc \in {recon[x].pc, "idle", "undecided",
                                                     "declare", "retry"}
<1>0. recon[r] \in Reconciliation /\ recon \in [Reconcilers -> Reconciliation]
  BY DEF TypeOK
<1>1. \A x \in Reconcilers : x # r => recon'[x] = recon[x]
  BY <1>0 DEF SetRecon
<1>2. CASE recon' = [recon EXCEPT ![r] = IdleRecon]
  <2>1. recon'[r].pc = "idle" /\ recon'[r].key = NoKey
    BY <1>0, <1>2 DEF IdleRecon
  <2> QED
    BY <1>1, <2>1 DEF ProbeAs
<1>3. ASSUME NEW pc \in {"undecided", "declare", "retry"}, SetRecon(r, pc)
      PROVE  recon'[r].pc = pc /\ recon'[r].key = recon[r].key
  BY <1>0, <1>3 DEF SetRecon, Reconciliation
<1>4. CASE \E pc \in {"undecided", "declare", "retry"} : SetRecon(r, pc)
  BY <1>1, <1>3, <1>4 DEF ProbeAs
<1> QED
  BY <1>2, <1>4

(* A step that only notes what was found.                                  *)
LEMMA ReconNoted ==
  ASSUME SInv, Waiting, Unanswered, UNCHANGED <<model, bridge, call, lost, run, jobs>>,
         \A r \in Reconcilers : /\ recon'[r] = recon[r] \/ ProbeAs(r)'
                                /\ recon'[r].key \in {NoKey, recon[r].key, run.id.key}
                                /\ recon'[r].pc \notin {"dispatch", "reopen"}
  PROVE  Waiting'
<1>1. Quiet /\ QuietRows
  BY FirstBInv, ReconStepKept
<1>2. SoloExecution'
  BY SoloSame DEF Waiting
<1> QED
  BY <1>1, <1>2, WaitKept

LEMMA FirstProbe ==
  ASSUME SInv, Waiting, Unanswered, ~StalledRetryable, NEW r \in Reconcilers,
         \/ \E kind \in {"job", "api", "lost"} : StartProbe(r, kind)
         \/ \E by \in {"bridge", "analyst"} :
              StartAdoption(r, [by |-> by, key |-> run.id.key])
         \/ Retrieve(r)
  PROVE  Waiting'
<1>0. /\ BInv /\ TypeOK /\ UNCHANGED <<model, call, run, jobs>>
      /\ recon \in [Reconcilers -> Reconciliation] /\ recon[r] \in Reconciliation
      /\ \A x \in Reconcilers : recon[x].pc \notin {"dispatch", "reopen"}
  BY FirstBInv DEF StartProbe, StartAdoption, Retrieve, SInv, TypeOK, Waiting, WaitsOnce
<1>1. SoloExecution'
  BY <1>0, SoloSame DEF Waiting
<1>2. Quiet /\ QuietRows
  <2>1. Retrieve(r) => (recon'[r].pc = "release" => bridge[recon[r].key] = "closed")
    BY <1>0 DEF Retrieve, SetRecon, Reconciliation
  <2> QED
    BY <1>0, <2>1, StartProbeQuiet, StartAdoptionQuiet, RetrieveQuiet
<1>3. /\ \A x \in Reconcilers : x # r => recon'[x] = recon[x]
      /\ recon'[r].key \in {recon[r].key, run.id.key}
      /\ recon'[r].pc \notin {"dispatch", "reopen"}
  <2>1. ASSUME NEW kind \in {"job", "api", "lost"}, StartProbe(r, kind)
        PROVE  /\ \A x \in Reconcilers : x # r => recon'[x] = recon[x]
               /\ recon'[r].key = run.id.key /\ recon'[r].pc \in {"retrieve", "undecided"}
    BY <1>0, <2>1 DEF StartProbe, IdleRecon
  <2>2. ASSUME NEW by \in {"bridge", "analyst"},
               StartAdoption(r, [by |-> by, key |-> run.id.key])
        PROVE  /\ \A x \in Reconcilers : x # r => recon'[x] = recon[x]
               /\ recon'[r].key = run.id.key /\ recon'[r].pc = "import"
    BY <1>0, <2>2 DEF StartAdoption, IdleRecon
  <2>3. CASE Retrieve(r)
    <3>1. CASE recon' = [recon EXCEPT ![r].pc = "adopt", ![r].text = AnswerTo(recon[r].key)]
      BY <1>0, <3>1 DEF Reconciliation
    <3>2. CASE SetRecon(r, "release") \/ SetRecon(r, "undecided")
      BY <1>0, <3>2 DEF SetRecon, Reconciliation
    <3> QED
      BY <2>3, <3>1, <3>2 DEF Retrieve
  <2> QED
    BY <2>1, <2>2, <2>3
<1> QED
  BY <1>0, <1>1, <1>2, <1>3, WaitKept

(* An answer ends the wait; without one the step changes nothing.          *)
LEMMA FirstNothing ==
  ASSUME SInv, Fresh, Fresh', Waiting, Unanswered, NEW r \in Reconcilers,
         \/ AdoptAnswer(r) \/ ResumeRun(r) \/ Undecided(r) \/ Reemit(r) \/ Dispatch(r)
         \/ ImportAnswer(r) \/ ReopenRun(r) \/ LoseRecon(r)
  PROVE  Waiting'
<1>0. /\ TypeOK /\ recon[r].key[1] = 0 /\ run.id.key[1] = 0 /\ ProbesAs /\ ReconSound(recon[r])
      /\ \A x \in Reconcilers : recon[x].pc \notin {"dispatch", "reopen"}
      /\ model[0].out = NoText /\ model'[0].out = NoText /\ model[0] \in ModelRun
  BY ZeroModel DEF SInv, TypeOK, Waiting, Unanswered, WaitsOnce, FirstOnly, KeysAs, NoAnswer,
     ReconsSound
<1>1. run.id.out = NoText
  BY <1>0 DEF SInv, IdentitySound, ResumedAnswerIsArchived
<1>2. ASSUME NEW text, text # NoText, model' = [model EXCEPT ![0] = Succeed(@, text)]
      PROVE  FALSE
  <2>1. model'[0] = Succeed(model[0], text)
    BY <1>0, <1>2, ZeroModel DEF TypeOK
  <2>2. model'[0].out = text
    BY <1>0, <2>1 DEF Succeed, ModelRun
  <2> QED
    BY <1>0, <1>2, <2>2
<1>3. ~Dispatch(r) /\ ~ReopenRun(r)
  BY <1>0 DEF Dispatch, ReopenRun
<1>4. ~ResumeRun(r)
  BY <1>0 DEF ResumeRun, ReconSound
<1>5. UNCHANGED <<bridge, call, lost, jobs>>
  BY <1>3 DEF AdoptAnswer, ResumeRun, Undecided, Reemit, ImportAnswer, LoseRecon
<1>6. /\ UNCHANGED <<model, run>>
      /\ \/ recon' = [recon EXCEPT ![r] = IdleRecon]
         \/ \E pc \in {"undecided", "declare", "retry"} : SetRecon(r, pc)
  <2>1. CASE AdoptAnswer(r)
    <3>1. recon[r].text # NoText
      BY <1>0, <2>1 DEF AdoptAnswer, ReconSound
    <3>2. ~(\E text : text # NoText /\ model' = [model EXCEPT ![0] = Succeed(@, text)])
      BY <1>2
    <3>3. model' # [model EXCEPT ![0] = Succeed(@, recon[r].text)]
      BY <3>1, <3>2
    <3> QED
      BY <1>0, <2>1, <3>3 DEF AdoptAnswer, EndRecon
  <2>2. CASE ImportAnswer(r)
    <3>1. recon[r].text # NoText
      BY <1>0, <2>2 DEF ImportAnswer, ProbesAs, ProbeAs
    <3>2. model' # [model EXCEPT ![0] = Succeed(@, recon[r].text)]
      BY <1>2, <3>1
    <3> QED
      BY <1>0, <2>2, <3>1, <3>2 DEF ImportAnswer
  <2>3. CASE Undecided(r)
    <3>1. CASE recon[r].kind = "lost"
      BY <2>3, <3>1 DEF Undecided
    <3>2. CASE recon[r].kind = "api"
      BY <2>3, <3>2 DEF Undecided, EndRecon
    <3>3. CASE recon[r].kind \notin {"lost", "api"}
      BY <1>1, <2>3, <3>3 DEF Undecided
    <3> QED
      BY <3>1, <3>2, <3>3
  <2>4. CASE Reemit(r)
    <3>1. ~(\E n : run' = [NextGeneration EXCEPT !.reemitted = n])
      <4>1. ASSUME NEW n, run' = [NextGeneration EXCEPT !.reemitted = n]
            PROVE  FALSE
        <5>1. run'.gen = run.gen + 1
          BY <1>0, <4>1, NextGenerationRun
        <5> QED
          BY <5>1 DEF Fresh
      <4> QED
        BY <4>1
    <3> QED
      BY <2>4, <3>1 DEF Reemit, EndRecon
  <2>5. CASE LoseRecon(r)
    BY <2>5 DEF LoseRecon, EndRecon
  <2> QED
    BY <1>3, <1>4, <2>1, <2>2, <2>3, <2>4, <2>5
<1>7. \A x \in Reconcilers : /\ recon'[x] = recon[x] \/ ProbeAs(x)'
                            /\ recon'[x].key \in {NoKey, recon[x].key}
                            /\ recon'[x].pc \in {recon[x].pc, "idle", "undecided", "declare",
                                                 "retry"}
  BY <1>0, <1>6, ReconRest
<1> QED
  BY <1>0, <1>5, <1>6, <1>7, ReconNoted

(* The submission is given up, once nothing can be answered under it.      *)
LEMMA FirstGivenUp ==
  ASSUME SInv, Waiting, Unanswered, UNCHANGED <<bridge, call, jobs>>, lost \subseteq lost',
         run.id.on, NEW v, model' = [model EXCEPT ![0] = v], RowAs(v),
         v.attempt = model[0].attempt, v.status \notin {"absent", "needs_review"}, ~Sent(v),
         Dead(LastKey(0))', run'.status = "needs_review", run'.id = NoIdentity,
         \A r \in Reconcilers : /\ recon'[r] = recon[r] \/ ProbeAs(r)'
                                /\ recon'[r].pc \notin {"dispatch", "reopen"}
  PROVE  Waiting'
<1>0. TypeOK /\ model[0].status = "needs_review" /\ RowAs(model[0])
  BY ZeroModel DEF SInv, Waiting, WaitsOnce, KeysAs, RowsAs
<1>1. model'[0] = v /\ \A n \in Models : n # 0 => model'[n] = model[n]
  BY <1>0, ZeroModel DEF TypeOK
<1>2. RowsAs' /\ \A n \in Models : RowKept(n)
  <2>1. RowKept(0)
    <3>1. model[0].code # "abandoned"
      BY <1>0 DEF RowAs
    <3> QED
      BY <1>0, <1>1, <3>1 DEF RowKept, RowStands
  <2>2. \A n \in Models : n # 0 => RowKept(n)
    BY <1>1 DEF RowKept, RowStands
  <2>3. RowsAs'
    BY <1>1 DEF Waiting, KeysAs, RowsAs
  <2> QED
    BY <2>1, <2>2, <2>3
<1>3. Kept /\ \A c \in Callers : SameCall(c)
  BY <1>2, SameKeysKept, SameCallsKept DEF Kept, CallKept, Unanswered
<1>4. KeysAs'
  BY <1>2, <1>3, KeysKept DEF Waiting
<1>5. SoloExecution'
  <2>1. \A c \in Callers : ~Sending(c)
    BY <1>0 DEF Waiting, SoloExecution, SoloAs, Sent, Sending
  <2> QED
    BY <2>1 DEF Waiting, SoloExecution, SoloAs, Sending
<1>6. WaitsOnce'
  BY DEF WaitsOnce, NoIdentity
<1> QED
  BY <1>4, <1>5, <1>6 DEF Waiting, Unanswered

LEMMA FirstRelease ==
  ASSUME SInv, Waiting, Unanswered, NEW r \in Reconcilers, Release(r)
  PROVE  Waiting'
<1>0. /\ TypeOK /\ ProbesAs /\ recon[r].pc = "release" /\ run \in ProductionRun
      /\ UNCHANGED <<bridge, call, lost, jobs>> /\ run.id.key[1] = 0 /\ model[0] \in ModelRun
      /\ \A x \in Reconcilers : recon[x].pc \notin {"dispatch", "reopen"}
  BY ZeroModel DEF SInv, TypeOK, Waiting, WaitsOnce, FirstOnly, KeysAs, Release
<1>1. \A x \in Reconcilers : /\ recon'[x] = recon[x] \/ ProbeAs(x)'
                            /\ recon'[x].key \in {NoKey, recon[x].key}
                            /\ recon'[x].pc \notin {"dispatch", "reopen"}
  <2>1. \/ recon' = [recon EXCEPT ![r] = IdleRecon]
        \/ \E pc \in {"undecided", "declare", "retry"} : SetRecon(r, pc)
    BY DEF Release, EndRecon
  <2> QED
    BY <1>0, <2>1, ReconRest
<1>2. CASE UNCHANGED <<model, run>>
  BY <1>0, <1>1, <1>2, ReconNoted
<1>3. CASE /\ RequiresReconciliation
           /\ model' = [model EXCEPT ![0] = Reopened(model[0])]
           /\ run' = [run EXCEPT !.code = "unavailable", !.id = NoIdentity]
  <2>1. PICK v : v = Reopened(model[0])
    OBVIOUS
  <2>2. /\ v.status = "running" /\ v.sub = "not_submitted" /\ v.attempt = model[0].attempt
        /\ RowAs(v)
    BY <1>0, <2>1 DEF Reopened, ModelRun, RowAs
  <2>3. model'[0] = v /\ run.id.on
    BY <1>0, <1>3, <2>1, ZeroModel DEF TypeOK, RequiresReconciliation
  <2>4. recon[r].key = LastKey(0) /\ bridge[LastKey(0)] = "closed"
    <3>1. recon[r].key \in Keys /\ bridge[recon[r].key] = "closed"
      BY <1>0 DEF ProbesAs, ProbeAs
    <3>2. recon[r].key \in {NoKey, run.id.key} /\ run.id.key = LastKey(0)
      BY <2>3 DEF Waiting, WaitsOnce
    <3> QED
      BY <3>1, <3>2, ZeroModel
  <2>5. Dead(LastKey(0))'
    BY <1>0, <2>2, <2>3, <2>4 DEF Dead, LastKey
  <2>6. run'.status = "needs_review" /\ run'.id = NoIdentity
    BY <1>0, <1>3 DEF ProductionRun, RequiresReconciliation
  <2> QED
    BY <1>0, <1>1, <1>3, <2>1, <2>2, <2>3, <2>5, <2>6, FirstGivenUp DEF Sent
<1> QED
  BY <1>0, <1>2, <1>3, ZeroModel DEF Release, Releasable, TypeOK

LEMMA FirstDeclared ==
  ASSUME SInv, Waiting, Unanswered, NEW r \in Reconcilers, DeclareLost(r)
  PROVE  Waiting'
<1>0. /\ TypeOK /\ ProbesAs /\ run \in ProductionRun /\ UNCHANGED <<bridge, call, jobs>>
      /\ run.id.key[1] = 0 /\ model[0] \in ModelRun
      /\ \A x \in Reconcilers : recon[x].pc \notin {"dispatch", "reopen"}
  BY ZeroModel DEF SInv, TypeOK, Waiting, WaitsOnce, FirstOnly, KeysAs, DeclareLost
<1>1. \A x \in Reconcilers : /\ recon'[x] = recon[x] \/ ProbeAs(x)'
                            /\ recon'[x].key \in {NoKey, recon[x].key}
                            /\ recon'[x].pc \notin {"dispatch", "reopen"}
  <2>1. recon' = [recon EXCEPT ![r] = IdleRecon]
    BY DEF DeclareLost, EndRecon
  <2> QED
    BY <1>0, <2>1, ReconRest
<1>2. CASE UNCHANGED <<model, run, lost>>
  BY <1>0, <1>1, <1>2, ReconNoted
<1>3. CASE /\ RequiresReconciliation
           /\ model' = [model EXCEPT ![0] = Fail(model[0], model[0].sub, "abandoned")]
           /\ run' = [run EXCEPT !.code = "lost", !.id = NoIdentity]
           /\ lost' = lost \union {run.id.key}
  <2>1. PICK v : v = Fail(model[0], model[0].sub, "abandoned")
    OBVIOUS
  <2>2. v.status = "failed" /\ v.attempt = model[0].attempt /\ RowAs(v)
    BY <1>0, <2>1 DEF Fail, ModelRun, RowAs
  <2>3. model'[0] = v /\ run.id.on
    BY <1>0, <1>3, <2>1, ZeroModel DEF TypeOK, RequiresReconciliation
  <2>4. LastKey(0) \in lost'
    BY <1>3, <2>3 DEF Waiting, WaitsOnce
  <2>5. Dead(LastKey(0))'
    BY <2>2, <2>3, <2>4 DEF Dead, LastKey
  <2>6. run'.status = "needs_review" /\ run'.id = NoIdentity
    BY <1>0, <1>3 DEF ProductionRun, RequiresReconciliation
  <2> QED
    BY <1>0, <1>1, <1>3, <2>1, <2>2, <2>3, <2>5, <2>6, FirstGivenUp DEF Sent
<1> QED
  BY <1>0, <1>2, <1>3, ZeroModel DEF DeclareLost, Releasable, TypeOK

-----------------------------------------------------------------------------
(* Its steps, together.                                                    *)
LEMMA FirstStep ==
  ASSUME SInv, FirstInv, ~StalledRetryable, [Next]_vars
  PROVE  FirstInv'
<1>1. SInv' /\ AnswersStay
  BY StepSound
<1>2. Fresh' => Fresh
  <2> SUFFICES ASSUME ~Fresh PROVE ~Fresh'
    OBVIOUS
  <2>1. run \in ProductionRun /\ run.gen \in Nat /\ TypeOK /\ used.lapse \in Nat
    BY SubmissionAssumption DEF SInv, TypeOK, ProductionRun, Generations
  <2>2. run'.gen = run.gen \/ run'.gen = run.gen + 1
    <3>1. \/ run' = run \/ run' = NextGeneration
          \/ \E n : run' = [NextGeneration EXCEPT !.reemitted = n]
          \/ run'.gen = run.gen
      <4>1. ASSUME NEW c \in Callers, Record(c)
            PROVE  run'.gen = run.gen
        BY <2>1, <4>1 DEF Record, ProductionRun
      <4>2. ASSUME NEW c \in Callers, CallStep(c) \/ LoseCall(c) \/ LapseLease(c)
            PROVE  run' = run \/ run'.gen = run.gen
        BY <4>1, <4>2 DEF CallStep, StartStage, Claim, Post, Receive,
           ReopenAfterTerminalFailure, Settle, Apply, Follow, LoseCall, LapseLease
      <4>3. ASSUME NEW r \in Reconcilers, Release(r) \/ DeclareLost(r)
            PROVE  run'.gen = run.gen
        BY <2>1, <4>3 DEF Release, DeclareLost, ProductionRun
      <4>4. ASSUME NEW r \in Reconcilers, ResumeRun(r) \/ ReopenRun(r)
            PROVE  run'.gen = run.gen
        BY <2>1, <4>4 DEF ResumeRun, ReopenRun, ResumedRun, ProductionRun
      <4>5. ASSUME NEW r \in Reconcilers,
                   StartProbe(r, "job") \/ ReconStep(r) \/ AnalystStep(r) \/ LoseRecon(r)
            PROVE  \/ run' = run \/ run'.gen = run.gen
                   \/ \E n : run' = [NextGeneration EXCEPT !.reemitted = n]
        BY <4>3, <4>4, <4>5 DEF ReconStep, AnalystStep, StartProbe, Retrieve, AdoptAnswer,
           Undecided, Reemit, Dispatch, ImportAnswer, StartAdoption, LoseRecon
      <4>6. CASE CancelRun
        BY <2>1, <4>6 DEF CancelRun, ProductionRun
      <4> QED
        BY <4>2, <4>5, <4>6 DEF Next, BridgeStep, RetryRun, ResumeCancelled, TurnBatch, vars
    <3> QED
      BY <2>1, <3>1, NextGenerationRun
  <2>3. used'.lapse = used.lapse \/ used'.lapse = used.lapse + 1
    <3>0. used \in [crash : 0..MaxCrashes, drop : 0..MaxDrops, lapse : 0..MaxLapses,
                    cancel : 0..MaxCancels, turn : 0..MaxTurns]
      BY <2>1 DEF TypeOK
    <3>1. ASSUME NEW c \in Callers, LoseCall(c) \/ LapseLease(c)
          PROVE  used'.lapse = used.lapse \/ used'.lapse = used.lapse + 1
      BY <3>0, <3>1 DEF LoseCall, LapseLease
    <3>2. ASSUME NEW r \in Reconcilers, LoseRecon(r)
          PROVE  used'.lapse = used.lapse
      BY <3>0, <3>2 DEF LoseRecon
    <3>3. CASE CancelRun \/ TurnBatch
      BY <3>0, <3>3 DEF CancelRun, TurnBatch
    <3>4. ASSUME NEW c \in Callers, CallStep(c)
          PROVE  UNCHANGED used
      BY <3>4 DEF CallStep, StartStage, Claim, Post, Receive, ReopenAfterTerminalFailure,
         Settle, Apply, Record, Follow
    <3>5. ASSUME NEW r \in Reconcilers, StartProbe(r, "job") \/ ReconStep(r) \/ AnalystStep(r)
          PROVE  UNCHANGED used
      BY <3>5 DEF ReconStep, AnalystStep, StartProbe, Retrieve, AdoptAnswer, ResumeRun,
         Release, DeclareLost, Undecided, Reemit, Dispatch, ImportAnswer, ReopenRun,
         StartAdoption
    <3> QED
      BY <3>1, <3>2, <3>3, <3>4, <3>5
      DEF Next, BridgeStep, RetryRun, ResumeCancelled, vars
  <2> QED
    BY <2>1, <2>2, <2>3 DEF Fresh
<1>3. CASE ~Fresh'
  BY <1>3 DEF FirstInv
<1>4. CASE Fresh'
  <2>1. Fresh /\ FirstOnly /\ FirstOnly'
    BY <1>2, <1>4, FirstStays DEF FirstInv
  <2>2. NoAnswer' => NoAnswer
    BY <1>1, ZeroModel DEF AnswersStay, NoAnswer
  <2> SUFFICES ASSUME NoAnswer' PROVE Waiting'
    BY <2>1 DEF FirstInv, Waiting
  <2>3. Waiting /\ Unanswered
    BY <1>1, <2>1, <2>2 DEF FirstInv, Waiting, Unanswered
  <2>4. CASE UNCHANGED vars
    BY <2>3, <2>4, ReconNoted DEF vars, Waiting, WaitsOnce
  <2>5. ASSUME NEW c \in Callers, CallStep(c) \/ LoseCall(c)
        PROVE  Waiting'
    <3>1. CASE \E j \in JobKeys : StartStage(c, j[1], j[2])
      BY <2>1, <2>3, <3>1, FirstStart
    <3> QED
      BY <2>3, <2>5, <3>1, FirstClaim, FirstReopen, FirstMove, FirstRecord DEF CallStep
  <2>6. ASSUME NEW r \in Reconcilers,
               StartProbe(r, "job") \/ ReconStep(r) \/ AnalystStep(r) \/ LoseRecon(r)
        PROVE  Waiting'
    <3>1. CASE StartProbe(r, "job") \/ AnalystStep(r) \/ Retrieve(r)
      <4>1. \/ \E kind \in {"job", "api", "lost"} : StartProbe(r, kind)
            \/ \E by \in {"bridge", "analyst"} :
                 StartAdoption(r, [by |-> by, key |-> run.id.key])
            \/ Retrieve(r)
        BY <3>1 DEF AnalystStep
      <4> QED
        BY <2>3, <4>1, FirstProbe
    <3>2. CASE Release(r) \/ DeclareLost(r)
      BY <2>3, <3>2, FirstRelease, FirstDeclared
    <3>3. CASE \/ AdoptAnswer(r) \/ ResumeRun(r) \/ Undecided(r) \/ Reemit(r) \/ Dispatch(r)
               \/ ImportAnswer(r) \/ ReopenRun(r) \/ LoseRecon(r)
      BY <1>4, <2>1, <2>3, <3>3, FirstNothing
    <3> QED
      BY <2>6, <3>1, <3>2, <3>3 DEF ReconStep
  <2>7. CASE RetryRun \/ ResumeCancelled
    <3>1. run'.gen = run.gen + 1
      BY <2>7, NextGenerationRun DEF RetryRun, ResumeCancelled, SInv
    <3> QED
      BY <1>4, <2>1, <3>1 DEF Fresh
  <2>8. ASSUME NEW c \in Callers, LapseLease(c)
        PROVE  FALSE
    <3>1. used'.lapse = used.lapse + 1
      BY <2>8 DEF SInv, TypeOK, LapseLease
    <3> QED
      BY <1>4, <2>1, <3>1 DEF Fresh
  <2>9. ASSUME NEW k \in Keys, BridgeStep(k)
        PROVE  Waiting'
    <3>1. UNCHANGED <<model, run, jobs, call, recon>>
      BY <2>9 DEF BridgeStep
    <3>2. Quiet /\ QuietRows
      BY <2>3, <2>9, FirstBInv, BridgeStepQuiet DEF Unanswered
    <3>3. SoloExecution'
      BY <2>3, <3>1, SoloSame DEF Waiting
    <3> QED
      BY <2>3, <3>1, <3>2, <3>3, WaitKept DEF Waiting, WaitsOnce
  <2>10. CASE CancelRun \/ TurnBatch
    <3>1. /\ UNCHANGED <<model, bridge, call, recon, lost>>
          /\ jobs[<<"stage", 0>>] = "running" => jobs'[<<"stage", 0>>] = "running"
          /\ run' = run \/ (run.status = "running" /\ run'.status = "cancelled" /\ run'.id = run.id)
      BY <2>10, ZeroModel
      DEF CancelRun, TurnBatch, SInv, TypeOK, ProductionRun, JobKeys, Models
    <3>2. SoloExecution'
      BY <2>3, <3>1, SoloSame DEF Waiting
    <3>3. Quiet
      BY <2>3, <3>1, FirstBInv, ReconStepKept
    <3>4. KeysAs'
      BY <2>3, <3>3, KeysKept DEF Waiting, Quiet
    <3>5. WaitsOnce'
      BY <2>3, <3>1 DEF Waiting, WaitsOnce, LastKey
    <3> QED
      BY <2>3, <3>2, <3>4, <3>5 DEF Waiting, Unanswered
  <2> QED
    BY <2>4, <2>5, <2>6, <2>7, <2>8, <2>9, <2>10 DEF Next
<1> QED
  BY <1>3, <1>4

LEMMA InitFirst == Init => FirstInv
<1> SUFFICES ASSUME Init PROVE FirstOnly /\ KeysAs /\ SoloExecution /\ WaitsOnce
  BY DEF FirstInv
<1>1. KeysAs
  BY InitCareful DEF CInv, BInv
<1>2. SoloExecution
  BY DEF Init, SoloExecution, SoloAs, IdleCall
<1>3. WaitsOnce
  BY DEF Init, WaitsOnce, NoIdentity, IdleRecon
<1>4. FirstOnly
  BY ZeroModel DEF Init, FirstOnly, NoIdentity, IdleRecon, IdleCall, NewModel, JobKeys
<1> QED
  BY <1>1, <1>2, <1>3, <1>4

LEMMA FirstOne == SInv /\ FirstInv => FirstGenerationSubmitsOnce
<1> SUFFICES ASSUME SInv, FirstInv, Fresh, NEW k \in Keys, NEW l \in Keys,
                    Unresolved(k), Unresolved(l)
             PROVE  k = l
  BY DEF FirstGenerationSubmitsOnce, OneUnresolvedSubmission, Fresh
<1>1. /\ ~Dead(k) /\ ~Dead(l)
      /\ model[k[1]].out = NoText /\ bridge[k] # "none" /\ bridge[l] # "none"
  BY DEF Unresolved, Dead
<1>2. k[1] = 0 /\ l[1] = 0
  BY <1>1 DEF FirstInv, FirstOnly
<1>3. KeysAs
  BY <1>1, <1>2 DEF FirstInv, NoAnswer
<1> QED
  BY <1>1, <1>2, <1>3 DEF KeysAs, DeadAs

(* Where the Bridge calls no failure retryable without its proof, the      *)
(* prompt of a stage is submitted to one key at a time for as long as the  *)
(* run is in its first generation and no job is delivered again while it   *)
(* executes: workers and probes lost at any step, redeliveries, retries    *)
(* after a final failure, cancellations, probes asked for at the same      *)
(* time, declarations of loss and adoptions change nothing of it           *)
(* (begin_submission_attempt, _reconciliation_identity, _release).         *)
THEOREM FirstGenerationIsSafe ==
  ~StalledRetryable => (Spec => []FirstGenerationSubmitsOnce)
<1> SUFFICES ASSUME ~StalledRetryable PROVE Spec => []FirstGenerationSubmitsOnce
  OBVIOUS
<1>1. SInv /\ FirstInv /\ [Next]_vars => FirstInv'
  BY FirstStep
<1> QED
  BY InitFirst, <1>1, FirstOne, SubmissionInvariance, PTL DEF Spec
=============================================================================
