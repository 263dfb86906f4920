-------------------------- MODULE ProductionProofs --------------------------
(***************************************************************************)
(* Proofs about the production of a batch, for any number of subjects,     *)
(* stages, attempts, requests, crashes and lost requests.                  *)
(*                                                                         *)
(* The handlers, the hand-overs and the requests of analysts write the     *)
(* runs in transactions of their own, from jobs and clients that may be    *)
(* old. What protects the batch is said about the runs its items point at: *)
(* they exist as soon as the batch does, a closed batch leaves none of     *)
(* them active, and the queue starts them in editorial order. Two steps    *)
(* are particular, the creation of the batch and the start of the next     *)
(* run; every other step ends runs, opens a generation or replaces a run,  *)
(* and RowsSettle below is about all of those.                             *)
(***************************************************************************)
EXTENDS ProductionBatch, SetLemmas, TLAPS

(* The runs of a batch exist when it does.                                 *)
RunsExist ==
    /\ batch.status # "absent" => \A s \in Subjects : run[ItemRun(s)].status # "absent"
    /\ batch.status = "absent" =>
         batch.phase = "initial" /\ \A s \in Subjects : item[s].run = 0

(* An attempt is counted when a job is claimed.                            *)
JobsSound == \A k \in JobKeys :
    /\ jobs[k].st = "queued" => jobs[k].attempt < MaxAttempts
    /\ jobs[k].st = "running" => jobs[k].attempt > 0

(* A request that goes on names its run; one that starts a replacement     *)
(* names a replacement.                                                    *)
ClientsSound == \A c \in Clients :
    /\ client[c].pc \in {"terminal", "handoff", "start"} => client[c].run \in RunIds
    /\ client[c].pc = "sweep" /\ client[c].changed => client[c].run \in RunIds
    /\ client[c].pc = "start" => client[c].run[2] > 0

(* The runs of the first pass are started in editorial order.              *)
StartedInOrder == \A i, j \in DOMAIN Order :
    /\ i < j
    /\ FirstRun(Order[j]) /\ run[ItemRun(Order[j])].status = "running"
    /\ FirstRun(Order[i])
    => run[ItemRun(Order[i])].status \notin ActiveRunStatuses

LaterPhasesFollow ==
    batch.phase # "initial" =>
      \A s \in Subjects : FirstRun(s) => run[ItemRun(s)].status \in TerminalStatuses

(* The inductive invariant.                                                *)
ProdInv == /\ TypeOK /\ RunsExist /\ JobsSound /\ ClientsSound
           /\ ClosedBatchIsQuiet /\ StartedInOrder /\ LaterPhasesFollow

-----------------------------------------------------------------------------
(* Types of the rows.                                                      *)

Batches == [status : BatchStatus, phase : {"initial", "recovery", "review"},
            started : BOOLEAN]
Items == [Subjects -> [run : 0..MaxRestarts, auto : 0..1]]
RunRow == [status : ActiveRunStatuses \union TerminalStatuses \union {"absent"},
           stage : Stages, gen : 0..MaxGeneration, err : ErrorCodes]
Rows == [RunIds -> RunRow]

(* What the invariant says of the batch, its items and their runs.         *)
RowInv == /\ batch \in Batches /\ item \in Items /\ run \in Rows /\ RunsExist
          /\ ClosedBatchIsQuiet /\ StartedInOrder /\ LaterPhasesFollow

LEMMA StatusNames ==
  /\ \A x \in TerminalStatuses : x # "absent" /\ x \notin ActiveRunStatuses
  /\ \A x \in ActiveRunStatuses : x # "absent" /\ x \notin TerminalStatuses
  /\ "running" \in ActiveRunStatuses /\ "queued" \in ActiveRunStatuses
  /\ {"ready", "needs_review", "failed", "cancelled"} \subseteq TerminalStatuses
  /\ "absent" \notin TerminalStatuses \union ActiveRunStatuses
BY DEF TerminalStatuses, ActiveRunStatuses

LEMMA Constants ==
  /\ LastStage \in Nat /\ LastStage > 0 /\ MaxAttempts \in Nat /\ MaxAttempts > 0
  /\ MaxRequests \in Nat /\ MaxGeneration \in Nat /\ MaxRestarts \in Nat
  /\ MaxCrashes \in Nat /\ MaxAborts \in Nat
  /\ Order \in Seq(STRING) /\ Len(Order) \in Nat /\ Len(Order) > 0
  /\ DOMAIN Order = 1..Len(Order)
  /\ \A i, j \in DOMAIN Order : Order[i] = Order[j] => i = j
  /\ 1 \in Stages /\ LastStage \in Stages
  /\ 0 \in 0..MaxGeneration /\ 0 \in 0..MaxAttempts /\ 0 \in 0..MaxRestarts
<1>1. /\ LastStage \in Nat /\ LastStage > 0 /\ MaxAttempts \in Nat /\ MaxAttempts > 0
      /\ MaxRequests \in Nat /\ MaxGeneration \in Nat /\ MaxRestarts \in Nat
      /\ MaxCrashes \in Nat /\ MaxAborts \in Nat
  BY ProductionAssumption
<1>2. /\ Order \in Seq(STRING) /\ Len(Order) \in Nat /\ Len(Order) > 0
      /\ DOMAIN Order = 1..Len(Order)
      /\ \A i, j \in DOMAIN Order : Order[i] = Order[j] => i = j
  BY ProductionAssumption
<1> QED
  BY <1>1, <1>2 DEF Stages

LEMMA ItemRunType ==
  ASSUME item \in Items, NEW s \in Subjects
  PROVE  ItemRun(s) \in RunIds /\ ItemRun(s)[1] = s /\ ItemRun(s)[2] = item[s].run
BY DEF Items, ItemRun, RunIds

LEMMA RunFields ==
  ASSUME run \in Rows, NEW r \in RunIds
  PROVE  /\ run[r] \in RunRow
         /\ run[r].status \in ActiveRunStatuses \union TerminalStatuses \union {"absent"}
         /\ run[r].stage \in Stages /\ run[r].gen \in 0..MaxGeneration
         /\ run[r].err \in ErrorCodes
<1>1. run[r] \in RunRow
  BY DEF Rows
<1> QED
  BY <1>1 DEF RunRow

(* What the marks of a run write.                                          *)
LEMMA Marks ==
  ASSUME NEW x \in RunRow
  PROVE  /\ StartRunning(x) \in RunRow /\ StartRunning(x).status = "running"
         /\ StartRunning(x).gen = x.gen
         /\ MarkCancelled(x) \in RunRow /\ MarkCancelled(x).status = "cancelled"
         /\ MarkCancelled(x).gen = x.gen
         /\ x.status = "cancelled" => MarkCancelled(x) = x
         /\ MarkReady(x) \in RunRow /\ MarkReady(x).status = "ready"
         /\ MarkReady(x).gen = x.gen
         /\ \A code \in ErrorCodes :
              /\ MarkNeedsReview(x, code) \in RunRow
              /\ MarkNeedsReview(x, code).status = "needs_review"
              /\ MarkNeedsReview(x, code).gen = x.gen
              /\ MarkFailed(x, code) \in RunRow
              /\ MarkFailed(x, code).status = "failed"
              /\ MarkFailed(x, code).gen = x.gen
<1>1. \A st \in ActiveRunStatuses \union TerminalStatuses :
         /\ [x EXCEPT !.status = st] \in RunRow
         /\ [x EXCEPT !.status = st].status = st
         /\ [x EXCEPT !.status = st].gen = x.gen
         /\ x.status = st => [x EXCEPT !.status = st] = x
  BY DEF RunRow
<1>2. \A st \in TerminalStatuses, code \in ErrorCodes :
         /\ [x EXCEPT !.status = st, !.err = code] \in RunRow
         /\ [x EXCEPT !.status = st, !.err = code].status = st
         /\ [x EXCEPT !.status = st, !.err = code].gen = x.gen
  BY DEF RunRow
<1>3. /\ "running" \in ActiveRunStatuses \union TerminalStatuses
      /\ "cancelled" \in ActiveRunStatuses \union TerminalStatuses
      /\ "ready" \in ActiveRunStatuses \union TerminalStatuses
      /\ "needs_review" \in TerminalStatuses /\ "failed" \in TerminalStatuses
  BY StatusNames
<1>4. /\ StartRunning(x) \in RunRow /\ StartRunning(x).status = "running"
      /\ StartRunning(x).gen = x.gen
  BY <1>1, <1>3, Zenon DEF StartRunning
<1>5. /\ MarkCancelled(x) \in RunRow /\ MarkCancelled(x).status = "cancelled"
      /\ MarkCancelled(x).gen = x.gen
      /\ x.status = "cancelled" => MarkCancelled(x) = x
  BY <1>1, <1>3, Zenon DEF MarkCancelled
<1>6. /\ MarkReady(x) \in RunRow /\ MarkReady(x).status = "ready"
      /\ MarkReady(x).gen = x.gen
  BY <1>1, <1>3, Zenon DEF MarkReady
<1>7. ASSUME NEW code \in ErrorCodes
      PROVE  /\ MarkNeedsReview(x, code) \in RunRow
             /\ MarkNeedsReview(x, code).status = "needs_review"
             /\ MarkNeedsReview(x, code).gen = x.gen
             /\ MarkFailed(x, code) \in RunRow
             /\ MarkFailed(x, code).status = "failed"
             /\ MarkFailed(x, code).gen = x.gen
  BY <1>2, <1>3, Zenon DEF MarkNeedsReview, MarkFailed
<1> QED
  BY <1>4, <1>5, <1>6, <1>7

(* A new generation, and a stage that advances.                            *)
LEMMA NextRows ==
  ASSUME NEW x \in RunRow, NEW s \in Stages
  PROVE  /\ x.gen < MaxGeneration =>
              /\ NewGeneration(x, s) \in RunRow /\ NewGeneration(x, s).status = "running"
              /\ NewGeneration(x, s).gen > 0
         /\ [x EXCEPT !.stage = s] \in RunRow
         /\ [x EXCEPT !.stage = s].status = x.status /\ [x EXCEPT !.stage = s].gen = x.gen
<1>1. "running" \in ActiveRunStatuses /\ "none" \in ErrorCodes
  BY StatusNames DEF ErrorCodes
<1>2. x.gen \in 0..MaxGeneration /\ MaxGeneration \in Nat
  BY Constants DEF RunRow
<1>3. ASSUME x.gen < MaxGeneration
      PROVE  /\ NewGeneration(x, s) \in RunRow /\ NewGeneration(x, s).status = "running"
             /\ NewGeneration(x, s).gen > 0
  <2>1. x.gen + 1 \in 0..MaxGeneration /\ x.gen + 1 > 0
    BY <1>2, <1>3
  <2> QED
    BY <1>1, <2>1 DEF NewGeneration, RunRow
<1>4. /\ [x EXCEPT !.stage = s] \in RunRow
      /\ [x EXCEPT !.stage = s].status = x.status /\ [x EXCEPT !.stage = s].gen = x.gen
  BY DEF RunRow
<1> QED
  BY <1>3, <1>4

(* A row replaced by one of its type.                                      *)
LEMMA RowSet ==
  ASSUME run \in Rows, NEW r \in RunIds, NEW x \in RunRow,
         run' = [run EXCEPT ![r] = x]
  PROVE  /\ run' \in Rows /\ run'[r] = x
         /\ \A o \in RunIds : o # r => run'[o] = run[o]
BY DEF Rows

-----------------------------------------------------------------------------
(* Steps that end runs, open a generation or replace a run.                *)

LEMMA RowsSettle ==
  ASSUME RowInv, batch' \in Batches, item' \in Items, run' \in Rows,
         batch.status = "absent" => batch'.status = "absent" /\ batch'.phase = batch.phase
                                    /\ \A s \in Subjects : item'[s].run = 0,
         batch'.status = "absent" => batch.status = "absent",
         \A s \in Subjects : run[ItemRun(s)].status # "absent"
                               => (run[ItemRun(s)].status # "absent")',
         \A s \in Subjects : FirstRun(s)' =>
            /\ FirstRun(s)
            /\ \/ (run[ItemRun(s)].status)' = run[ItemRun(s)].status
               \/ (run[ItemRun(s)].status)' \in TerminalStatuses,
         ClosedBatchIsQuiet',
         \/ batch'.phase = "initial"
         \/ batch.phase # "initial"
         \/ \A s \in Subjects : FirstRun(s)' => (run[ItemRun(s)].status)' \in TerminalStatuses
  PROVE  RowInv'
<1> DEFINE A(s) == run[ItemRun(s)].status
<1>1. ASSUME NEW i \in DOMAIN Order PROVE Order[i] \in Subjects
  BY DEF Subjects
<1>2. RunsExist'
  <2>1. ASSUME batch'.status # "absent", NEW s \in Subjects PROVE A(s)' # "absent"
    BY <2>1 DEF RowInv, RunsExist
  <2>2. ASSUME batch'.status = "absent"
        PROVE  batch'.phase = "initial" /\ \A s \in Subjects : item'[s].run = 0
    BY <2>2 DEF RowInv, RunsExist
  <2> QED
    BY <2>1, <2>2 DEF RunsExist
<1>3. StartedInOrder'
  <2> SUFFICES ASSUME NEW i \in DOMAIN Order, NEW j \in DOMAIN Order, i < j,
                      FirstRun(Order[j])', A(Order[j])' = "running", FirstRun(Order[i])'
               PROVE  A(Order[i])' \notin ActiveRunStatuses
    BY DEF StartedInOrder
  <2>1. FirstRun(Order[j]) /\ A(Order[j]) = "running"
    BY <1>1, StatusNames
  <2>2. FirstRun(Order[i]) /\ (A(Order[i])' = A(Order[i]) \/ A(Order[i])' \in TerminalStatuses)
    BY <1>1
  <2>3. A(Order[i]) \notin ActiveRunStatuses
    BY <2>1, <2>2 DEF RowInv, StartedInOrder
  <2> QED
    BY <2>2, <2>3, StatusNames
<1>4. LaterPhasesFollow'
  <2> SUFFICES ASSUME batch'.phase # "initial", NEW s \in Subjects, FirstRun(s)'
               PROVE  A(s)' \in TerminalStatuses
    BY DEF LaterPhasesFollow
  <2>1. CASE batch.phase # "initial"
    <3>1. FirstRun(s) /\ A(s) \in TerminalStatuses
      BY <2>1 DEF RowInv, LaterPhasesFollow
    <3> QED
      BY <3>1
  <2> QED
    BY <2>1
<1> QED
  BY <1>2, <1>3, <1>4 DEF RowInv

(* Runs end, and nothing else happens.                                     *)
LEMMA RowsEnd ==
  ASSUME RowInv, batch' = batch, item' = item, run' \in Rows,
         \A r \in RunIds :
            /\ run'[r].gen = run[r].gen
            /\ run'[r].status = run[r].status \/ run'[r].status \in TerminalStatuses
  PROVE  RowInv'
<1>1. \A s \in Subjects : ItemRun(s)' = ItemRun(s)
  BY DEF ItemRun
<1>2. \A s \in Subjects :
        /\ ItemRun(s) \in RunIds
        /\ run'[ItemRun(s)].gen = run[ItemRun(s)].gen
        /\ \/ run'[ItemRun(s)].status = run[ItemRun(s)].status
           \/ run'[ItemRun(s)].status \in TerminalStatuses
  BY ItemRunType DEF RowInv
<1>3. \A s \in Subjects :
        /\ (run[ItemRun(s)].status)' = run'[ItemRun(s)].status
        /\ (run[ItemRun(s)].gen)' = run'[ItemRun(s)].gen
  BY <1>1
<1>4. \A s \in Subjects : FirstRun(s)' => FirstRun(s)
  BY <1>2, <1>3 DEF FirstRun
<1>5. ClosedBatchIsQuiet'
  BY <1>2, <1>3 DEF RowInv, ClosedBatchIsQuiet
<1>6. \A s \in Subjects : run[ItemRun(s)].status # "absent"
                            => (run[ItemRun(s)].status # "absent")'
  BY <1>1, <1>2, <1>3, StatusNames
<1>7. batch.status = "absent" => \A s \in Subjects : item[s].run = 0
  BY DEF RowInv, RunsExist
<1>8. batch \in Batches /\ item \in Items
  BY DEF RowInv
<1>9. batch'.phase = "initial" \/ batch.phase # "initial"
  OBVIOUS
<1> QED
  BY <1>2, <1>3, <1>4, <1>5, <1>6, <1>7, <1>8, <1>9, RowsSettle

(* One run ends.                                                           *)
LEMMA RowEnds ==
  ASSUME RowInv, batch' = batch, item' = item, NEW r \in RunIds, NEW x \in RunRow,
         run' = [run EXCEPT ![r] = x], x.gen = run[r].gen,
         x.status = run[r].status \/ x.status \in TerminalStatuses
  PROVE  RowInv'
<1>1. run \in Rows
  BY DEF RowInv
<1>2. /\ run' \in Rows /\ run'[r] = x
      /\ \A o \in RunIds : o # r => run'[o] = run[o]
  BY <1>1, RowSet
<1>3. \A o \in RunIds :
            /\ run'[o].gen = run[o].gen
            /\ run'[o].status = run[o].status \/ run'[o].status \in TerminalStatuses
  BY <1>2
<1> QED
  BY <1>2, <1>3, RowsEnd

(* Nothing happens to the rows.                                            *)
LEMMA RowsSame ==
  ASSUME RowInv, UNCHANGED <<batch, item, run>>
  PROVE  RowInv'
BY DEF RowInv, RunsExist, ClosedBatchIsQuiet, StartedInOrder, LaterPhasesFollow,
       FirstRun, ItemRun

-----------------------------------------------------------------------------
(* The transaction that moves the batch on.                                *)

(* The first subject of a set, in editorial order.                         *)
LEMMA FirstSubjectIs ==
  ASSUME NEW S \in SUBSET Subjects, S # {}
  PROVE  \E i \in DOMAIN Order :
            /\ FirstSubject(S) = Order[i] /\ Order[i] \in S
            /\ \A j \in DOMAIN Order : j < i => Order[j] \notin S
<1> DEFINE T == {i \in DOMAIN Order : Order[i] \in S}
<1>1. T \in SUBSET Nat
  BY Constants
<1>2. T # {}
  BY DEF Subjects
<1>3. \E i \in T : \A j \in T : i <= j
  <2> HIDE DEF T
  <2> QED
    BY <1>1, <1>2, LeastElement
<1>4. Min(T) \in T /\ \A j \in T : Min(T) <= j
  <2> HIDE DEF T
  <2> QED
    BY <1>3 DEF Min
<1>5. FirstSubject(S) = Order[Min(T)]
  BY DEF FirstSubject
<1>6. ASSUME NEW j \in DOMAIN Order, j < Min(T) PROVE Order[j] \notin S
  <2>1. ~(Min(T) <= j)
    <3>1. j \in Nat
      BY Constants
    <3> HIDE DEF T
    <3>2. Min(T) \in Nat
      BY <1>1, <1>4
    <3> QED
      BY <1>6, <3>1, <3>2
  <2> QED
    BY <1>4, <2>1
<1> HIDE DEF T
<1>7. Min(T) \in DOMAIN Order /\ Order[Min(T)] \in S
  BY <1>4 DEF T
<1> QED
  BY <1>5, <1>6, <1>7

ActiveSubjects == {s \in Subjects : run[ItemRun(s)].status \in ActiveRunStatuses}

(* A batch with an active run is not closed.                               *)
LEMMA ActiveBatchIsOpen ==
  ASSUME RowInv, ActiveSubjects # {}
  PROVE  batch.status \notin Finished \union {"cancelled"}
BY StatusNames DEF RowInv, ClosedBatchIsQuiet, ActiveSubjects

LEMMA BatchRecord ==
  ASSUME batch \in Batches
  PROVE  /\ batch.status \in BatchStatus /\ batch.started \in BOOLEAN
         /\ batch.phase \in {"initial", "recovery", "review"}
         /\ StartBatch(batch) \in Batches /\ EnterRecovery(batch) \in Batches
         /\ ResumedBatch(batch) \in Batches /\ OpenReviewRecovery(batch) \in Batches
         /\ \A x \in BOOLEAN : FinishBatch(batch, x) \in Batches
         /\ \A x \in BatchStatus : [batch EXCEPT !.status = x] \in Batches
<1>1. "running" \in BatchStatus /\ "queued" \in BatchStatus
      /\ "completed" \in BatchStatus /\ "completed_with_issues" \in BatchStatus
  BY DEF BatchStatus, Dispatchable, Finished
<1>2. /\ batch.status \in BatchStatus /\ batch.started \in BOOLEAN
      /\ batch.phase \in {"initial", "recovery", "review"}
  BY DEF Batches
<1>3. \A x \in BatchStatus : [batch EXCEPT !.status = x] \in Batches
  BY DEF Batches
<1>4. StartBatch(batch) \in Batches
  BY <1>1 DEF Batches, StartBatch
<1>5. EnterRecovery(batch) \in Batches
  BY DEF Batches, EnterRecovery
<1>6. ResumedBatch(batch) \in Batches
  BY <1>1, <1>3 DEF ResumedBatch
<1>7. OpenReviewRecovery(batch) \in Batches
  BY <1>1 DEF Batches, OpenReviewRecovery
<1>8. ASSUME NEW x \in BOOLEAN PROVE FinishBatch(batch, x) \in Batches
  BY <1>1 DEF Batches, FinishBatch
<1> QED
  BY <1>2, <1>3, <1>4, <1>5, <1>6, <1>7, <1>8

(* The next run is started, or the one that runs is left alone.            *)
LEMMA StartNextKeeps ==
  ASSUME RowInv, ActiveSubjects # {}, Write(StartNext(ActiveSubjects))
  PROVE  /\ RowInv' /\ StartNext(ActiveSubjects).next \in RunIds
         /\ \A r \in RunIds : run[r].status = "cancelled" => run'[r] = run[r]
<1> DEFINE A(s) == run[ItemRun(s)].status
<1>1. batch \in Batches /\ item \in Items /\ run \in Rows
  BY DEF RowInv
<1>2. PICK n \in DOMAIN Order :
         /\ FirstSubject(ActiveSubjects) = Order[n] /\ Order[n] \in ActiveSubjects
         /\ \A j \in DOMAIN Order : j < n => Order[j] \notin ActiveSubjects
  <2>1. ActiveSubjects \in SUBSET Subjects
    BY DEF ActiveSubjects
  <2> QED
    BY <2>1, FirstSubjectIs
<1> DEFINE f == Order[n]
           first == ItemRun(f)
<1>3. f \in Subjects /\ A(f) \in ActiveRunStatuses /\ first \in RunIds
  BY <1>1, <1>2, ItemRunType DEF ActiveSubjects
<1>4. StartNext(ActiveSubjects).next = first
  BY <1>2 DEF StartNext, Wrote
<1>5. CASE run[first].status # "queued"
  <2>1. batch' = batch /\ item' = item /\ run' = run
    BY <1>2, <1>5 DEF StartNext, Wrote, Write
  <2> QED
    BY <2>1, <1>3, <1>4, RowsSame
<1>6. CASE run[first].status = "queued"
  <2> DEFINE x == StartRunning(run[first])
  <2>1. batch' = StartBatch(batch) /\ item' = item /\ run' = [run EXCEPT ![first] = x]
    <3>1. StartNext(ActiveSubjects) =
            Wrote(StartBatch(batch), item,
                  [run EXCEPT ![first] = StartRunning(@)], first)
      BY <1>2, <1>6 DEF StartNext
    <3> QED
      BY <3>1 DEF Wrote, Write
  <2>2. x \in RunRow /\ x.status = "running" /\ x.gen = run[first].gen
    <3>1. run[first] \in RunRow
      BY <1>1, <1>3, RunFields
    <3> HIDE DEF first
    <3> QED
      BY <3>1, Marks
  <2>3. /\ run' \in Rows /\ run'[first] = x
        /\ \A o \in RunIds : o # first => run'[o] = run[o]
    <3> HIDE DEF x, first
    <3> QED
      BY <1>1, <1>3, <2>1, <2>2, RowSet
  <2>4. \A s \in Subjects : ItemRun(s)' = ItemRun(s) /\ ItemRun(s) \in RunIds
    BY <2>1, <1>1, ItemRunType DEF ItemRun
  <2>5. \A s \in Subjects : ItemRun(s) = first => s = f
    BY <1>1, <1>3, ItemRunType
  <2>6. \A s \in Subjects :
          /\ FirstRun(s)' <=> FirstRun(s)
          /\ s # f => (run[ItemRun(s)].status)' = A(s)
    BY <2>1, <2>2, <2>3, <2>4, <2>5 DEF FirstRun
  <2>7. (run[ItemRun(f)].status)' = "running"
    <3>1. ItemRun(f)' = first
      <4> HIDE DEF f
      <4> QED
        BY <1>3, <2>4
    <3>2. (run[ItemRun(f)].status)' = run'[first].status
      <4> HIDE DEF first, f
      <4> QED
        BY <3>1
    <3> HIDE DEF first, x
    <3> QED
      BY <2>2, <2>3, <3>2
  <2>8. /\ batch'.phase = batch.phase /\ batch'.status \notin Finished \union {"cancelled"}
        /\ batch'.status = "absent" <=> batch.status = "absent"
    BY <2>1, <1>1, ActiveBatchIsOpen, BatchRecord
       DEF StartBatch, Finished, BatchStatus, Dispatchable, Batches
  <2>9. batch' \in Batches /\ item' \in Items /\ run' \in Rows
    BY <1>1, <2>1, <2>3, BatchRecord
  <2>10. RunsExist'
    <3>1. ASSUME batch'.status # "absent", NEW s \in Subjects
          PROVE  (run[ItemRun(s)].status)' # "absent"
      <4>1. A(s) # "absent"
        BY <2>8, <3>1 DEF RowInv, RunsExist
      <4> HIDE DEF f
      <4> QED
        BY <4>1, <2>6, <2>7
    <3>2. ASSUME batch'.status = "absent"
          PROVE  batch'.phase = "initial" /\ \A s \in Subjects : item'[s].run = 0
      BY <2>1, <2>8, <3>2 DEF RowInv, RunsExist
    <3> QED
      BY <3>1, <3>2 DEF RunsExist
  <2>11. StartedInOrder'
    <3> SUFFICES ASSUME NEW i \in DOMAIN Order, NEW j \in DOMAIN Order, i < j,
                        FirstRun(Order[j])', (run[ItemRun(Order[j])].status)' = "running",
                        FirstRun(Order[i])'
                 PROVE  (run[ItemRun(Order[i])].status)' \notin ActiveRunStatuses
      BY DEF StartedInOrder
    <3>1. Order[i] \in Subjects /\ Order[j] \in Subjects
      BY DEF Subjects
    <3>2. FirstRun(Order[i]) /\ FirstRun(Order[j])
      BY <2>6, <3>1
    <3>3. CASE j = n
      <4>1. Order[i] \notin ActiveSubjects /\ Order[i] # f
        BY <1>2, <3>3, Constants
      <4> QED
        BY <4>1, <3>1, <2>6 DEF ActiveSubjects
    <3>4. CASE j # n
      <4>1. Order[j] # f /\ A(Order[j]) = "running"
        BY <1>2, <3>4, <3>1, <2>6, Constants
      <4>2. A(Order[i]) \notin ActiveRunStatuses
        BY <4>1, <3>2 DEF RowInv, StartedInOrder
      <4>3. Order[i] # f
        BY <4>2, <1>3
      <4> QED
        BY <4>2, <4>3, <2>6, <3>1
    <3> QED
      BY <3>3, <3>4
  <2>12. LaterPhasesFollow'
    <3> SUFFICES ASSUME batch'.phase # "initial", NEW s \in Subjects, FirstRun(s)'
                 PROVE  (run[ItemRun(s)].status)' \in TerminalStatuses
      BY DEF LaterPhasesFollow
    <3>1. FirstRun(s) /\ A(s) \in TerminalStatuses
      BY <2>6, <2>8 DEF RowInv, LaterPhasesFollow
    <3>2. s # f
      BY <3>1, <1>3, StatusNames
    <3> QED
      BY <3>1, <3>2, <2>6
  <2>13. ClosedBatchIsQuiet'
    BY <2>8 DEF ClosedBatchIsQuiet
  <2>14. RowInv'
    BY <2>9, <2>10, <2>11, <2>12, <2>13 DEF RowInv
  <2>15. \A r \in RunIds : run[r].status = "cancelled" => run'[r] = run[r]
    BY <2>3, <1>6
  <2> QED
    BY <2>14, <2>15, <1>3, <1>4
<1> QED
  BY <1>5, <1>6

RunningSubjects == {s \in Subjects : run[ItemRun(s)].status = "running"}
EligibleSubjects == {s \in Subjects : Eligible(s) /\ run[ItemRun(s)].gen < MaxGeneration}
Issues == \E s \in Subjects : run[ItemRun(s)].status # "ready"

(* The cases of the transaction.                                           *)
LEMMA OnSubjectTerminalIs ==
  /\ batch.status = "cancelled" =>
       OnSubjectTerminal = Wrote(batch, item, CancelQueued, NoRun)
  /\ batch.status = "paused" =>
       OnSubjectTerminal = Wrote(batch, item, run, IF RunningSubjects = {} THEN NoRun
                                        ELSE ItemRun(FirstSubject(RunningSubjects)))
  /\ batch.status \notin {"cancelled", "paused"} /\ ActiveSubjects # {} =>
       OnSubjectTerminal = StartNext(ActiveSubjects)
  /\ batch.status \notin {"cancelled", "paused"} /\ ActiveSubjects = {} =>
       \/ /\ batch.status = "running" /\ EligibleSubjects # {}
          /\ OnSubjectTerminal = RetryNextRecovery(EligibleSubjects)
       \/ /\ batch.status = "running"
          /\ OnSubjectTerminal = Wrote(FinishBatch(batch, Issues), item, run, NoRun)
       \/ OnSubjectTerminal = Raised
       \/ OnSubjectTerminal = Wrote(batch, item, run, NoRun)
<1> DEFINE D == OnSubjectTerminal
<1>1. D = CASE batch.status = "cancelled" -> Wrote(batch, item, CancelQueued, NoRun)
            [] batch.status = "paused" ->
                  Wrote(batch, item, run, IF RunningSubjects = {} THEN NoRun
                                          ELSE ItemRun(FirstSubject(RunningSubjects)))
            [] batch.status \notin {"cancelled", "paused"} /\ ActiveSubjects # {} ->
                  StartNext(ActiveSubjects)
            [] batch.status = "running" /\ ActiveSubjects = {}
               /\ batch.phase # "review" /\ EligibleSubjects # {} ->
                  RetryNextRecovery(EligibleSubjects)
            [] batch.status = "running" /\ ActiveSubjects = {}
               /\ ~(batch.phase # "review" /\ EligibleSubjects # {}) ->
                  Wrote(FinishBatch(batch, Issues), item, run, NoRun)
            [] batch.status = "queued" /\ ActiveSubjects = {} -> Raised
            [] OTHER -> Wrote(batch, item, run, NoRun)
  BY Zenon DEF OnSubjectTerminal, ActiveSubjects, RunningSubjects, EligibleSubjects, Issues
<1> HIDE DEF D
<1>2. batch.status = "cancelled" => D = Wrote(batch, item, CancelQueued, NoRun)
  BY <1>1
<1>3. batch.status = "paused" =>
        D = Wrote(batch, item, run, IF RunningSubjects = {} THEN NoRun
                                    ELSE ItemRun(FirstSubject(RunningSubjects)))
  BY <1>1
<1>4. batch.status \notin {"cancelled", "paused"} /\ ActiveSubjects # {} =>
        D = StartNext(ActiveSubjects)
  BY <1>1
<1>5. batch.status \notin {"cancelled", "paused"} /\ ActiveSubjects = {} =>
       \/ /\ batch.status = "running" /\ EligibleSubjects # {}
          /\ D = RetryNextRecovery(EligibleSubjects)
       \/ /\ batch.status = "running"
          /\ D = Wrote(FinishBatch(batch, Issues), item, run, NoRun)
       \/ D = Raised
       \/ D = Wrote(batch, item, run, NoRun)
  BY <1>1
<1> QED
  BY <1>2, <1>3, <1>4, <1>5 DEF D

LEMMA WroteIs ==
  ASSUME NEW b, NEW i, NEW rs, NEW n
  PROVE  /\ Wrote(b, i, rs, n).batch = b /\ Wrote(b, i, rs, n).item = i
         /\ Wrote(b, i, rs, n).run = rs /\ Wrote(b, i, rs, n).next = n
         /\ ~Wrote(b, i, rs, n).raised
BY DEF Wrote

(* When no run of a batch is active, each has ended.                       *)
LEMMA AllEnded ==
  ASSUME RowInv, batch.status # "absent", ActiveSubjects = {}, NEW s \in Subjects
  PROVE  run[ItemRun(s)].status \in TerminalStatuses
<1>1. run[ItemRun(s)].status # "absent"
  BY DEF RowInv, RunsExist
<1>2. run[ItemRun(s)].status \in ActiveRunStatuses \union TerminalStatuses \union {"absent"}
  BY RunFields, ItemRunType DEF RowInv
<1> QED
  BY <1>1, <1>2 DEF ActiveSubjects

(* A cancelled batch cancels what waits.                                   *)
LEMMA CancelQueuedKeeps ==
  ASSUME RowInv, batch' = batch, item' = item, run' = CancelQueued
  PROVE  /\ RowInv'
         /\ \A r \in RunIds : run[r].status = "cancelled" => run'[r] = run[r]
<1>1. run \in Rows
  BY DEF RowInv
<1>2. ASSUME NEW r \in RunIds
      PROVE  /\ run'[r] = run[r] \/ (run'[r] = MarkCancelled(run[r]) /\ run[r].status = "queued")
             /\ run'[r] \in RunRow
  <2>1. run[r] \in RunRow
    BY <1>1, RunFields
  <2>2. run'[r] = IF Attached(r) /\ run[r].status = "queued"
                  THEN MarkCancelled(run[r]) ELSE run[r]
    BY DEF CancelQueued
  <2> QED
    BY <2>1, <2>2, Marks
<1>3. run' \in Rows
  BY <1>2 DEF Rows, CancelQueued
<1>4. ASSUME NEW r \in RunIds
      PROVE  /\ run'[r].gen = run[r].gen
             /\ run'[r].status = run[r].status \/ run'[r].status \in TerminalStatuses
  <2>1. run[r] \in RunRow
    BY <1>1, RunFields
  <2>2. CASE run'[r] = run[r]
    BY <2>2
  <2>3. CASE run'[r] = MarkCancelled(run[r])
    BY <2>1, <2>3, Marks, StatusNames
  <2> QED
    BY <2>2, <2>3, <1>2
<1>5. \A r \in RunIds : run[r].status = "cancelled" => run'[r] = run[r]
  BY <1>2
<1>6. RowInv'
  BY <1>3, <1>4, RowsEnd
<1> QED
  BY <1>5, <1>6

(* A run is opened in a new generation, in a batch that is not closed.     *)
LEMMA GenerationKeeps ==
  ASSUME RowInv, batch' \in Batches, item' \in Items, NEW r \in RunIds, NEW st \in Stages,
         run[r].gen < MaxGeneration, run' = [run EXCEPT ![r] = NewGeneration(@, st)],
         \A s \in Subjects : item'[s].run = item[s].run,
         batch'.status = "absent" <=> batch.status = "absent",
         batch.status = "absent" => batch'.phase = batch.phase,
         \/ batch'.status \notin Finished \union {"cancelled"}
         \/ batch' = batch /\ \A s \in Subjects : ItemRun(s) # r,
         \/ batch'.phase = batch.phase
         \/ \A s \in Subjects : run[ItemRun(s)].status \in TerminalStatuses
  PROVE  RowInv'
<1> DEFINE x == NewGeneration(run[r], st)
<1>1. batch \in Batches /\ item \in Items /\ run \in Rows
  BY DEF RowInv
<1>2. x \in RunRow /\ x.status = "running" /\ x.gen > 0
  <2>1. run[r] \in RunRow
    BY <1>1, RunFields
  <2> QED
    BY <2>1, NextRows
<1>3. /\ run' \in Rows /\ run'[r] = x
      /\ \A o \in RunIds : o # r => run'[o] = run[o]
  <2> HIDE DEF x
  <2>1. run' = [run EXCEPT ![r] = x]
    BY DEF x
  <2> QED
    BY <1>1, <1>2, <2>1, RowSet
<1> HIDE DEF x
<1>4. \A s \in Subjects : ItemRun(s)' = ItemRun(s) /\ ItemRun(s) \in RunIds
  BY <1>1, ItemRunType DEF ItemRun
<1>5. ASSUME NEW s \in Subjects
      PROVE  (run[ItemRun(s)].status)' = run'[ItemRun(s)].status
             /\ (run[ItemRun(s)].gen)' = run'[ItemRun(s)].gen
  BY <1>4
<1>6. ASSUME NEW s \in Subjects, FirstRun(s)'
      PROVE  /\ FirstRun(s) /\ ItemRun(s) # r
             /\ run'[ItemRun(s)].status = run[ItemRun(s)].status
  <2>1. run'[ItemRun(s)].gen = 0
    BY <1>5, <1>6 DEF FirstRun
  <2>2. ItemRun(s) # r
    BY <2>1, <1>2, <1>3
  <2>3. run'[ItemRun(s)] = run[ItemRun(s)]
    BY <2>2, <1>3, <1>4
  <2> QED
    BY <2>1, <2>2, <2>3, <1>6 DEF FirstRun
<1>7. ASSUME NEW s \in Subjects, run[ItemRun(s)].status # "absent"
      PROVE  (run[ItemRun(s)].status # "absent")'
  BY <1>2, <1>3, <1>4, <1>5, <1>7
<1>8. ClosedBatchIsQuiet'
  <2>1. CASE batch'.status \notin Finished \union {"cancelled"}
    BY <2>1 DEF ClosedBatchIsQuiet
  <2>2. CASE batch' = batch /\ \A s \in Subjects : ItemRun(s) # r
    <3>1. \A s \in Subjects : (run[ItemRun(s)].status)' = run[ItemRun(s)].status
      BY <2>2, <1>3, <1>4, <1>5
    <3> QED
      BY <2>2, <3>1 DEF RowInv, ClosedBatchIsQuiet
  <2> QED
    BY <2>1, <2>2
<1>9. batch.status = "absent" => \A s \in Subjects : item'[s].run = 0
  BY DEF RowInv, RunsExist
<1>10. \/ batch'.phase = "initial" \/ batch.phase # "initial"
       \/ \A s \in Subjects : FirstRun(s)' => (run[ItemRun(s)].status)' \in TerminalStatuses
  BY <1>5, <1>6
<1>11. \A s \in Subjects : FirstRun(s)' =>
            /\ FirstRun(s)
            /\ \/ (run[ItemRun(s)].status)' = run[ItemRun(s)].status
               \/ (run[ItemRun(s)].status)' \in TerminalStatuses
  BY <1>5, <1>6
<1> QED
  BY <1>3, <1>7, <1>8, <1>9, <1>10, <1>11, RowsSettle

(* The automatic recovery opens a generation of a run that failed.         *)
LEMMA RetryKeeps ==
  ASSUME RowInv, batch.status = "running", ActiveSubjects = {}, EligibleSubjects # {},
         Write(RetryNextRecovery(EligibleSubjects))
  PROVE  /\ RowInv' /\ RetryNextRecovery(EligibleSubjects).next \in RunIds
         /\ \A r \in RunIds : run[r].status = "cancelled" => run'[r] = run[r]
<1>1. batch \in Batches /\ item \in Items /\ run \in Rows
  BY DEF RowInv
<1>2. EligibleSubjects \in SUBSET Subjects
  BY DEF EligibleSubjects
<1>3. PICK n \in DOMAIN Order :
         /\ FirstSubject(EligibleSubjects) = Order[n] /\ Order[n] \in EligibleSubjects
         /\ \A j \in DOMAIN Order : j < n => Order[j] \notin EligibleSubjects
  BY <1>2, FirstSubjectIs
<1> DEFINE s == Order[n]
           r == ItemRun(s)
<1>4. s \in Subjects /\ r \in RunIds /\ run[r].gen < MaxGeneration
      /\ run[r].status \in {"failed", "needs_review"}
  BY <1>1, <1>3, ItemRunType DEF EligibleSubjects, Eligible
<1>5. RetryNextRecovery(EligibleSubjects) =
        Wrote(EnterRecovery(batch), [item EXCEPT ![s].auto = 1],
              [run EXCEPT ![r] = NewGeneration(@, @.stage)], r)
  BY <1>3 DEF RetryNextRecovery
<1>6. /\ batch' = EnterRecovery(batch) /\ item' = [item EXCEPT ![s].auto = 1]
      /\ run' = [run EXCEPT ![r] = NewGeneration(@, @.stage)]
      /\ RetryNextRecovery(EligibleSubjects).next = r
  BY <1>5, WroteIs DEF Write
<1> HIDE DEF r
<1>7. item' \in Items /\ \A t \in Subjects : item'[t].run = item[t].run
  BY <1>1, <1>4, <1>6 DEF Items
<1>8. batch' \in Batches
  BY <1>1, <1>6, BatchRecord
<1>9. batch'.status = batch.status
  BY <1>1, <1>6 DEF EnterRecovery, Batches
<1>10. batch'.status \notin Finished \union {"cancelled"}
  BY <1>9 DEF Finished
<1>11. \A t \in Subjects : run[ItemRun(t)].status \in TerminalStatuses
  BY AllEnded
<1>12. run[r].stage \in Stages
  BY <1>1, <1>4, RunFields
<1>13. run' = [run EXCEPT ![r] = NewGeneration(@, run[r].stage)]
  BY <1>6
<1>14. RowInv'
  BY <1>4, <1>7, <1>8, <1>9, <1>10, <1>11, <1>12, <1>13, GenerationKeeps
<1>15. \A o \in RunIds : run[o].status = "cancelled" => run'[o] = run[o]
  BY <1>1, <1>4, <1>6 DEF Rows
<1> QED
  BY <1>4, <1>6, <1>14, <1>15

(* A batch whose runs have all ended is finished.                          *)
LEMMA FinishKeeps ==
  ASSUME RowInv, batch.status = "running", ActiveSubjects = {}, NEW issues \in BOOLEAN,
         batch' = FinishBatch(batch, issues), item' = item, run' = run
  PROVE  RowInv'
<1>1. batch \in Batches /\ item \in Items /\ run \in Rows
  BY DEF RowInv
<1>2. batch' \in Batches
  BY <1>1, BatchRecord
<1>3. batch'.status # "absent"
  BY <1>1 DEF FinishBatch, Batches
<1>4. \A s \in Subjects : /\ run[ItemRun(s)].status \in TerminalStatuses
                          /\ ItemRun(s)' = ItemRun(s)
  BY AllEnded DEF ItemRun
<1>5. ClosedBatchIsQuiet'
  BY <1>4 DEF ClosedBatchIsQuiet
<1>6. \A s \in Subjects : /\ (run[ItemRun(s)].status)' = run[ItemRun(s)].status
                          /\ FirstRun(s)' => FirstRun(s)
  BY <1>4 DEF FirstRun
<1> QED
  BY <1>1, <1>2, <1>3, <1>4, <1>5, <1>6, RowsSettle

LEMMA OnSubjectTerminalKeeps ==
  ASSUME RowInv, batch.status # "absent", Write(OnSubjectTerminal)
  PROVE  /\ RowInv' /\ OnSubjectTerminal.next \in RunIds \union {NoRun}
         /\ \A r \in RunIds : run[r].status = "cancelled" => run'[r] = run[r]
<1>1. batch \in Batches /\ item \in Items /\ run \in Rows
  BY DEF RowInv
<1>2. ASSUME NEW n, n \in RunIds \union {NoRun}, OnSubjectTerminal = Wrote(batch, item, run, n)
      PROVE  /\ RowInv' /\ OnSubjectTerminal.next \in RunIds \union {NoRun}
             /\ \A r \in RunIds : run[r].status = "cancelled" => run'[r] = run[r]
  <2>1. batch' = batch /\ item' = item /\ run' = run /\ OnSubjectTerminal.next = n
    BY <1>2, WroteIs DEF Write
  <2> QED
    BY <2>1, <1>2, RowsSame
<1>3. CASE batch.status = "cancelled"
  <2>1. OnSubjectTerminal = Wrote(batch, item, CancelQueued, NoRun)
    BY <1>3, OnSubjectTerminalIs
  <2>2. batch' = batch /\ item' = item /\ run' = CancelQueued
        /\ OnSubjectTerminal.next = NoRun
    BY <2>1, WroteIs DEF Write
  <2> QED
    BY <2>2, CancelQueuedKeeps
<1>4. CASE batch.status = "paused"
  <2> DEFINE n == IF RunningSubjects = {} THEN NoRun
                  ELSE ItemRun(FirstSubject(RunningSubjects))
  <2>1. OnSubjectTerminal = Wrote(batch, item, run, n)
    BY <1>4, OnSubjectTerminalIs
  <2>2. n \in RunIds \union {NoRun}
    <3>1. RunningSubjects \in SUBSET Subjects
      BY DEF RunningSubjects
    <3>2. RunningSubjects # {} => FirstSubject(RunningSubjects) \in Subjects
      BY <3>1, FirstSubjectIs
    <3> QED
      BY <3>2, <1>1, ItemRunType
  <2> HIDE DEF n
  <2> QED
    BY <2>1, <2>2, <1>2
<1>5. CASE batch.status \notin {"cancelled", "paused"} /\ ActiveSubjects # {}
  <2>1. OnSubjectTerminal = StartNext(ActiveSubjects)
    BY <1>5, OnSubjectTerminalIs
  <2> QED
    BY <2>1, <1>5, StartNextKeeps
<1>6. CASE batch.status \notin {"cancelled", "paused"} /\ ActiveSubjects = {}
  <2>1. CASE batch.status = "running" /\ EligibleSubjects # {}
             /\ OnSubjectTerminal = RetryNextRecovery(EligibleSubjects)
    BY <2>1, <1>6, RetryKeeps
  <2>2. CASE batch.status = "running"
             /\ OnSubjectTerminal = Wrote(FinishBatch(batch, Issues), item, run, NoRun)
    <3>1. batch' = FinishBatch(batch, Issues) /\ item' = item /\ run' = run
          /\ OnSubjectTerminal.next = NoRun
      BY <2>2, WroteIs DEF Write
    <3>2. Issues \in BOOLEAN
      BY DEF Issues
    <3>3. RowInv'
      BY <3>1, <3>2, <2>2, <1>6, FinishKeeps
    <3> QED
      BY <3>1, <3>3
  <2>3. CASE OnSubjectTerminal = Raised
    <3>1. batch' = batch /\ item' = item /\ run' = run /\ OnSubjectTerminal.next = NoRun
      BY <2>3 DEF Write, Raised
    <3> QED
      BY <3>1, RowsSame
  <2>4. CASE OnSubjectTerminal = Wrote(batch, item, run, NoRun)
    BY <2>4, <1>2
  <2> QED
    BY <1>6, <2>1, <2>2, <2>3, <2>4, OnSubjectTerminalIs
<1> QED
  BY <1>3, <1>4, <1>5, <1>6

-----------------------------------------------------------------------------
(* The jobs.                                                               *)

SoundJob == {j \in Job : /\ j.st = "queued" => j.attempt < MaxAttempts
                         /\ j.st = "running" => j.attempt > 0}
JobRows == [JobKeys -> SoundJob]

JobSt == {"absent", "queued", "running", "done"}
JobExits == {"succeed", "finalize", "fail"}
JobNext == RunIds \union {NoRun}

LEMMA JobIs == Job = [st : JobSt, attempt : 0..MaxAttempts, cancel : BOOLEAN,
                      pc : HandlerPcs, gen : 0..MaxGeneration, out : Outcomes,
                      err : ErrorCodes, exit : JobExits, next : JobNext, stage : Stages]
BY DEF Job, JobSt, JobExits, JobNext

LEMMA JobFields ==
  ASSUME NEW j \in Job
  PROVE  /\ j.st \in JobSt /\ j.attempt \in 0..MaxAttempts /\ j.cancel \in BOOLEAN
         /\ j.pc \in HandlerPcs /\ j.gen \in 0..MaxGeneration /\ j.out \in Outcomes
         /\ j.err \in ErrorCodes /\ j.exit \in JobExits /\ j.next \in JobNext
         /\ j.stage \in Stages
BY JobIs

(* What is written to a job that runs keeps it running, at its attempt.    *)
LEMMA JobWrites ==
  ASSUME NEW j \in SoundJob
  PROVE  /\ \A x \in HandlerPcs : [j EXCEPT !.pc = x] \in SoundJob
         /\ \A x \in 0..MaxGeneration : [j EXCEPT !.gen = x] \in SoundJob
         /\ \A x \in Outcomes : [j EXCEPT !.out = x] \in SoundJob
         /\ \A x \in ErrorCodes : [j EXCEPT !.err = x] \in SoundJob
         /\ \A x \in JobExits : [j EXCEPT !.exit = x] \in SoundJob
         /\ \A x \in JobNext : [j EXCEPT !.next = x] \in SoundJob
         /\ \A x \in Stages : [j EXCEPT !.stage = x] \in SoundJob
         /\ [j EXCEPT !.cancel = TRUE] \in SoundJob
<1>1. ASSUME NEW x \in HandlerPcs PROVE [j EXCEPT !.pc = x] \in SoundJob
  BY JobIs DEF SoundJob
<1>2. ASSUME NEW x \in 0..MaxGeneration PROVE [j EXCEPT !.gen = x] \in SoundJob
  BY JobIs DEF SoundJob
<1>3. ASSUME NEW x \in Outcomes PROVE [j EXCEPT !.out = x] \in SoundJob
  BY JobIs DEF SoundJob
<1>4. ASSUME NEW x \in ErrorCodes PROVE [j EXCEPT !.err = x] \in SoundJob
  BY JobIs DEF SoundJob
<1>5. ASSUME NEW x \in JobExits PROVE [j EXCEPT !.exit = x] \in SoundJob
  BY JobIs DEF SoundJob
<1>6. ASSUME NEW x \in JobNext PROVE [j EXCEPT !.next = x] \in SoundJob
  BY JobIs DEF SoundJob
<1>7. ASSUME NEW x \in Stages PROVE [j EXCEPT !.stage = x] \in SoundJob
  BY JobIs DEF SoundJob
<1>8. [j EXCEPT !.cancel = TRUE] \in SoundJob
  BY JobIs DEF SoundJob
<1> QED
  BY <1>1, <1>2, <1>3, <1>4, <1>5, <1>6, <1>7, <1>8

(* What more than one field of a running job is written to.                *)
LEMMA JobWritten ==
  ASSUME NEW j \in SoundJob, NEW pc \in HandlerPcs
  PROVE  /\ \A x \in ErrorCodes : [j EXCEPT !.pc = pc, !.err = x] \in SoundJob
         /\ \A x \in 0..MaxGeneration : [j EXCEPT !.pc = pc, !.gen = x] \in SoundJob
         /\ \A x \in JobNext : [j EXCEPT !.pc = pc, !.next = x] \in SoundJob
         /\ \A x \in Outcomes : [j EXCEPT !.pc = pc, !.out = x] \in SoundJob
         /\ \A x \in Outcomes, y \in ErrorCodes :
              [j EXCEPT !.pc = pc, !.out = x, !.err = y] \in SoundJob
         /\ \A x \in Outcomes, y \in JobNext :
              [j EXCEPT !.pc = pc, !.out = x, !.next = y] \in SoundJob
         /\ \A x \in Outcomes, y \in JobNext, z \in ErrorCodes :
              [j EXCEPT !.pc = pc, !.out = x, !.next = y, !.err = z] \in SoundJob
         /\ \A x \in Outcomes, y \in JobExits, z \in 0..MaxGeneration, w \in ErrorCodes :
              [j EXCEPT !.pc = pc, !.out = x, !.exit = y, !.gen = z, !.err = w] \in SoundJob
         /\ \A x \in Outcomes, y \in 0..MaxGeneration, z \in Stages :
              [j EXCEPT !.pc = pc, !.out = x, !.gen = y, !.stage = z] \in SoundJob
<1>1. [j EXCEPT !.pc = pc] \in SoundJob
  BY JobWrites
<1>2. ASSUME NEW x \in ErrorCodes PROVE [j EXCEPT !.pc = pc, !.err = x] \in SoundJob
  BY <1>1, JobWrites
<1>3. ASSUME NEW x \in 0..MaxGeneration PROVE [j EXCEPT !.pc = pc, !.gen = x] \in SoundJob
  BY <1>1, JobWrites
<1>4. ASSUME NEW x \in JobNext PROVE [j EXCEPT !.pc = pc, !.next = x] \in SoundJob
  BY <1>1, JobWrites
<1>5. ASSUME NEW x \in Outcomes PROVE [j EXCEPT !.pc = pc, !.out = x] \in SoundJob
  BY <1>1, JobWrites
<1>6. ASSUME NEW x \in Outcomes, NEW y \in ErrorCodes
      PROVE  [j EXCEPT !.pc = pc, !.out = x, !.err = y] \in SoundJob
  BY <1>5, JobWrites
<1>7. ASSUME NEW x \in Outcomes, NEW y \in JobNext
      PROVE  [j EXCEPT !.pc = pc, !.out = x, !.next = y] \in SoundJob
  BY <1>5, JobWrites
<1>8. ASSUME NEW x \in Outcomes, NEW y \in JobNext, NEW z \in ErrorCodes
      PROVE  [j EXCEPT !.pc = pc, !.out = x, !.next = y, !.err = z] \in SoundJob
  BY <1>7, JobWrites
<1>9. ASSUME NEW x \in Outcomes, NEW y \in JobExits, NEW z \in 0..MaxGeneration,
             NEW w \in ErrorCodes
      PROVE  [j EXCEPT !.pc = pc, !.out = x, !.exit = y, !.gen = z, !.err = w] \in SoundJob
  <2>1. [j EXCEPT !.pc = pc, !.out = x, !.exit = y] \in SoundJob
    BY <1>5, JobWrites
  <2>2. [j EXCEPT !.pc = pc, !.out = x, !.exit = y, !.gen = z] \in SoundJob
    BY <2>1, JobWrites
  <2> QED
    BY <2>2, JobWrites
<1>10. ASSUME NEW x \in Outcomes, NEW y \in 0..MaxGeneration, NEW z \in Stages
       PROVE  [j EXCEPT !.pc = pc, !.out = x, !.gen = y, !.stage = z] \in SoundJob
  <2>1. [j EXCEPT !.pc = pc, !.out = x, !.gen = y] \in SoundJob
    BY <1>5, JobWrites
  <2> QED
    BY <2>1, JobWrites
<1> QED
  BY <1>2, <1>3, <1>4, <1>5, <1>6, <1>7, <1>8, <1>9, <1>10

LEMMA Names ==
  /\ HandlerPcs = {"none", "fence", "begin", "work", "judge", "apply", "chain",
                   "advance", "handoff", "finalize", "lost"}
  /\ Outcomes = {"none", "success", "transient", "review", "failed"}
  /\ ErrorCodes = {"none", "auto", "manual"}
  /\ JobExits = {"succeed", "finalize", "fail"}
  /\ NoRun \in JobNext /\ RunIds \subseteq JobNext
BY DEF HandlerPcs, Outcomes, ErrorCodes, JobExits, JobNext

(* Jobs that begin, end, or go back to the queue.                          *)
LEMMA NewJobs ==
  /\ NoHandler \in SoundJob /\ QueuedJob \in SoundJob /\ DoneJob \in SoundJob
  /\ \A n \in 0..MaxAttempts : n < MaxAttempts =>
       [QueuedJob EXCEPT !.attempt = n] \in SoundJob
  /\ \A j \in SoundJob : j.st = "running" =>
       [NoHandler EXCEPT !.st = "running", !.attempt = j.attempt,
                         !.cancel = j.cancel, !.pc = "lost"] \in SoundJob
  /\ \A j \in SoundJob : j.st = "queued" =>
       [j EXCEPT !.st = "running", !.attempt = @ + 1, !.pc = "fence"] \in SoundJob
<1>1. ASSUME NEW j \in Job
      PROVE  /\ \A x \in JobSt : /\ [j EXCEPT !.st = x] \in Job
                                /\ [j EXCEPT !.st = x].st = x
                                /\ [j EXCEPT !.st = x].attempt = j.attempt
             /\ \A x \in 0..MaxAttempts : /\ [j EXCEPT !.attempt = x] \in Job
                                          /\ [j EXCEPT !.attempt = x].st = j.st
                                          /\ [j EXCEPT !.attempt = x].attempt = x
             /\ \A x \in BOOLEAN : /\ [j EXCEPT !.cancel = x] \in Job
                                   /\ [j EXCEPT !.cancel = x].st = j.st
                                   /\ [j EXCEPT !.cancel = x].attempt = j.attempt
  BY JobIs
<1>2. NoHandler \in Job /\ NoHandler.st = "absent" /\ NoHandler.attempt = 0
  <2>1. /\ "absent" \in JobSt /\ "none" \in HandlerPcs /\ "none" \in Outcomes
        /\ "none" \in ErrorCodes /\ "succeed" \in JobExits /\ NoRun \in JobNext
        /\ 1 \in Stages /\ 0 \in 0..MaxGeneration /\ 0 \in 0..MaxAttempts
    BY Names, Constants DEF JobSt
  <2> QED
    BY <2>1, JobIs DEF NoHandler
<1>3. /\ "absent" \in JobSt /\ "queued" \in JobSt /\ "running" \in JobSt /\ "done" \in JobSt
      /\ "none" \in HandlerPcs /\ "lost" \in HandlerPcs /\ "fence" \in HandlerPcs
      /\ 0 \in 0..MaxAttempts /\ 0 < MaxAttempts
  BY Constants DEF JobSt, HandlerPcs
<1>4. /\ QueuedJob \in Job /\ QueuedJob.st = "queued" /\ QueuedJob.attempt = 0
      /\ DoneJob \in Job /\ DoneJob.st = "done" /\ DoneJob.attempt = 0
  BY <1>1, <1>2, <1>3 DEF QueuedJob, DoneJob
<1>5. NoHandler \in SoundJob /\ QueuedJob \in SoundJob /\ DoneJob \in SoundJob
  BY <1>2, <1>3, <1>4 DEF SoundJob
<1>6. ASSUME NEW n \in 0..MaxAttempts, n < MaxAttempts
      PROVE  [QueuedJob EXCEPT !.attempt = n] \in SoundJob
  BY <1>1, <1>6, <1>4 DEF SoundJob
<1>7. ASSUME NEW j \in SoundJob, j.st = "running"
      PROVE  [NoHandler EXCEPT !.st = "running", !.attempt = j.attempt,
                               !.cancel = j.cancel, !.pc = "lost"] \in SoundJob
  <2>1. j.attempt \in 0..MaxAttempts /\ j.attempt > 0 /\ j.cancel \in BOOLEAN
    BY <1>7, JobFields DEF SoundJob
  <2> DEFINE u == [NoHandler EXCEPT !.st = "running"]
             v == [u EXCEPT !.attempt = j.attempt]
             w == [v EXCEPT !.cancel = j.cancel]
  <2>2. u \in Job /\ u.st = "running"
    BY <1>1, <1>2, <1>3
  <2>3. v \in Job /\ v.st = "running" /\ v.attempt = j.attempt
    <3> HIDE DEF u
    <3> QED
      BY <1>1, <2>1, <2>2
  <2>4. w \in SoundJob
    <3>1. w \in Job /\ w.st = "running" /\ w.attempt = j.attempt
      <4> HIDE DEF v
      <4> QED
        BY <1>1, <2>1, <2>3
    <3> HIDE DEF w
    <3> QED
      BY <2>1, <3>1 DEF SoundJob
  <2>5. [w EXCEPT !.pc = "lost"] \in SoundJob
    <3> HIDE DEF w
    <3> QED
      BY <2>4, <1>3, JobWrites
  <2> QED
    BY <2>5
<1>8. ASSUME NEW j \in SoundJob, j.st = "queued"
      PROVE  [j EXCEPT !.st = "running", !.attempt = @ + 1, !.pc = "fence"] \in SoundJob
  <2>1. j.attempt \in 0..MaxAttempts /\ j.attempt < MaxAttempts /\ MaxAttempts \in Nat
    BY <1>8, JobFields, Constants DEF SoundJob
  <2>2. j.attempt + 1 \in 0..MaxAttempts /\ j.attempt + 1 > 0
    BY <2>1
  <2> DEFINE n == j.attempt + 1
             w == [j EXCEPT !.st = "running", !.attempt = n]
  <2>3. w \in SoundJob
    <3>1. j \in Job
      BY DEF SoundJob
    <3>2. n \in 0..MaxAttempts /\ n > 0
      BY <2>2
    <3> HIDE DEF n
    <3>3. w \in Job /\ w.st = "running" /\ w.attempt = n
      BY <3>1, <3>2, <1>3, JobIs
    <3> HIDE DEF w
    <3> QED
      BY <3>2, <3>3 DEF SoundJob
  <2>4. [w EXCEPT !.pc = "fence"] \in SoundJob
    <3> HIDE DEF w
    <3> QED
      BY <2>3, <1>3, JobWrites
  <2> QED
    BY <2>4
<1> QED
  BY <1>6, <1>7, <1>8, <1>5

LEMMA JobSet ==
  ASSUME NEW js \in JobRows, NEW k, NEW x \in SoundJob
  PROVE  [js EXCEPT ![k] = x] \in JobRows
BY DEF JobRows

LEMMA JobSaved ==
  ASSUME jobs \in JobRows, NEW k
  PROVE  \A x \in SoundJob : Set(k, x) => jobs' \in JobRows
<1> SUFFICES ASSUME NEW x \in SoundJob, Set(k, x) PROVE jobs' \in JobRows
  OBVIOUS
<1>1. jobs' = [jobs EXCEPT ![k] = x]
  BY DEF Set
<1>2. [jobs EXCEPT ![k] = x] \in JobRows
  BY JobSet
<1> QED
  BY <1>1, <1>2

(* A submission adds a job, a withdrawal ends one or asks it to end.       *)
LEMMA SubmissionsSound ==
  ASSUME NEW js \in JobRows, NEW k
  PROVE  Submitted(js, k) \in JobRows /\ Withdrawn(js, k) \in JobRows
<1>1. [js EXCEPT ![k] = QueuedJob] \in JobRows /\ [js EXCEPT ![k] = DoneJob] \in JobRows
  BY JobSet, NewJobs
<1>2. [js EXCEPT ![k].cancel = TRUE] \in JobRows
  <2>1. CASE k \in JobKeys
    <3>1. [js[k] EXCEPT !.cancel = TRUE] \in SoundJob
      BY <2>1, JobWrites DEF JobRows
    <3>2. [js EXCEPT ![k].cancel = TRUE] = [js EXCEPT ![k] = [js[k] EXCEPT !.cancel = TRUE]]
      OBVIOUS
    <3> QED
      BY <3>1, <3>2, JobSet
  <2>2. CASE k \notin JobKeys
    BY <2>2 DEF JobRows
  <2> QED
    BY <2>1, <2>2
<1>3. Submitted(js, k) \in JobRows
  BY <1>1 DEF Submitted
<1>4. Withdrawn(js, k) \in JobRows
  <2>1. Withdrawn(js, k) \in {js, [js EXCEPT ![k] = DoneJob], [js EXCEPT ![k].cancel = TRUE]}
    BY DEF Withdrawn
  <2> QED
    BY <2>1, <1>1, <1>2
<1> QED
  BY <1>3, <1>4

(* How handlers end.                                                       *)
LEMMA EndingsSound ==
  ASSUME jobs \in JobRows, NEW k \in JobKeys
  PROVE  /\ AfterHandover(jobs[k]) \in SoundJob /\ AfterException(jobs[k]) \in SoundJob
         /\ \A x \in JobExits : /\ Ending(k, x) \in SoundJob
                                /\ [Ending(k, x) EXCEPT !.err = "none"] \in SoundJob
<1>1. jobs[k] \in SoundJob
  BY DEF JobRows
<1>2. jobs[k] \in Job /\ jobs[k].err \in ErrorCodes
  BY <1>1, JobFields DEF SoundJob
<1>3. /\ "finalize" \in HandlerPcs /\ "advance" \in HandlerPcs /\ "none" \in Outcomes
      /\ NoRun \in JobNext /\ "manual" \in ErrorCodes /\ "none" \in ErrorCodes
      /\ 0 \in 0..MaxGeneration
  BY Names, Constants
<1>4. AfterHandover(jobs[k]) \in SoundJob
  BY <1>1, <1>3, JobWritten, NewJobs DEF AfterHandover
<1>5. AfterException(jobs[k]) \in SoundJob
  BY <1>1, <1>3, JobWritten, NewJobs DEF AfterException
<1>6. ASSUME NEW x \in JobExits PROVE Ending(k, x) \in SoundJob
  <2> DEFINE w == IF x = "succeed" THEN "none" ELSE jobs[k].err
  <2>1. w \in ErrorCodes
    BY <1>2, <1>3
  <2>2. Ending(k, x) = [jobs[k] EXCEPT !.pc = "advance", !.out = "none", !.exit = x,
                                       !.gen = 0, !.err = w]
    BY DEF Ending
  <2>3. "advance" \in HandlerPcs /\ "none" \in Outcomes /\ 0 \in 0..MaxGeneration
    BY <1>3
  <2> HIDE DEF w
  <2>4. [jobs[k] EXCEPT !.pc = "advance", !.out = "none", !.exit = x,
                        !.gen = 0, !.err = w] \in SoundJob
    <3>1. \A a \in Outcomes, b \in JobExits, c \in 0..MaxGeneration, d \in ErrorCodes :
            [jobs[k] EXCEPT !.pc = "advance", !.out = a, !.exit = b,
                            !.gen = c, !.err = d] \in SoundJob
      BY <1>1, <2>3, JobWritten
    <3> QED
      BY <3>1, <2>1, <2>3, Zenon
  <2> QED
    BY <2>2, <2>4, Zenon
<1>7. \A x \in JobExits : [Ending(k, x) EXCEPT !.err = "none"] \in SoundJob
  BY <1>3, <1>6, JobWrites
<1> QED
  BY <1>4, <1>5, <1>6, <1>7

(* The steps of a handler that leave the rows alone.                       *)
LEMMA FirstSteps ==
  ASSUME jobs \in JobRows, run \in Rows, NEW k \in JobKeys,
         Claim(k) \/ HonourCancellation(k) \/ Fence(k) \/ Begin(k) \/ Work(k) \/ Judge(k)
  PROVE  jobs' \in JobRows
<1>1. jobs[k] \in SoundJob /\ k[1] \in RunIds /\ k[2] \in Stages
  BY DEF JobRows, JobKeys
<1>2. /\ {"begin", "work", "judge", "finalize", "lost", "apply"} \subseteq HandlerPcs
      /\ {"success", "transient", "review", "failed"} \subseteq Outcomes
      /\ {"auto", "manual"} \subseteq ErrorCodes
  BY Names
<1>3. \A x \in SoundJob : Set(k, x) => jobs' \in JobRows
  BY JobSaved
<1>4. End(k) => jobs' \in JobRows
  BY <1>3, NewJobs DEF End
<1>5. \A pc \in HandlerPcs : Goto(k, pc) => jobs' \in JobRows
  BY <1>1, <1>3, JobWrites DEF Goto
<1>6. CASE Claim(k)
  BY <1>1, <1>3, <1>6, NewJobs DEF Claim
<1>7. CASE HonourCancellation(k)
  BY <1>4, <1>7 DEF HonourCancellation
<1>8. CASE Fence(k)
  <2> DEFINE current == <<k[1], run[k[1]].stage, run[k[1]].gen>>
  <2>1. \/ End(k) \/ Goto(k, "begin")
        \/ jobs' = [Submitted(jobs, current) EXCEPT ![k] = DoneJob]
    BY <1>8 DEF Fence
  <2>2. [Submitted(jobs, current) EXCEPT ![k] = DoneJob] \in JobRows
    <3> HIDE DEF current
    <3> QED
      BY SubmissionsSound, JobSet, NewJobs
  <2> HIDE DEF current
  <2> QED
    BY <2>1, <2>2, <1>2, <1>4, <1>5
<1>9. CASE Begin(k)
  <2>1. run[k[1]].gen \in 0..MaxGeneration
    BY <1>1, RunFields
  <2>2. \/ Goto(k, "lost")
        \/ Set(k, [jobs[k] EXCEPT !.pc = "finalize", !.err = "manual"])
        \/ Set(k, [jobs[k] EXCEPT !.pc = "work", !.gen = run[k[1]].gen])
    BY <1>9 DEF Begin, RunOf
  <2>3. /\ [jobs[k] EXCEPT !.pc = "finalize", !.err = "manual"] \in SoundJob
        /\ [jobs[k] EXCEPT !.pc = "work", !.gen = run[k[1]].gen] \in SoundJob
    BY <1>1, <1>2, <2>1, JobWritten
  <2> QED
    BY <2>2, <2>3, <1>2, <1>3, <1>5
<1>10. CASE Work(k)
  <2>1. \/ Set(k, [jobs[k] EXCEPT !.pc = "judge", !.out = "success"])
        \/ \E out \in {"transient", "review"}, code \in {"auto", "manual"} :
             Set(k, [jobs[k] EXCEPT !.pc = "judge", !.out = out, !.err = code])
        \/ Set(k, [jobs[k] EXCEPT !.pc = "judge", !.out = "failed", !.err = "manual"])
        \/ Set(k, [jobs[k] EXCEPT !.pc = "finalize", !.err = "manual"])
    BY <1>10 DEF Work
  <2>2. /\ [jobs[k] EXCEPT !.pc = "judge", !.out = "success"] \in SoundJob
        /\ [jobs[k] EXCEPT !.pc = "judge", !.out = "failed", !.err = "manual"] \in SoundJob
        /\ [jobs[k] EXCEPT !.pc = "finalize", !.err = "manual"] \in SoundJob
        /\ \A out \in {"transient", "review"}, code \in {"auto", "manual"} :
             [jobs[k] EXCEPT !.pc = "judge", !.out = out, !.err = code] \in SoundJob
    <3>1. /\ \A x \in Outcomes : [jobs[k] EXCEPT !.pc = "judge", !.out = x] \in SoundJob
          /\ \A x \in Outcomes, y \in ErrorCodes :
               [jobs[k] EXCEPT !.pc = "judge", !.out = x, !.err = y] \in SoundJob
          /\ \A x \in ErrorCodes :
               [jobs[k] EXCEPT !.pc = "finalize", !.err = x] \in SoundJob
      BY <1>1, <1>2, JobWritten
    <3>2. [jobs[k] EXCEPT !.pc = "judge", !.out = "success"] \in SoundJob
      BY <1>2, <3>1
    <3>3. \A out \in {"transient", "review"}, code \in {"auto", "manual"} :
             [jobs[k] EXCEPT !.pc = "judge", !.out = out, !.err = code] \in SoundJob
      BY <1>2, <3>1
    <3>4. /\ [jobs[k] EXCEPT !.pc = "judge", !.out = "failed", !.err = "manual"] \in SoundJob
          /\ [jobs[k] EXCEPT !.pc = "finalize", !.err = "manual"] \in SoundJob
      BY <1>2, <3>1
    <3> QED
      BY <3>2, <3>3, <3>4
  <2> QED
    BY <2>1, <2>2, <1>3
<1>11. CASE Judge(k)
  <2>1. Goto(k, "lost") \/ End(k) \/ Goto(k, "apply")
    BY <1>11 DEF Judge
  <2> QED
    BY <2>1, <1>2, <1>4, <1>5
<1> QED
  BY <1>6, <1>7, <1>8, <1>9, <1>10, <1>11

LEMMA LastSteps ==
  ASSUME jobs \in JobRows, run \in Rows, NEW k \in JobKeys,
         ApplyTransient(k) \/ Chain(k) \/ Handoff(k) \/ Crash(k) \/ Recover(k)
  PROVE  jobs' \in JobRows
<1>1. jobs[k] \in SoundJob /\ jobs[k] \in Job
  BY DEF JobRows, SoundJob
<1>2. \A x \in SoundJob : Set(k, x) => jobs' \in JobRows
  BY JobSaved
<1>3. End(k) => jobs' \in JobRows
  BY <1>2, NewJobs DEF End
<1>4. jobs[k].attempt \in 0..MaxAttempts /\ MaxAttempts \in Nat
  BY <1>1, JobFields, Constants
<1>5. CASE ApplyTransient(k)
  <2>1. jobs[k].attempt < MaxAttempts
    BY <1>4, <1>5 DEF ApplyTransient, Exhausted
  <2>2. Set(k, DoneJob) \/ Set(k, [QueuedJob EXCEPT !.attempt = jobs[k].attempt])
    BY <1>5 DEF ApplyTransient
  <2> QED
    BY <2>1, <2>2, <1>2, <1>4, NewJobs
<1>6. CASE Chain(k)
  <2> DEFINE next == <<k[1], jobs[k].stage, run[k[1]].gen>>
  <2>1. \/ End(k)
        \/ jobs' = [Submitted(jobs, next) EXCEPT ![k] = DoneJob]
        \/ jobs' = [Withdrawn(jobs, next) EXCEPT ![k] = AfterException(jobs[k])]
    BY <1>6 DEF Chain
  <2> HIDE DEF next
  <2>2. [Submitted(jobs, next) EXCEPT ![k] = DoneJob] \in JobRows
    BY SubmissionsSound, JobSet, NewJobs
  <2>3. [Withdrawn(jobs, next) EXCEPT ![k] = AfterException(jobs[k])] \in JobRows
    BY SubmissionsSound, JobSet, EndingsSound
  <2> QED
    BY <2>1, <2>2, <2>3, <1>3
<1>7. CASE Handoff(k)
  <2> DEFINE to == jobs[k].next
             next == <<to, run[to].stage, run[to].gen>>
  <2>1. \/ Set(k, AfterHandover(jobs[k]))
        \/ jobs' = [Submitted(jobs, next) EXCEPT ![k] = AfterHandover(jobs[k])]
        \/ jobs' = [Withdrawn(jobs, next) EXCEPT ![k] = AfterException(jobs[k])]
    BY <1>7 DEF Handoff
  <2> HIDE DEF next, to
  <2>2. [Submitted(jobs, next) EXCEPT ![k] = AfterHandover(jobs[k])] \in JobRows
    BY SubmissionsSound, JobSet, EndingsSound
  <2>3. [Withdrawn(jobs, next) EXCEPT ![k] = AfterException(jobs[k])] \in JobRows
    BY SubmissionsSound, JobSet, EndingsSound
  <2>4. Set(k, AfterHandover(jobs[k])) => jobs' \in JobRows
    BY <1>2, EndingsSound
  <2> QED
    BY <2>1, <2>2, <2>3, <2>4
<1>8. CASE Crash(k)
  BY <1>1, <1>2, <1>8, NewJobs DEF Crash
<1>9. CASE Recover(k)
  <2>1. jobs[k].attempt > 0
    BY <1>1, <1>9 DEF Recover, SoundJob
  <2>2. jobs[k].attempt - 1 \in 0..MaxAttempts /\ jobs[k].attempt - 1 < MaxAttempts
    BY <1>4, <2>1
  <2>3. Set(k, DoneJob) \/ Set(k, [QueuedJob EXCEPT !.attempt = jobs[k].attempt - 1])
    BY <1>9 DEF Recover
  <2> QED
    BY <2>2, <2>3, <1>2, NewJobs
<1> QED
  BY <1>5, <1>6, <1>7, <1>8, <1>9

-----------------------------------------------------------------------------
(* The steps of a handler that write the run, and the hand-over.           *)

SparesCancelled == \A r \in RunIds : run[r].status = "cancelled" => run'[r] = run[r]

LEMMA RunUntouched ==
  ASSUME RowInv, UNCHANGED <<batch, item, run>>
  PROVE  RowInv' /\ SparesCancelled
BY RowsSame DEF SparesCancelled

(* A run that was not cancelled is written once.                           *)
LEMMA RunWritten ==
  ASSUME RowInv, batch' = batch, item' = item, NEW r \in RunIds, NEW x \in RunRow,
         run' = [run EXCEPT ![r] = x], x.gen = run[r].gen,
         x.status = run[r].status \/ x.status \in TerminalStatuses,
         run[r].status = "cancelled" => x = run[r]
  PROVE  RowInv' /\ SparesCancelled
<1>1. RowInv'
  BY RowEnds
<1>2. SparesCancelled
  BY RowSet DEF RowInv, SparesCancelled
<1> QED
  BY <1>1, <1>2

LEMMA AssembleKeeps ==
  ASSUME RowInv, jobs \in JobRows, NEW k \in JobKeys, Assemble(k)
  PROVE  RowInv' /\ jobs' \in JobRows /\ SparesCancelled
<1>1. jobs[k] \in SoundJob /\ k[1] \in RunIds /\ run[k[1]] \in RunRow
  BY RunFields DEF JobRows, JobKeys, RowInv
<1>2. batch' = batch /\ item' = item
  BY DEF Assemble, OnlyRunAndJobs
<1>3. /\ [jobs[k] EXCEPT !.pc = "judge", !.out = "success"] \in SoundJob
      /\ [jobs[k] EXCEPT !.pc = "judge", !.out = "review", !.err = "manual"] \in SoundJob
  <2>1. "judge" \in HandlerPcs /\ "success" \in Outcomes /\ "review" \in Outcomes
        /\ "manual" \in ErrorCodes
    BY Names
  <2>2. /\ \A x \in Outcomes : [jobs[k] EXCEPT !.pc = "judge", !.out = x] \in SoundJob
        /\ \A x \in Outcomes, y \in ErrorCodes :
             [jobs[k] EXCEPT !.pc = "judge", !.out = x, !.err = y] \in SoundJob
    BY <1>1, <2>1, JobWritten
  <2> QED
    BY <2>1, <2>2
<1>4. jobs' \in JobRows
  <2>1. \/ Set(k, [jobs[k] EXCEPT !.pc = "judge", !.out = "success"])
        \/ Set(k, [jobs[k] EXCEPT !.pc = "judge", !.out = "review", !.err = "manual"])
    BY DEF Assemble
  <2> QED
    BY <2>1, <1>3, JobSaved
<1>5. RowInv' /\ SparesCancelled
  <2>1. \/ UNCHANGED run
        \/ /\ RunOf(k).status # "cancelled"
           /\ run' = [run EXCEPT ![k[1]] = MarkReady(@)]
        \/ /\ RunOf(k).status # "cancelled"
           /\ run' = [run EXCEPT ![k[1]] = MarkNeedsReview(@, "manual")]
    BY DEF Assemble
  <2>2. CASE UNCHANGED run
    BY <2>2, <1>2, RunUntouched
  <2>3. CASE RunOf(k).status # "cancelled" /\ run' = [run EXCEPT ![k[1]] = MarkReady(@)]
    <3> DEFINE x == MarkReady(run[k[1]])
    <3>1. x \in RunRow /\ x.gen = run[k[1]].gen /\ x.status \in TerminalStatuses
      BY <1>1, Marks, StatusNames
    <3>2. run[k[1]].status # "cancelled" /\ run' = [run EXCEPT ![k[1]] = x]
      BY <2>3 DEF RunOf
    <3> HIDE DEF x
    <3> QED
      BY <1>1, <1>2, <3>1, <3>2, RunWritten
  <2>4. CASE /\ RunOf(k).status # "cancelled"
             /\ run' = [run EXCEPT ![k[1]] = MarkNeedsReview(@, "manual")]
    <3> DEFINE x == MarkNeedsReview(run[k[1]], "manual")
    <3>1. x \in RunRow /\ x.gen = run[k[1]].gen /\ x.status \in TerminalStatuses
      BY <1>1, Marks, StatusNames, Names
    <3>2. run[k[1]].status # "cancelled" /\ run' = [run EXCEPT ![k[1]] = x]
      BY <2>4 DEF RunOf
    <3> HIDE DEF x
    <3> QED
      BY <1>1, <1>2, <3>1, <3>2, RunWritten
  <2> QED
    BY <2>1, <2>2, <2>3, <2>4
<1> QED
  BY <1>4, <1>5

(* A failure, a review or the final failure ends a run that is not ended.  *)
LEMMA ApplyFailureKeeps ==
  ASSUME RowInv, jobs \in JobRows, NEW k \in JobKeys,
         ApplyReview(k) \/ ApplyFailed(k) \/ Finalize(k)
  PROVE  RowInv' /\ jobs' \in JobRows /\ SparesCancelled
<1>1. /\ jobs[k] \in SoundJob /\ k[1] \in RunIds /\ run[k[1]] \in RunRow
      /\ jobs[k].err \in ErrorCodes
  BY RunFields, JobFields DEF JobRows, JobKeys, RowInv, SoundJob
<1>2. batch' = batch /\ item' = item
  BY DEF ApplyReview, ApplyFailed, Finalize, OnlyRunAndJobs
<1>3. jobs' \in JobRows
  <2>1. \/ Set(k, Ending(k, "succeed")) \/ Set(k, Ending(k, "finalize")) \/ End(k)
        \/ Set(k, [Ending(k, "fail") EXCEPT !.err = "none"])
    BY DEF ApplyReview, ApplyFailed, Finalize
  <2>2. "succeed" \in JobExits /\ "finalize" \in JobExits /\ "fail" \in JobExits
    BY Names
  <2>3. \A x \in SoundJob : Set(k, x) => jobs' \in JobRows
    BY JobSaved
  <2> QED
    BY <2>1, <2>2, <2>3, EndingsSound, NewJobs DEF End
<1>4. RowInv' /\ SparesCancelled
  <2> DEFINE old == run[k[1]]
  <2>1. \/ UNCHANGED run
        \/ /\ old.status \notin TerminalStatuses
           /\ \/ run' = [run EXCEPT ![k[1]] = MarkNeedsReview(old, jobs[k].err)]
              \/ run' = [run EXCEPT ![k[1]] = MarkFailed(old, jobs[k].err)]
    <3>1. CASE old.status \in TerminalStatuses
      <4>1. run' = [run EXCEPT ![k[1]] = run[k[1]]] \/ UNCHANGED run
        BY <3>1 DEF ApplyReview, ApplyFailed, Finalize, RunOf
      <4> QED
        BY <4>1 DEF RowInv, Rows
    <3>2. CASE old.status \notin TerminalStatuses
      BY <3>2 DEF ApplyReview, ApplyFailed, Finalize, RunOf
    <3> QED
      BY <3>1, <3>2
  <2>2. CASE UNCHANGED run
    BY <2>2, <1>2, RunUntouched
  <2>3. ASSUME NEW y, y \in {MarkNeedsReview(old, jobs[k].err), MarkFailed(old, jobs[k].err)},
               old.status \notin TerminalStatuses, run' = [run EXCEPT ![k[1]] = y]
        PROVE  RowInv' /\ SparesCancelled
    <3>1. y \in RunRow /\ y.gen = run[k[1]].gen /\ y.status \in TerminalStatuses
      BY <1>1, <2>3, Marks, StatusNames
    <3>2. run[k[1]].status # "cancelled"
      BY <2>3, StatusNames
    <3> QED
      BY <1>1, <1>2, <2>3, <3>1, <3>2, RunWritten
  <2> QED
    BY <2>1, <2>2, <2>3
<1> QED
  BY <1>3, <1>4

LEMMA ApplySuccessKeeps ==
  ASSUME RowInv, jobs \in JobRows, NEW k \in JobKeys, ApplySuccess(k)
  PROVE  RowInv' /\ jobs' \in JobRows /\ SparesCancelled
<1>1. /\ jobs[k] \in SoundJob /\ k[1] \in RunIds /\ run[k[1]] \in RunRow
  BY RunFields DEF JobRows, JobKeys, RowInv
<1>2. batch' = batch /\ item' = item
  BY DEF ApplySuccess, OnlyRunAndJobs
<1> DEFINE next == IF run[k[1]].stage < LastStage THEN run[k[1]].stage + 1 ELSE LastStage
<1>3. next \in Stages
  <2>1. run[k[1]].stage \in Stages
    BY <1>1, RunFields DEF RowInv
  <2> QED
    BY <2>1, Constants DEF Stages
<1>4. \/ Set(k, Ending(k, "succeed")) /\ UNCHANGED run
      \/ End(k) /\ UNCHANGED run
      \/ /\ run[k[1]].status = "running"
         /\ run' = [run EXCEPT ![k[1]] = MarkNeedsReview(@, "manual")]
         /\ Set(k, Ending(k, "succeed"))
      \/ /\ run[k[1]].status = "running"
         /\ run' = [run EXCEPT ![k[1]].stage = next]
         /\ Set(k, [jobs[k] EXCEPT !.pc = "chain", !.out = "none", !.gen = 0, !.stage = next])
  BY DEF ApplySuccess, RunOf
<1> HIDE DEF next
<1>5. jobs' \in JobRows
  <2>1. "succeed" \in JobExits /\ "chain" \in HandlerPcs /\ "none" \in Outcomes
        /\ 0 \in 0..MaxGeneration
    BY Names, Constants
  <2>2. \A x \in Outcomes, y \in 0..MaxGeneration, z \in Stages :
           [jobs[k] EXCEPT !.pc = "chain", !.out = x, !.gen = y, !.stage = z] \in SoundJob
    BY <1>1, <2>1, JobWritten
  <2>3. [jobs[k] EXCEPT !.pc = "chain", !.out = "none", !.gen = 0, !.stage = next] \in SoundJob
    BY <1>3, <2>1, <2>2, Zenon
  <2>4. Ending(k, "succeed") \in SoundJob
    BY <2>1, EndingsSound
  <2>5. \A x \in SoundJob : Set(k, x) => jobs' \in JobRows
    BY JobSaved
  <2> QED
    BY <1>4, <2>3, <2>4, <2>5, NewJobs DEF End
<1>6. RowInv' /\ SparesCancelled
  <2>1. CASE UNCHANGED run
    BY <2>1, <1>2, RunUntouched
  <2>2. CASE /\ run[k[1]].status = "running"
             /\ run' = [run EXCEPT ![k[1]] = MarkNeedsReview(@, "manual")]
    <3> DEFINE x == MarkNeedsReview(run[k[1]], "manual")
    <3>1. x \in RunRow /\ x.gen = run[k[1]].gen /\ x.status \in TerminalStatuses
      BY <1>1, Marks, StatusNames, Names
    <3>2. run[k[1]].status # "cancelled" /\ run' = [run EXCEPT ![k[1]] = x]
      BY <2>2
    <3> HIDE DEF x
    <3> QED
      BY <1>1, <1>2, <3>1, <3>2, RunWritten
  <2>3. CASE /\ run[k[1]].status = "running"
             /\ run' = [run EXCEPT ![k[1]].stage = next]
    <3> DEFINE x == [run[k[1]] EXCEPT !.stage = next]
    <3>1. x \in RunRow /\ x.gen = run[k[1]].gen /\ x.status = run[k[1]].status
      BY <1>1, <1>3, NextRows
    <3>2. run[k[1]].status # "cancelled" /\ run' = [run EXCEPT ![k[1]] = x]
      BY <2>3
    <3> HIDE DEF x
    <3> QED
      BY <1>1, <1>2, <3>1, <3>2, RunWritten
  <2> QED
    BY <1>4, <2>1, <2>2, <2>3
<1> QED
  BY <1>5, <1>6

LEMMA AdvanceKeeps ==
  ASSUME RowInv, jobs \in JobRows, NEW k \in JobKeys, Advance(k)
  PROVE  RowInv' /\ jobs' \in JobRows /\ SparesCancelled
<1>1. jobs[k] \in SoundJob
  BY DEF JobRows
<1>2. \A x \in SoundJob : Set(k, x) => jobs' \in JobRows
  BY JobSaved
<1>3. CASE UNCHANGED <<batch, item, run>> /\ Set(k, AfterHandover(jobs[k]))
  BY <1>2, <1>3, EndingsSound, RunUntouched
<1>4. CASE /\ Attached(k[1]) /\ Write(OnSubjectTerminal)
           /\ \/ Set(k, AfterException(jobs[k])) \/ Set(k, AfterHandover(jobs[k]))
              \/ Set(k, [jobs[k] EXCEPT !.pc = "handoff", !.next = OnSubjectTerminal.next])
  <2>1. batch.status # "absent"
    BY <1>4 DEF Attached
  <2>2. RowInv' /\ OnSubjectTerminal.next \in JobNext /\ SparesCancelled
    BY <1>4, <2>1, OnSubjectTerminalKeeps DEF SparesCancelled, JobNext
  <2>3. [jobs[k] EXCEPT !.pc = "handoff", !.next = OnSubjectTerminal.next] \in SoundJob
    <3>1. "handoff" \in HandlerPcs
      BY Names
    <3>2. \A x \in JobNext : [jobs[k] EXCEPT !.pc = "handoff", !.next = x] \in SoundJob
      BY <1>1, <3>1, JobWritten
    <3> QED
      BY <2>2, <3>2, Zenon
  <2> QED
    BY <1>2, <1>4, <2>2, <2>3, EndingsSound
<1>5. \/ UNCHANGED <<batch, item, run>> /\ Set(k, AfterHandover(jobs[k]))
      \/ /\ Attached(k[1]) /\ Write(OnSubjectTerminal)
         /\ Set(k, CASE OnSubjectTerminal.raised -> AfterException(jobs[k])
                     [] ~OnSubjectTerminal.raised /\ OnSubjectTerminal.next = NoRun ->
                          AfterHandover(jobs[k])
                     [] OTHER -> [jobs[k] EXCEPT !.pc = "handoff",
                                                 !.next = OnSubjectTerminal.next])
  BY Zenon DEF Advance
<1>6. \/ UNCHANGED <<batch, item, run>> /\ Set(k, AfterHandover(jobs[k]))
      \/ /\ Attached(k[1]) /\ Write(OnSubjectTerminal)
         /\ \/ Set(k, AfterException(jobs[k])) \/ Set(k, AfterHandover(jobs[k]))
            \/ Set(k, [jobs[k] EXCEPT !.pc = "handoff", !.next = OnSubjectTerminal.next])
  BY <1>5
<1> QED
  BY <1>3, <1>4, <1>6

-----------------------------------------------------------------------------
(* The requests.                                                           *)

ClientRecord == [pc : ClientPcs, run : JobNext, stage : Stages, gen : 0..MaxGeneration,
                 runs : SUBSET RunIds, changed : BOOLEAN]
SoundClient == {x \in ClientRecord :
    /\ x.pc \in {"terminal", "handoff", "start"} => x.run \in RunIds
    /\ x.pc = "sweep" /\ x.changed => x.run \in RunIds
    /\ x.pc = "start" => x.run[2] > 0}
ClientRows == [Clients -> SoundClient]

(* The steps at which a request only has to know where it is.              *)
PlainPcs == ClientPcs \ {"terminal", "handoff", "start", "sweep"}

LEMMA ClientFields ==
  ASSUME NEW x \in ClientRecord
  PROVE  /\ x.pc \in ClientPcs /\ x.run \in JobNext /\ x.stage \in Stages
         /\ x.gen \in 0..MaxGeneration /\ x.runs \in SUBSET RunIds /\ x.changed \in BOOLEAN
         /\ \A y \in ClientPcs : [x EXCEPT !.pc = y] \in ClientRecord
         /\ \A y \in JobNext : [x EXCEPT !.run = y] \in ClientRecord
         /\ \A y \in Stages : [x EXCEPT !.stage = y] \in ClientRecord
         /\ \A y \in 0..MaxGeneration : [x EXCEPT !.gen = y] \in ClientRecord
         /\ \A y \in SUBSET RunIds : [x EXCEPT !.runs = y] \in ClientRecord
         /\ \A y \in BOOLEAN : [x EXCEPT !.changed = y] \in ClientRecord
BY DEF ClientRecord

LEMMA IdleIs ==
  /\ IdleClient \in ClientRecord /\ IdleClient \in SoundClient
  /\ IdleClient.pc = "idle" /\ ~IdleClient.changed
<1>1. "idle" \in ClientPcs /\ NoRun \in JobNext /\ 1 \in Stages /\ 0 \in 0..MaxGeneration
  BY Constants DEF ClientPcs, JobNext
<1>2. IdleClient \in ClientRecord /\ IdleClient.pc = "idle" /\ ~IdleClient.changed
  BY <1>1 DEF IdleClient, ClientRecord
<1> QED
  BY <1>2 DEF SoundClient

(* A request at its next step.                                             *)
LEMMA ClientAt ==
  ASSUME NEW x \in ClientRecord, NEW pc \in ClientPcs, NEW r \in JobNext,
         pc \in {"terminal", "handoff", "start"} => r \in RunIds,
         pc = "sweep" => ~x.changed, pc = "start" => r[2] > 0
  PROVE  /\ [x EXCEPT !.pc = pc, !.run = r] \in SoundClient
         /\ [x EXCEPT !.pc = pc, !.run = r] \in ClientRecord
<1> DEFINE y == [x EXCEPT !.pc = pc]
           z == [y EXCEPT !.run = r]
<1>1. y \in ClientRecord /\ y.pc = pc /\ y.changed = x.changed
  BY DEF ClientRecord
<1>2. z \in ClientRecord /\ z.pc = pc /\ z.run = r /\ z.changed = x.changed
  <2> HIDE DEF y
  <2> QED
    BY <1>1 DEF ClientRecord
<1> HIDE DEF z
<1>3. z \in SoundClient
  BY <1>2 DEF SoundClient
<1> USE DEF z
<1> QED
  BY <1>2, <1>3

LEMMA PlainClients ==
  ASSUME NEW x \in ClientRecord, NEW pc \in PlainPcs, NEW r \in JobNext,
         NEW st \in Stages, NEW g \in 0..MaxGeneration
  PROVE  /\ [x EXCEPT !.pc = pc, !.run = r, !.gen = g] \in SoundClient
         /\ [x EXCEPT !.pc = pc, !.run = r, !.stage = st, !.gen = g] \in SoundClient
         /\ [x EXCEPT !.pc = pc, !.stage = st, !.gen = g] \in SoundClient
<1>1. pc \in ClientPcs
  BY DEF PlainPcs
<1>2. \A y \in ClientRecord : y.pc = pc => y \in SoundClient
  BY DEF SoundClient, PlainPcs
<1>3. ASSUME NEW y \in ClientRecord, y.pc = pc, NEW s \in Stages, NEW n \in 0..MaxGeneration
      PROVE  /\ [y EXCEPT !.gen = n] \in ClientRecord /\ [y EXCEPT !.gen = n].pc = pc
             /\ [y EXCEPT !.stage = s] \in ClientRecord /\ [y EXCEPT !.stage = s].pc = pc
  BY <1>3 DEF ClientRecord
<1> DEFINE u == [x EXCEPT !.pc = pc]
           v == [u EXCEPT !.run = r]
<1>4. u \in ClientRecord /\ u.pc = pc
  BY <1>1 DEF ClientRecord
<1>5. v \in ClientRecord /\ v.pc = pc
  <2> HIDE DEF u
  <2> QED
    BY <1>4 DEF ClientRecord
<1>6. [v EXCEPT !.gen = g] \in SoundClient
  <2> HIDE DEF v
  <2> QED
    BY <1>2, <1>3, <1>5
<1>7. [[v EXCEPT !.stage = st] EXCEPT !.gen = g] \in SoundClient
  <2> HIDE DEF v
  <2>1. [v EXCEPT !.stage = st] \in ClientRecord /\ [v EXCEPT !.stage = st].pc = pc
    BY <1>3, <1>5
  <2> QED
    BY <1>2, <1>3, <2>1
<1>8. [[u EXCEPT !.stage = st] EXCEPT !.gen = g] \in SoundClient
  <2> HIDE DEF u
  <2>1. [u EXCEPT !.stage = st] \in ClientRecord /\ [u EXCEPT !.stage = st].pc = pc
    BY <1>3, <1>4
  <2> QED
    BY <1>2, <1>3, <2>1
<1> QED
  BY <1>6, <1>7, <1>8

(* A request that has runs to sweep.                                       *)
LEMMA SweepClients ==
  /\ \A R \in SUBSET RunIds : [IdleClient EXCEPT !.pc = "sweep", !.runs = R] \in SoundClient
  /\ \A r \in RunIds, R \in SUBSET RunIds, b \in BOOLEAN :
       [IdleClient EXCEPT !.pc = "sweep", !.run = r, !.runs = R, !.changed = b] \in SoundClient
<1>1. "sweep" \in ClientPcs /\ RunIds \subseteq JobNext
  BY DEF ClientPcs, JobNext
<1> DEFINE u == [IdleClient EXCEPT !.pc = "sweep"]
<1>2. u \in ClientRecord /\ u.pc = "sweep" /\ ~u.changed
  BY <1>1, IdleIs DEF ClientRecord
<1>3. ASSUME NEW R \in SUBSET RunIds PROVE [u EXCEPT !.runs = R] \in SoundClient
  <2> HIDE DEF u
  <2>1. /\ [u EXCEPT !.runs = R] \in ClientRecord /\ [u EXCEPT !.runs = R].pc = "sweep"
        /\ ~[u EXCEPT !.runs = R].changed
    BY <1>2 DEF ClientRecord
  <2> QED
    BY <2>1 DEF SoundClient
<1>4. ASSUME NEW r \in RunIds, NEW R \in SUBSET RunIds, NEW b \in BOOLEAN
      PROVE  [[[u EXCEPT !.run = r] EXCEPT !.runs = R] EXCEPT !.changed = b] \in SoundClient
  <2> DEFINE v == [u EXCEPT !.run = r]
             w == [v EXCEPT !.runs = R]
             z == [w EXCEPT !.changed = b]
  <2>1. v \in ClientRecord /\ v.pc = "sweep" /\ v.run = r
    <3> HIDE DEF u
    <3> QED
      BY <1>1, <1>2 DEF ClientRecord
  <2>2. w \in ClientRecord /\ w.pc = "sweep" /\ w.run = r
    <3> HIDE DEF v
    <3> QED
      BY <2>1 DEF ClientRecord
  <2>3. z \in ClientRecord /\ z.pc = "sweep" /\ z.run = r
    <3> HIDE DEF w
    <3> QED
      BY <2>2 DEF ClientRecord
  <2>4. z \in SoundClient
    <3> HIDE DEF z
    <3> QED
      BY <2>3 DEF SoundClient
  <2> QED
    BY <2>4
<1> QED
  BY <1>3, <1>4

LEMMA ClientSaved ==
  ASSUME client \in ClientRows, NEW c \in Clients
  PROVE  /\ \A x \in SoundClient :
              client' = [client EXCEPT ![c] = x] => client' \in ClientRows
         /\ Done(c) => client' \in ClientRows
         /\ \A pc \in ClientPcs \ {"sweep"}, r \in JobNext :
              /\ pc \in {"terminal", "handoff", "start"} => r \in RunIds
              /\ pc = "start" => r[2] > 0
              /\ Todo(c, pc, r)
              => client' \in ClientRows
<1>1. ASSUME NEW x \in SoundClient, client' = [client EXCEPT ![c] = x]
      PROVE  client' \in ClientRows
  BY <1>1 DEF ClientRows
<1>2. ASSUME Done(c) PROVE client' \in ClientRows
  BY <1>1, <1>2, IdleIs DEF Done
<1>3. ASSUME NEW pc \in ClientPcs \ {"sweep"}, NEW r \in JobNext,
             pc \in {"terminal", "handoff", "start"} => r \in RunIds,
             pc = "start" => r[2] > 0, Todo(c, pc, r)
      PROVE  client' \in ClientRows
  <2>1. [IdleClient EXCEPT !.pc = pc, !.run = r] \in SoundClient
    BY <1>3, IdleIs, ClientAt
  <2>2. client' = [client EXCEPT ![c] = [IdleClient EXCEPT !.pc = pc, !.run = r]]
    BY <1>3 DEF Todo
  <2> QED
    BY <1>1, <2>1, <2>2
<1> QED
  BY <1>1, <1>2, <1>3

-----------------------------------------------------------------------------
(* What the requests write to the rows.                                    *)

LEMMA BatchMoves ==
  ASSUME RowInv, batch' \in Batches, item' = item, run' = run, batch'.phase = batch.phase,
         batch.status # "absent", batch'.status \notin Finished \union {"cancelled", "absent"}
  PROVE  RowInv' /\ SparesCancelled
<1>1. item \in Items /\ run \in Rows /\ batch \in Batches
  BY DEF RowInv
<1>2. ASSUME NEW s \in Subjects
      PROVE  /\ FirstRun(s)' => FirstRun(s)
             /\ (run[ItemRun(s)].status)' = run[ItemRun(s)].status
  BY DEF ItemRun, FirstRun
<1>3. ClosedBatchIsQuiet'
  BY DEF ClosedBatchIsQuiet
<1>4. batch'.phase = "initial" \/ batch.phase # "initial"
  OBVIOUS
<1>5. RowInv'
  BY <1>1, <1>2, <1>3, <1>4, RowsSettle
<1> QED
  BY <1>5 DEF SparesCancelled

LEMMA CreateKeeps ==
  ASSUME RowInv, batch.status = "absent", batch' = [batch EXCEPT !.status = "queued"],
         item' = item,
         run' = [r \in RunIds |-> IF r[2] = 0 THEN [run[r] EXCEPT !.status = "queued"]
                                  ELSE run[r]]
  PROVE  RowInv'
<1>1. batch \in Batches /\ item \in Items /\ run \in Rows
  BY DEF RowInv
<1>2. batch.phase = "initial" /\ \A s \in Subjects : item[s].run = 0
  BY DEF RowInv, RunsExist
<1>3. batch' \in Batches /\ batch'.status = "queued" /\ batch'.phase = "initial"
  BY <1>1, <1>2 DEF Batches, BatchStatus, Dispatchable
<1>4. ASSUME NEW r \in RunIds
      PROVE  run'[r] \in RunRow /\ (r[2] = 0 => run'[r].status = "queued")
  <2>1. run[r] \in RunRow
    BY <1>1, RunFields
  <2>2. /\ [run[r] EXCEPT !.status = "queued"] \in RunRow
        /\ [run[r] EXCEPT !.status = "queued"].status = "queued"
    BY <2>1, StatusNames DEF RunRow
  <2>3. run'[r] = IF r[2] = 0 THEN [run[r] EXCEPT !.status = "queued"] ELSE run[r]
    OBVIOUS
  <2> QED
    BY <2>1, <2>2, <2>3
<1>5. run' \in Rows
  BY <1>4 DEF Rows
<1>6. ASSUME NEW s \in Subjects PROVE (run[ItemRun(s)].status)' = "queued"
  <2>1. ItemRun(s)' = ItemRun(s) /\ ItemRun(s) \in RunIds /\ ItemRun(s)[2] = 0
    BY <1>1, <1>2, ItemRunType DEF ItemRun
  <2> QED
    BY <2>1, <1>4
<1>7. RunsExist'
  BY <1>3, <1>6 DEF RunsExist
<1>8. ClosedBatchIsQuiet'
  BY <1>3 DEF ClosedBatchIsQuiet, Finished
<1>9. StartedInOrder'
  <2> SUFFICES ASSUME NEW j \in DOMAIN Order PROVE (run[ItemRun(Order[j])].status)' # "running"
    BY DEF StartedInOrder
  <2> QED
    BY <1>6 DEF Subjects
<1>10. LaterPhasesFollow'
  BY <1>3 DEF LaterPhasesFollow
<1> QED
  BY <1>1, <1>3, <1>5, <1>7, <1>8, <1>9, <1>10 DEF RowInv

(* The batch is cancelled with its active runs.                            *)
LEMMA CancelBatchKeeps ==
  ASSUME RowInv, batch.status \in Dispatchable \union {"paused"},
         NEW cancelled, cancelled = {r \in RunIds : Attached(r) /\ run[r].status \in ActiveRunStatuses},
         batch' = [batch EXCEPT !.status = "cancelled"], item' = item,
         run' = [r \in RunIds |-> IF r \in cancelled THEN MarkCancelled(run[r]) ELSE run[r]]
  PROVE  RowInv' /\ SparesCancelled
<1>1. batch \in Batches /\ item \in Items /\ run \in Rows
  BY DEF RowInv
<1>2. batch' \in Batches /\ batch'.status = "cancelled" /\ batch'.phase = batch.phase
  BY <1>1 DEF Batches, BatchStatus
<1>3. batch.status # "absent"
  BY DEF Dispatchable
<1>4. ASSUME NEW r \in RunIds
      PROVE  /\ run'[r] \in RunRow /\ run'[r].gen = run[r].gen
             /\ run'[r].status = run[r].status \/ run'[r].status \in TerminalStatuses
             /\ r \in cancelled => run'[r].status = "cancelled"
             /\ r \notin cancelled => run'[r] = run[r]
  <2>1. run[r] \in RunRow
    BY <1>1, RunFields
  <2>2. run'[r] = IF r \in cancelled THEN MarkCancelled(run[r]) ELSE run[r]
    OBVIOUS
  <2>3. CASE r \in cancelled
    BY <2>1, <2>2, <2>3, Marks, StatusNames
  <2>4. CASE r \notin cancelled
    BY <2>1, <2>2, <2>4
  <2> QED
    BY <2>3, <2>4
<1>5. run' \in Rows
  BY <1>4 DEF Rows
<1>6. ASSUME NEW s \in Subjects
      PROVE  /\ ItemRun(s)' = ItemRun(s) /\ ItemRun(s) \in RunIds
             /\ (run[ItemRun(s)].status)' \in TerminalStatuses
             /\ FirstRun(s)' => FirstRun(s)
  <2>1. ItemRun(s)' = ItemRun(s) /\ ItemRun(s) \in RunIds
    BY <1>1, ItemRunType DEF ItemRun
  <2>2. Attached(ItemRun(s)) /\ run[ItemRun(s)].status # "absent"
    BY <1>1, <1>3, ItemRunType DEF Attached, RowInv, RunsExist
  <2>3. run[ItemRun(s)].status \in ActiveRunStatuses \union TerminalStatuses \union {"absent"}
    BY <1>1, <2>1, RunFields
  <2>4. run'[ItemRun(s)].status \in TerminalStatuses
    <3>1. CASE ItemRun(s) \in cancelled
      BY <3>1, <2>1, <1>4, StatusNames
    <3>2. CASE ItemRun(s) \notin cancelled
      <4>1. run[ItemRun(s)].status \notin ActiveRunStatuses
        BY <3>2, <2>1, <2>2
      <4> QED
        BY <4>1, <3>2, <2>1, <2>2, <2>3, <1>4
    <3> QED
      BY <3>1, <3>2
  <2>5. FirstRun(s)' => FirstRun(s)
    BY <2>1, <1>4 DEF FirstRun
  <2> QED
    BY <2>1, <2>4, <2>5
<1>7. ClosedBatchIsQuiet'
  BY <1>6 DEF ClosedBatchIsQuiet
<1>8. \A s \in Subjects : (run[ItemRun(s)].status # "absent")'
  BY <1>6, StatusNames
<1>9. RowInv'
  BY <1>1, <1>2, <1>3, <1>5, <1>6, <1>7, <1>8, RowsSettle
<1>10. SparesCancelled
  BY <1>4, StatusNames DEF SparesCancelled
<1> QED
  BY <1>9, <1>10

(* The batch that a recovery reopens.                                      *)
LEMMA RecoveredIs ==
  ASSUME RowInv, NEW r \in RunIds, RecoveryAllowed(r)
  PROVE  /\ RecoveredBatch(r) \in Batches
         /\ RecoveredBatch(r).status = "absent" <=> batch.status = "absent"
         /\ batch.status = "absent" => RecoveredBatch(r).phase = batch.phase
         /\ \/ RecoveredBatch(r).status \notin Finished \union {"cancelled"}
            \/ ~Attached(r) /\ RecoveredBatch(r) = batch
         /\ \/ RecoveredBatch(r).phase = batch.phase
            \/ \A s \in Subjects : run[ItemRun(s)].status \in TerminalStatuses
<1>1. batch \in Batches
  BY DEF RowInv
<1>2. CASE ~Attached(r)
  BY <1>1, <1>2 DEF RecoveredBatch
<1>3. CASE Attached(r) /\ batch.status \in Finished
  <2>1. RecoveredBatch(r) = [status |-> "running", phase |-> "review", started |-> TRUE]
    BY <1>3 DEF RecoveredBatch, OpenReviewRecovery
  <2>2. \A s \in Subjects : run[ItemRun(s)].status \in TerminalStatuses
    BY <1>3 DEF RowInv, ClosedBatchIsQuiet
  <2>3. RecoveredBatch(r) \in Batches
    BY <1>1, <1>3, BatchRecord DEF RecoveredBatch
  <2> QED
    BY <1>3, <2>1, <2>2, <2>3 DEF Finished
<1>4. CASE Attached(r) /\ batch.status \notin Finished
  <2>1. RecoveredBatch(r) = batch
    BY <1>4 DEF RecoveredBatch, OpenReviewRecovery
  <2>2. batch.status # "cancelled"
    BY <1>4 DEF RecoveryAllowed
  <2> QED
    BY <1>1, <1>4, <2>1, <2>2
<1> QED
  BY <1>2, <1>3, <1>4

(* A retry, or the resume of a cancelled run.                              *)
LEMMA ReopenKeeps ==
  ASSUME RowInv, NEW r \in RunIds, NEW st \in Stages, RecoveryAllowed(r),
         run[r].gen < MaxGeneration, batch' = RecoveredBatch(r), item' = item,
         run' = [run EXCEPT ![r] = NewGeneration(@, st)]
  PROVE  RowInv'
<1>1. item \in Items
  BY DEF RowInv
<1>2. \/ batch'.status \notin Finished \union {"cancelled"}
      \/ batch' = batch /\ \A s \in Subjects : ItemRun(s) # r
  <2>1. CASE RecoveredBatch(r).status \notin Finished \union {"cancelled"}
    BY <2>1
  <2>2. CASE ~Attached(r) /\ RecoveredBatch(r) = batch
    <3>1. CASE batch.status = "absent"
      BY <2>2, <3>1 DEF Finished
    <3>2. CASE batch.status # "absent"
      <4>1. \A s \in Subjects : ItemRun(s) # r
        BY <2>2, <3>2, <1>1, ItemRunType DEF Attached
      <4> QED
        BY <2>2, <4>1
    <3> QED
      BY <3>1, <3>2
  <2> QED
    BY <2>1, <2>2, RecoveredIs
<1>3. /\ batch' \in Batches
      /\ batch'.status = "absent" <=> batch.status = "absent"
      /\ batch.status = "absent" => batch'.phase = batch.phase
      /\ \/ batch'.phase = batch.phase
         \/ \A s \in Subjects : run[ItemRun(s)].status \in TerminalStatuses
  BY RecoveredIs
<1> QED
  BY <1>1, <1>2, <1>3, GenerationKeeps

(* A replacement run is created, queued.                                   *)
LEMMA RestartKeeps ==
  ASSUME RowInv, NEW r \in RunIds, NEW new \in RunIds, new = <<r[1], r[2] + 1>>,
         RecoveryAllowed(r), run[new].status = "absent", batch' = RecoveredBatch(r),
         run' = [run EXCEPT ![new].status = "queued"],
         item' = IF Attached(r) THEN [item EXCEPT ![r[1]] = [run |-> new[2], auto |-> 0]]
                 ELSE item
  PROVE  RowInv' /\ SparesCancelled
<1>1. batch \in Batches /\ item \in Items /\ run \in Rows
  BY DEF RowInv
<1> DEFINE x == [run[new] EXCEPT !.status = "queued"]
<1>2. x \in RunRow /\ x.status = "queued"
  <2>1. run[new] \in RunRow
    BY <1>1, RunFields
  <2> QED
    BY <2>1, StatusNames DEF RunRow
<1>3. /\ run' \in Rows /\ run'[new] = x
      /\ \A o \in RunIds : o # new => run'[o] = run[o]
  <2>1. run' = [run EXCEPT ![new] = x]
    OBVIOUS
  <2> HIDE DEF x
  <2> QED
    BY <1>1, <1>2, <2>1, RowSet
<1> HIDE DEF x
<1>4. SparesCancelled
  BY <1>3 DEF SparesCancelled
<1>5. CASE Attached(r)
  <2>1. /\ batch.status # "absent" /\ r[1] \in Subjects /\ new[1] = r[1]
        /\ new[2] \in 0..MaxRestarts /\ new[2] > 0
    BY <1>5 DEF Attached, RunIds
  <2>2. /\ item' = [item EXCEPT ![r[1]] = [run |-> new[2], auto |-> 0]]
        /\ item' \in Items /\ item'[r[1]].run = new[2]
        /\ \A s \in Subjects : s # r[1] => item'[s] = item[s]
    BY <1>1, <1>5, <2>1 DEF Items
  <2>3. batch'.status \notin Finished \union {"cancelled"} /\ batch' \in Batches
        /\ batch'.status # "absent"
    BY <1>5, <2>1, RecoveredIs
  <2>4. ASSUME NEW s \in Subjects, s # r[1]
        PROVE  /\ ItemRun(s)' = ItemRun(s)
               /\ (run[ItemRun(s)].status)' = run[ItemRun(s)].status
               /\ (run[ItemRun(s)].gen)' = run[ItemRun(s)].gen
    <3>1. ItemRun(s)' = ItemRun(s)
      BY <2>2, <2>4 DEF ItemRun
    <3>2. ItemRun(s) \in RunIds /\ ItemRun(s) # new
      BY <1>1, <2>1, <2>4, ItemRunType
    <3> QED
      BY <3>1, <3>2, <1>3
  <2>5. ItemRun(r[1])' = new /\ ~FirstRun(r[1])'
    <3>1. <<r[1], new[2]>> = new
      BY <2>1 DEF RunIds
    <3> QED
      BY <2>1, <2>2, <3>1 DEF ItemRun, FirstRun
  <2>6. ASSUME NEW s \in Subjects, run[ItemRun(s)].status # "absent"
        PROVE  (run[ItemRun(s)].status # "absent")'
    <3>1. CASE s = r[1]
      BY <3>1, <2>5, <1>2, <1>3
    <3>2. CASE s # r[1]
      BY <3>2, <2>4, <2>6
    <3> QED
      BY <3>1, <3>2
  <2>7. ASSUME NEW s \in Subjects, FirstRun(s)'
        PROVE  /\ FirstRun(s) /\ s # r[1]
               /\ (run[ItemRun(s)].status)' = run[ItemRun(s)].status
    <3>1. s # r[1]
      BY <2>5, <2>7
    <3> QED
      BY <3>1, <2>2, <2>4, <2>7 DEF FirstRun
  <2>8. ClosedBatchIsQuiet'
    BY <2>3 DEF ClosedBatchIsQuiet
  <2>9. \/ batch'.phase = "initial" \/ batch.phase # "initial"
        \/ \A s \in Subjects : FirstRun(s)' => (run[ItemRun(s)].status)' \in TerminalStatuses
    BY <2>7, RecoveredIs
  <2>10. \A s \in Subjects : FirstRun(s)' =>
            /\ FirstRun(s)
            /\ \/ (run[ItemRun(s)].status)' = run[ItemRun(s)].status
               \/ (run[ItemRun(s)].status)' \in TerminalStatuses
    BY <2>7
  <2>11. RowInv'
    BY <1>3, <2>1, <2>2, <2>3, <2>6, <2>8, <2>9, <2>10, RowsSettle
  <2> QED
    BY <2>11, <1>4
<1>6. CASE ~Attached(r)
  <2>1. batch' = batch /\ item' = item
    BY <1>6 DEF RecoveredBatch
  <2>2. ASSUME NEW s \in Subjects PROVE ItemRun(s) # new /\ ItemRun(s) \in RunIds
    <3>1. CASE batch.status = "absent"
      <4>1. item[s].run = 0 /\ ItemRun(s)[2] = item[s].run /\ ItemRun(s) \in RunIds
        BY <1>1, <3>1, ItemRunType DEF RowInv, RunsExist
      <4>2. new[2] > 0
        BY DEF RunIds
      <4> QED
        BY <4>1, <4>2
    <3>2. CASE batch.status # "absent"
      <4>1. run[ItemRun(s)].status # "absent"
        BY <3>2 DEF RowInv, RunsExist
      <4> QED
        BY <4>1, <1>1, ItemRunType
    <3> QED
      BY <3>1, <3>2
  <2>3. ASSUME NEW s \in Subjects
        PROVE  /\ (run[ItemRun(s)].status)' = run[ItemRun(s)].status
               /\ FirstRun(s)' => FirstRun(s)
    <3>1. ItemRun(s)' = ItemRun(s)
      BY <2>1 DEF ItemRun
    <3> QED
      BY <3>1, <2>1, <2>2, <1>3 DEF FirstRun
  <2>4. ClosedBatchIsQuiet'
    BY <2>1, <2>3 DEF RowInv, ClosedBatchIsQuiet
  <2>5. batch.status = "absent" => \A s \in Subjects : item[s].run = 0
    BY DEF RowInv, RunsExist
  <2>6. batch'.phase = "initial" \/ batch.phase # "initial"
    BY <2>1
  <2>7. RowInv'
    BY <1>1, <1>3, <2>1, <2>3, <2>4, <2>5, <2>6, RowsSettle
  <2> QED
    BY <2>7, <1>4
<1> QED
  BY <1>5, <1>6

(* A replacement run is started.                                           *)
LEMMA ReplacementKeeps ==
  ASSUME RowInv, batch' = batch, item' = item, NEW r \in RunIds, r[2] > 0,
         run[r].status \in ActiveRunStatuses, run' = [run EXCEPT ![r] = StartRunning(@)]
  PROVE  RowInv' /\ SparesCancelled
<1>1. batch \in Batches /\ item \in Items /\ run \in Rows
  BY DEF RowInv
<1> DEFINE x == StartRunning(run[r])
<1>2. x \in RunRow /\ x.status = "running" /\ x.gen = run[r].gen
  <2>1. run[r] \in RunRow
    BY <1>1, RunFields
  <2> QED
    BY <2>1, Marks
<1>3. /\ run' \in Rows /\ run'[r] = x
      /\ \A o \in RunIds : o # r => run'[o] = run[o]
  <2>1. run' = [run EXCEPT ![r] = x]
    OBVIOUS
  <2> HIDE DEF x
  <2> QED
    BY <1>1, <1>2, <2>1, RowSet
<1> HIDE DEF x
<1>4. SparesCancelled
  BY <1>3, StatusNames DEF SparesCancelled
<1>5. ASSUME NEW s \in Subjects
      PROVE  /\ ItemRun(s)' = ItemRun(s)
             /\ ItemRun(s) \in RunIds
             /\ ItemRun(s) # r => (run[ItemRun(s)].status)' = run[ItemRun(s)].status
             /\ ItemRun(s) = r => (run[ItemRun(s)].status)' = "running"
             /\ (run[ItemRun(s)].gen)' = run[ItemRun(s)].gen
  <2>1. ItemRun(s)' = ItemRun(s) /\ ItemRun(s) \in RunIds
    BY <1>1, ItemRunType DEF ItemRun
  <2> QED
    BY <2>1, <1>2, <1>3
<1>6. ASSUME NEW s \in Subjects, FirstRun(s)' PROVE FirstRun(s) /\ ItemRun(s) # r
  <2>1. item[s].run = 0 /\ ItemRun(s)[2] = item[s].run
    BY <1>1, <1>6, ItemRunType DEF FirstRun
  <2> QED
    BY <2>1, <1>5, <1>6 DEF FirstRun
<1>7. ClosedBatchIsQuiet'
  <2> SUFFICES ASSUME batch.status \in Finished \union {"cancelled"}, NEW s \in Subjects
               PROVE  (run[ItemRun(s)].status)' \in TerminalStatuses
    BY DEF ClosedBatchIsQuiet
  <2>1. run[ItemRun(s)].status \in TerminalStatuses
    BY DEF RowInv, ClosedBatchIsQuiet
  <2>2. ItemRun(s) # r
    BY <2>1, StatusNames
  <2> QED
    BY <2>1, <2>2, <1>5
<1>8. ASSUME NEW s \in Subjects, run[ItemRun(s)].status # "absent"
      PROVE  (run[ItemRun(s)].status # "absent")'
  BY <1>5, <1>8
<1>9. \A s \in Subjects : FirstRun(s)' =>
            /\ FirstRun(s)
            /\ \/ (run[ItemRun(s)].status)' = run[ItemRun(s)].status
               \/ (run[ItemRun(s)].status)' \in TerminalStatuses
  BY <1>5, <1>6
<1>10. batch.status = "absent" => \A s \in Subjects : item[s].run = 0
  BY DEF RowInv, RunsExist
<1>11. batch'.phase = "initial" \/ batch.phase # "initial"
  OBVIOUS
<1>12. RowInv'
  BY <1>1, <1>3, <1>7, <1>8, <1>9, <1>10, <1>11, RowsSettle
<1> QED
  BY <1>4, <1>12

-----------------------------------------------------------------------------
(* The requests, one by one.                                               *)

StateInv == RowInv /\ jobs \in JobRows /\ client \in ClientRows

(* What every step keeps.                                                  *)
Kept == /\ RowInv' /\ jobs' \in JobRows /\ client' \in ClientRows
        /\ SparesCancelled \/ requests' # requests

LEMMA ClientNames ==
  /\ {"idle", "initial", "first", "dispatch", "submit", "started"} \subseteq PlainPcs
  /\ PlainPcs \subseteq ClientPcs
  /\ {"idle", "initial", "first", "sweep", "terminal", "handoff",
      "dispatch", "submit", "start", "started"} = ClientPcs
  /\ NoRun \in JobNext /\ RunIds \subseteq JobNext
  /\ ClientPcs \ {"sweep"} = PlainPcs \union {"terminal", "handoff", "start"}
BY DEF PlainPcs, ClientPcs, JobNext

(* A request that only submits or sweeps jobs, dies, or looks at a run.    *)
LEMMA ClientOnly ==
  ASSUME StateInv, UNCHANGED <<batch, item, run>>, jobs' \in JobRows,
         client' \in ClientRows
  PROVE  Kept
<1>1. RowInv
  BY DEF StateInv
<1>2. RowInv' /\ SparesCancelled
  BY <1>1, RunUntouched
<1> QED
  BY <1>2 DEF Kept

LEMMA PlainTodo ==
  ASSUME StateInv, NEW c \in Clients, NEW pc \in PlainPcs, NEW r \in JobNext, Todo(c, pc, r)
  PROVE  client' \in ClientRows
<1>1. client \in ClientRows
  BY DEF StateInv
<1>2. pc \in ClientPcs \ {"sweep"} /\ pc \notin {"terminal", "handoff", "start"}
  BY DEF PlainPcs
<1> QED
  BY <1>1, <1>2, ClientSaved

LEMMA SubmitSteps ==
  ASSUME StateInv, NEW c \in Clients,
         \/ InitialDispatch(c) \/ ClientDispatch(c) \/ ClientSubmit(c)
         \/ DispatchReplacement(c) \/ AbortRequest(c)
  PROVE  Kept
<1>1. client \in ClientRows /\ jobs \in JobRows
  BY DEF StateInv
<1>2. Done(c) /\ UNCHANGED <<batch, item, run>>
  BY DEF InitialDispatch, ClientDispatch, ClientSubmit, DispatchReplacement, AbortRequest
<1>3. client' \in ClientRows
  BY <1>1, <1>2, ClientSaved
<1>4. \A k : Submitted(jobs, k) \in JobRows /\ Withdrawn(jobs, k) \in JobRows
  BY <1>1, SubmissionsSound
<1>5. jobs' \in JobRows
  <2>1. CASE InitialDispatch(c)
    BY <1>1, <1>4, <2>1 DEF InitialDispatch
  <2>2. CASE ClientDispatch(c)
    <3> DEFINE k == <<client[c].run, client[c].stage, client[c].gen>>
    <3>1. jobs' \in {jobs, Submitted(jobs, k), Withdrawn(jobs, k)}
      BY <2>2 DEF ClientDispatch
    <3> HIDE DEF k
    <3> QED
      BY <1>1, <1>4, <3>1
  <2>3. CASE ClientSubmit(c)
    BY <1>4, <2>3 DEF ClientSubmit
  <2>4. CASE DispatchReplacement(c)
    BY <1>1, <1>4, <2>4 DEF DispatchReplacement
  <2>5. CASE AbortRequest(c)
    BY <1>1, <2>5 DEF AbortRequest
  <2> QED
    BY <2>1, <2>2, <2>3, <2>4, <2>5
<1> QED
  BY <1>2, <1>3, <1>5, ClientOnly

LEMMA SweepKeeps ==
  ASSUME StateInv, NEW c \in Clients, SweepJobs(c)
  PROVE  Kept
<1>1. client \in ClientRows /\ jobs \in JobRows /\ client[c] \in SoundClient
  BY DEF StateInv, ClientRows
<1>2. jobs' \in JobRows
  <2>1. ASSUME NEW k \in JobKeys PROVE jobs'[k] \in SoundJob
    <3>1. jobs[k] \in SoundJob
      BY <1>1 DEF JobRows
    <3>2. jobs'[k] \in {DoneJob, [jobs[k] EXCEPT !.cancel = TRUE], jobs[k]}
      BY DEF SweepJobs
    <3> QED
      BY <3>1, <3>2, NewJobs, JobWrites
  <2>2. jobs' = [k \in JobKeys |-> jobs'[k]]
    BY DEF SweepJobs
  <2> QED
    BY <2>1, <2>2 DEF JobRows
<1>3. client' \in ClientRows
  <2>1. CASE client[c].changed
    <3>1. client[c].run \in RunIds /\ Todo(c, "terminal", client[c].run)
      BY <1>1, <2>1 DEF SweepJobs, SoundClient
    <3>2. "terminal" \in ClientPcs \ {"sweep"} /\ client[c].run \in JobNext
      BY <3>1, ClientNames
    <3> QED
      BY <1>1, <3>1, <3>2, ClientSaved
  <2>2. CASE ~client[c].changed
    BY <1>1, <2>2, ClientSaved DEF SweepJobs
  <2> QED
    BY <2>1, <2>2
<1>4. UNCHANGED <<batch, item, run>>
  BY DEF SweepJobs
<1> QED
  BY <1>2, <1>3, <1>4, ClientOnly

LEMMA ClientHandoffKeeps ==
  ASSUME StateInv, NEW c \in Clients, ClientHandoff(c)
  PROVE  Kept
<1>1. client \in ClientRows /\ jobs \in JobRows /\ client[c] \in SoundClient
      /\ run \in Rows
  BY DEF StateInv, ClientRows, RowInv
<1> DEFINE r == client[c].run
<1>2. r \in RunIds /\ client[c] \in ClientRecord
  BY <1>1 DEF ClientHandoff, SoundClient
<1>3. run[r].stage \in Stages /\ run[r].gen \in 0..MaxGeneration
  BY <1>1, <1>2, RunFields
<1>4. \/ Done(c)
      \/ client' = [client EXCEPT ![c] =
            [client[c] EXCEPT !.pc = "dispatch", !.stage = run[r].stage, !.gen = run[r].gen]]
  BY DEF ClientHandoff, Done
<1>5. client' \in ClientRows
  <2>1. "dispatch" \in PlainPcs /\ NoRun \in JobNext
    BY ClientNames
  <2>2. [client[c] EXCEPT !.pc = "dispatch", !.stage = run[r].stage, !.gen = run[r].gen]
          \in SoundClient
    <3> HIDE DEF r
    <3> QED
      BY <1>2, <1>3, <2>1, PlainClients
  <2> QED
    BY <1>1, <1>4, <2>2, ClientSaved
<1>6. UNCHANGED <<batch, item, run, jobs>>
  BY DEF ClientHandoff
<1> QED
  BY <1>1, <1>5, <1>6, ClientOnly

LEMMA InitialStartKeeps ==
  ASSUME StateInv, NEW c \in Clients, InitialStart(c)
  PROVE  Kept
<1>1. client \in ClientRows /\ jobs \in JobRows /\ RowInv /\ run \in Rows
  BY DEF StateInv, RowInv
<1>2. jobs' = jobs
  BY DEF InitialStart
<1> DEFINE r == StartNext(ActiveSubjects).next
<1>3. \/ /\ ActiveSubjects # {} /\ Write(StartNext(ActiveSubjects))
         /\ client' = [client EXCEPT ![c] =
                         [IdleClient EXCEPT !.pc = "first", !.run = r, !.gen = run[r].gen]]
      \/ run' = CancelQueued /\ UNCHANGED <<batch, item>> /\ Done(c)
      \/ UNCHANGED <<batch, item, run>> /\ Done(c)
  BY Zenon DEF InitialStart, ActiveSubjects
<1>4. CASE /\ ActiveSubjects # {} /\ Write(StartNext(ActiveSubjects))
           /\ client' = [client EXCEPT ![c] =
                         [IdleClient EXCEPT !.pc = "first", !.run = r, !.gen = run[r].gen]]
  <2>1. RowInv' /\ r \in RunIds /\ SparesCancelled
    BY <1>1, <1>4, StartNextKeeps DEF SparesCancelled
  <2> HIDE DEF r
  <2>2. run[r].gen \in 0..MaxGeneration
    BY <1>1, <2>1, RunFields
  <2>3. "first" \in PlainPcs /\ r \in JobNext /\ 1 \in Stages
    BY <2>1, ClientNames, Constants
  <2>4. [IdleClient EXCEPT !.pc = "first", !.run = r, !.gen = run[r].gen] \in SoundClient
    BY <2>2, <2>3, IdleIs, PlainClients
  <2>5. client' \in ClientRows
    BY <1>1, <1>4, <2>4, ClientSaved
  <2> QED
    BY <1>1, <1>2, <2>1, <2>5 DEF Kept
<1>5. CASE run' = CancelQueued /\ UNCHANGED <<batch, item>> /\ Done(c)
  <2>1. RowInv' /\ SparesCancelled
    BY <1>1, <1>5, CancelQueuedKeeps DEF SparesCancelled
  <2>2. client' \in ClientRows
    BY <1>1, <1>5, ClientSaved
  <2> QED
    BY <1>1, <1>2, <2>1, <2>2 DEF Kept
<1>6. CASE UNCHANGED <<batch, item, run>> /\ Done(c)
  <2>1. client' \in ClientRows
    BY <1>1, <1>6, ClientSaved
  <2> QED
    BY <1>1, <1>2, <1>6, <2>1, ClientOnly
<1> QED
  BY <1>3, <1>4, <1>5, <1>6

LEMMA ClientTerminalKeeps ==
  ASSUME StateInv, NEW c \in Clients, ClientTerminal(c)
  PROVE  Kept
<1>1. client \in ClientRows /\ jobs \in JobRows /\ RowInv
  BY DEF StateInv
<1>2. jobs' = jobs
  BY DEF ClientTerminal
<1> DEFINE n == OnSubjectTerminal.next
<1>3. \/ UNCHANGED <<batch, item, run>> /\ Done(c)
      \/ /\ Attached(client[c].run) /\ Write(OnSubjectTerminal)
         /\ IF n = NoRun THEN Done(c) ELSE Todo(c, "handoff", n)
  BY DEF ClientTerminal
<1>4. CASE UNCHANGED <<batch, item, run>> /\ Done(c)
  <2>1. client' \in ClientRows
    BY <1>1, <1>4, ClientSaved
  <2> QED
    BY <1>1, <1>2, <1>4, <2>1, ClientOnly
<1>5. CASE /\ Attached(client[c].run) /\ Write(OnSubjectTerminal)
           /\ IF n = NoRun THEN Done(c) ELSE Todo(c, "handoff", n)
  <2>1. batch.status # "absent"
    BY <1>5 DEF Attached
  <2>2. RowInv' /\ n \in RunIds \union {NoRun} /\ SparesCancelled
    BY <1>1, <1>5, <2>1, OnSubjectTerminalKeeps DEF SparesCancelled
  <2> HIDE DEF n
  <2>3. client' \in ClientRows
    <3>1. CASE n = NoRun
      BY <1>1, <1>5, <3>1, ClientSaved
    <3>2. CASE n # NoRun
      <4>1. "handoff" \in ClientPcs \ {"sweep"} /\ n \in RunIds /\ n \in JobNext
        BY <2>2, <3>2, ClientNames
      <4>2. Todo(c, "handoff", n)
        BY <1>5, <3>2
      <4> QED
        BY <1>1, <4>1, <4>2, ClientSaved
    <3> QED
      BY <3>1, <3>2
  <2> QED
    BY <1>1, <1>2, <2>2, <2>3 DEF Kept
<1> QED
  BY <1>3, <1>4, <1>5

LEMMA BatchRequests ==
  ASSUME StateInv, NEW c \in Clients,
         CreateBatch(c) \/ PauseBatch(c) \/ ResumeBatch(c) \/ CancelBatch(c)
  PROVE  RowInv' /\ jobs' \in JobRows /\ client' \in ClientRows
<1>1. client \in ClientRows /\ jobs \in JobRows /\ RowInv /\ batch \in Batches
      /\ item \in Items
  BY DEF StateInv, RowInv
<1>2. jobs' = jobs
  BY DEF CreateBatch, PauseBatch, ResumeBatch, CancelBatch
<1>3. CASE CreateBatch(c)
  <2>1. Todo(c, "initial", NoRun)
    BY <1>3 DEF CreateBatch
  <2>2. client' \in ClientRows
    BY <2>1, ClientNames, PlainTodo
  <2>3. \/ /\ batch.status = "absent" /\ batch' = [batch EXCEPT !.status = "queued"]
           /\ run' = [r \in RunIds |-> IF r[2] = 0 THEN [run[r] EXCEPT !.status = "queued"]
                                       ELSE run[r]]
        \/ UNCHANGED <<batch, run>>
    BY <1>3 DEF CreateBatch
  <2>4. item' = item
    BY <1>3 DEF CreateBatch
  <2>5. RowInv'
    BY <1>1, <2>3, <2>4, CreateKeeps, RowsSame
  <2> QED
    BY <1>1, <1>2, <2>2, <2>5
<1>4. CASE PauseBatch(c)
  <2>1. batch' = [batch EXCEPT !.status = "paused"] /\ batch.status \in Dispatchable
        /\ UNCHANGED <<item, run, client>>
    BY <1>4 DEF PauseBatch
  <2>2. /\ batch' \in Batches /\ batch'.phase = batch.phase /\ batch.status # "absent"
        /\ batch'.status \notin Finished \union {"cancelled", "absent"}
    BY <1>1, <2>1 DEF Batches, BatchStatus, Dispatchable, Finished
  <2>3. RowInv'
    BY <1>1, <2>1, <2>2, BatchMoves
  <2> QED
    BY <1>1, <1>2, <2>1, <2>3
<1>5. CASE ResumeBatch(c)
  <2>1. batch' = ResumedBatch(batch) /\ batch.status \in Dispatchable \union {"paused"}
        /\ UNCHANGED <<item, run>> /\ Todo(c, "terminal", ItemRun(Order[1]))
    BY <1>5 DEF ResumeBatch
  <2>2. batch' \in Batches
    BY <1>1, <2>1, BatchRecord
  <2>3. /\ batch'.phase = batch.phase /\ batch.status # "absent"
        /\ batch'.status \notin Finished \union {"cancelled", "absent"}
    BY <1>1, <2>1 DEF Batches, BatchStatus, Dispatchable, Finished, ResumedBatch
  <2>4. RowInv'
    BY <1>1, <2>1, <2>2, <2>3, BatchMoves
  <2>5. Order[1] \in Subjects
    BY Constants DEF Subjects
  <2>6. ItemRun(Order[1]) \in RunIds
    BY <1>1, <2>5, ItemRunType
  <2>7. client' \in ClientRows
    <3>1. "terminal" \in ClientPcs \ {"sweep"} /\ ItemRun(Order[1]) \in JobNext
      BY <2>6, ClientNames
    <3> QED
      BY <1>1, <2>1, <2>6, <3>1, ClientSaved
  <2> QED
    BY <1>1, <1>2, <2>4, <2>7
<1>6. CASE CancelBatch(c)
  <2> DEFINE R == {r \in RunIds : Attached(r) /\ run[r].status \in ActiveRunStatuses}
  <2>1. /\ batch.status \in Dispatchable \union {"paused"}
        /\ batch' = [batch EXCEPT !.status = "cancelled"] /\ item' = item
        /\ run' = [r \in RunIds |-> IF r \in R THEN MarkCancelled(run[r]) ELSE run[r]]
        /\ client' = [client EXCEPT ![c] = [IdleClient EXCEPT !.pc = "sweep", !.runs = R]]
    BY <1>6, Zenon DEF CancelBatch
  <2>2. R \in SUBSET RunIds
    OBVIOUS
  <2>3. RowInv'
    BY <1>1, <2>1, CancelBatchKeeps
  <2>4. client' \in ClientRows
    <3> HIDE DEF R
    <3>1. [IdleClient EXCEPT !.pc = "sweep", !.runs = R] \in SoundClient
      BY <2>2, SweepClients
    <3> QED
      BY <1>1, <2>1, <3>1, ClientSaved
  <2> QED
    BY <1>1, <1>2, <2>3, <2>4
<1> QED
  BY <1>3, <1>4, <1>5, <1>6

LEMMA CancelRunKeeps ==
  ASSUME StateInv, NEW c \in Clients, NEW r \in RunIds, CancelRun(c, r)
  PROVE  RowInv' /\ jobs' \in JobRows /\ client' \in ClientRows
<1>1. client \in ClientRows /\ jobs \in JobRows /\ RowInv /\ run \in Rows
  BY DEF StateInv, RowInv
<1>2. jobs' = jobs /\ batch' = batch /\ item' = item
  BY DEF CancelRun
<1> DEFINE b == run[r].status # "cancelled" /\ Attached(r)
           x == MarkCancelled(run[r])
<1>3. /\ run' = [run EXCEPT ![r] = x]
      /\ client' = [client EXCEPT ![c] =
           [IdleClient EXCEPT !.pc = "sweep", !.run = r, !.runs = {r}, !.changed = b]]
  BY DEF CancelRun
<1>4. x \in RunRow /\ x.gen = run[r].gen /\ x.status \in TerminalStatuses
      /\ (run[r].status = "cancelled" => x = run[r])
  <2>1. run[r] \in RunRow
    BY <1>1, RunFields
  <2> QED
    BY <2>1, Marks, StatusNames
<1>5. b \in BOOLEAN
  OBVIOUS
<1> HIDE DEF b, x
<1>6. RowInv'
  BY <1>1, <1>2, <1>3, <1>4, RunWritten
<1>7. client' \in ClientRows
  <2>1. [IdleClient EXCEPT !.pc = "sweep", !.run = r, !.runs = {r}, !.changed = b]
          \in SoundClient
    BY <1>5, SweepClients
  <2> QED
    BY <1>1, <1>3, <2>1, ClientSaved
<1> QED
  BY <1>1, <1>2, <1>6, <1>7

LEMMA ReopenRequests ==
  ASSUME StateInv, NEW c \in Clients, NEW r \in RunIds, NEW s \in Stages,
         RetryRun(c, r, s) \/ ResumeCancelledRun(c, r, s)
  PROVE  RowInv' /\ jobs' \in JobRows /\ client' \in ClientRows
<1>1. client \in ClientRows /\ jobs \in JobRows /\ RowInv /\ run \in Rows
  BY DEF StateInv, RowInv
<1>2. /\ jobs' = jobs /\ item' = item /\ run[r].gen < MaxGeneration /\ RecoveryAllowed(r)
      /\ batch' = RecoveredBatch(r) /\ run' = [run EXCEPT ![r] = NewGeneration(@, s)]
      /\ client' = [client EXCEPT ![c] =
           [IdleClient EXCEPT !.pc = "submit", !.run = r, !.stage = s, !.gen = run[r].gen + 1]]
  BY DEF RetryRun, ResumeCancelledRun
<1>3. RowInv'
  BY <1>1, <1>2, ReopenKeeps
<1>4. run[r].gen + 1 \in 0..MaxGeneration
  <2>1. run[r].gen \in 0..MaxGeneration /\ MaxGeneration \in Nat
    BY <1>1, RunFields, Constants
  <2> QED
    BY <2>1, <1>2
<1>5. client' \in ClientRows
  <2>1. "submit" \in PlainPcs /\ r \in JobNext
    BY ClientNames
  <2>2. [IdleClient EXCEPT !.pc = "submit", !.run = r, !.stage = s, !.gen = run[r].gen + 1]
          \in SoundClient
    BY <1>4, <2>1, IdleIs, PlainClients
  <2> QED
    BY <1>1, <1>2, <2>2, ClientSaved
<1> QED
  BY <1>1, <1>2, <1>3, <1>5

LEMMA RestartRequests ==
  ASSUME StateInv, NEW c \in Clients, NEW r \in RunIds, RestartRun(c, r)
  PROVE  RowInv' /\ jobs' \in JobRows /\ client' \in ClientRows
<1>1. client \in ClientRows /\ jobs \in JobRows /\ RowInv
  BY DEF StateInv
<1> DEFINE new == <<r[1], r[2] + 1>>
<1>2. new \in RunIds /\ new[2] > 0
  <2>1. r[1] \in Subjects /\ r[2] \in 0..MaxRestarts /\ r[2] < MaxRestarts
        /\ MaxRestarts \in Nat
    BY Constants DEF RunIds, RestartRun
  <2>2. r[2] + 1 \in 0..MaxRestarts /\ r[2] + 1 > 0
    BY <2>1
  <2> QED
    BY <2>1, <2>2 DEF RunIds
<1>3. /\ jobs' = jobs /\ RecoveryAllowed(r) /\ run[new].status = "absent"
      /\ batch' = RecoveredBatch(r) /\ run' = [run EXCEPT ![new].status = "queued"]
      /\ item' = IF Attached(r) THEN [item EXCEPT ![r[1]] = [run |-> new[2], auto |-> 0]]
                 ELSE item
      /\ Todo(c, "start", new)
  BY Zenon DEF RestartRun
<1>4. RowInv'
  BY <1>1, <1>2, <1>3, RestartKeeps
<1>5. client' \in ClientRows
  <2>1. "start" \in ClientPcs \ {"sweep"} /\ new \in JobNext
    BY <1>2, ClientNames
  <2> HIDE DEF new
  <2> QED
    BY <1>1, <1>2, <1>3, <2>1, ClientSaved
<1> QED
  BY <1>1, <1>3, <1>4, <1>5

LEMMA StartReplacementKeeps ==
  ASSUME StateInv, NEW c \in Clients, StartReplacement(c)
  PROVE  Kept
<1>1. client \in ClientRows /\ jobs \in JobRows /\ RowInv /\ client[c] \in SoundClient
  BY DEF StateInv, ClientRows
<1> DEFINE r == client[c].run
<1>2. r \in RunIds /\ r[2] > 0
  BY <1>1 DEF StartReplacement, SoundClient
<1>3. jobs' = jobs /\ batch' = batch /\ item' = item
  BY DEF StartReplacement
<1>4. \/ /\ run[r].status \in ActiveRunStatuses
         /\ run' = [run EXCEPT ![r] = StartRunning(@)] /\ Todo(c, "started", r)
      \/ UNCHANGED run /\ Done(c)
  BY DEF StartReplacement
<1> HIDE DEF r
<1>5. CASE /\ run[r].status \in ActiveRunStatuses
           /\ run' = [run EXCEPT ![r] = StartRunning(@)] /\ Todo(c, "started", r)
  <2>1. RowInv' /\ SparesCancelled
    BY <1>1, <1>2, <1>3, <1>5, ReplacementKeeps
  <2>2. client' \in ClientRows
    BY <1>2, <1>5, ClientNames, PlainTodo
  <2> QED
    BY <1>1, <1>3, <2>1, <2>2 DEF Kept
<1>6. CASE UNCHANGED run /\ Done(c)
  <2>1. client' \in ClientRows
    BY <1>1, <1>6, ClientSaved
  <2> QED
    BY <1>1, <1>3, <1>6, <2>1, ClientOnly
<1> QED
  BY <1>4, <1>5, <1>6

-----------------------------------------------------------------------------
(* The invariant holds initially and is kept by every step.                *)

Counts == requests \in 0..MaxRequests /\ crashes \in 0..MaxCrashes /\ aborts \in 0..MaxAborts

LEMMA ProdInvIs == ProdInv <=> StateInv /\ Counts
<1>1. JobRows = {js \in [JobKeys -> Job] : \A k \in JobKeys :
                   /\ js[k].st = "queued" => js[k].attempt < MaxAttempts
                   /\ js[k].st = "running" => js[k].attempt > 0}
  BY DEF JobRows, SoundJob
<1>2. ClientRows = {cs \in [Clients -> ClientRecord] : \A c \in Clients :
                   /\ cs[c].pc \in {"terminal", "handoff", "start"} => cs[c].run \in RunIds
                   /\ cs[c].pc = "sweep" /\ cs[c].changed => cs[c].run \in RunIds
                   /\ cs[c].pc = "start" => cs[c].run[2] > 0}
  BY DEF ClientRows, SoundClient
<1>3. /\ jobs \in JobRows <=> jobs \in [JobKeys -> Job] /\ JobsSound
      /\ client \in ClientRows <=> client \in [Clients -> ClientRecord] /\ ClientsSound
  BY <1>1, <1>2 DEF JobsSound, ClientsSound
<1>4. TypeOK <=> /\ batch \in Batches /\ item \in Items /\ run \in Rows
                 /\ jobs \in [JobKeys -> Job] /\ client \in [Clients -> ClientRecord]
                 /\ Counts
  BY DEF TypeOK, Batches, Items, Rows, RunRow, ClientRecord, JobNext, Counts
<1> QED
  BY <1>3, <1>4 DEF ProdInv, StateInv, RowInv

LEMMA InitHolds == Init => ProdInv
<1> SUFFICES ASSUME Init PROVE StateInv /\ Counts
  BY ProdInvIs
<1>1. Counts
  BY Constants DEF Init, Counts
<1>2. jobs \in JobRows
  BY NewJobs DEF Init, JobRows
<1>3. client \in ClientRows
  BY IdleIs DEF Init, ClientRows
<1>4. batch \in Batches /\ batch.status = "absent" /\ batch.phase = "initial"
  BY DEF Init, Batches, BatchStatus
<1>5. item \in Items /\ \A s \in Subjects : item[s].run = 0
  BY Constants DEF Init, Items
<1>6. run \in Rows /\ \A r \in RunIds : run[r].status = "absent"
  <2>1. [status |-> "absent", stage |-> 1, gen |-> 0, err |-> "none"] \in RunRow
    BY Constants DEF RunRow, ErrorCodes
  <2> QED
    BY <2>1 DEF Init, Rows
<1>7. StartedInOrder
  <2> SUFFICES ASSUME NEW j \in DOMAIN Order PROVE run[ItemRun(Order[j])].status # "running"
    BY DEF StartedInOrder
  <2>1. ItemRun(Order[j]) \in RunIds
    BY <1>5, ItemRunType DEF Subjects
  <2> QED
    BY <2>1, <1>6
<1>8. RunsExist /\ ClosedBatchIsQuiet /\ LaterPhasesFollow
  BY <1>4, <1>5 DEF RunsExist, ClosedBatchIsQuiet, LaterPhasesFollow, Finished
<1> QED
  BY <1>1, <1>2, <1>3, <1>4, <1>5, <1>6, <1>7, <1>8 DEF StateInv, RowInv

LEMMA HandlerKeeps ==
  ASSUME StateInv, NEW k \in JobKeys, Handler(k) \/ Crash(k)
  PROVE  Kept
<1>1. client \in ClientRows /\ jobs \in JobRows /\ RowInv /\ run \in Rows
  BY DEF StateInv, RowInv
<1>2. client' = client
  BY DEF Handler, Claim, HonourCancellation, Fence, Begin, Work, Assemble, Judge,
         ApplyTransient, ApplyReview, ApplyFailed, ApplySuccess, Chain, Advance, Handoff,
         Finalize, Recover, Crash, OnlyJobs, OnlyRunAndJobs
<1>3. CASE \/ Claim(k) \/ HonourCancellation(k) \/ Fence(k) \/ Begin(k) \/ Work(k)
           \/ Judge(k)
  <2>1. UNCHANGED <<batch, item, run>>
    BY <1>3 DEF Claim, HonourCancellation, Fence, Begin, Work, Judge, OnlyJobs
  <2> QED
    BY <1>1, <1>2, <1>3, <2>1, FirstSteps, ClientOnly
<1>4. CASE ApplyTransient(k) \/ Chain(k) \/ Handoff(k) \/ Crash(k) \/ Recover(k)
  <2>1. UNCHANGED <<batch, item, run>>
    BY <1>4 DEF ApplyTransient, Chain, Handoff, Crash, Recover, OnlyJobs
  <2> QED
    BY <1>1, <1>2, <1>4, <2>1, LastSteps, ClientOnly
<1>5. CASE Assemble(k)
  BY <1>1, <1>2, <1>5, AssembleKeeps DEF Kept
<1>6. CASE ApplyReview(k) \/ ApplyFailed(k) \/ Finalize(k)
  BY <1>1, <1>2, <1>6, ApplyFailureKeeps DEF Kept
<1>7. CASE ApplySuccess(k)
  BY <1>1, <1>2, <1>7, ApplySuccessKeeps DEF Kept
<1>8. CASE Advance(k)
  BY <1>1, <1>2, <1>8, AdvanceKeeps DEF Kept
<1> QED
  BY <1>3, <1>4, <1>5, <1>6, <1>7, <1>8 DEF Handler

LEMMA NewRequestKeeps ==
  ASSUME StateInv, requests \in Nat, NEW c \in Clients, NewRequest(c)
  PROVE  Kept
<1>1. requests' # requests
  <2>1. requests' = requests + 1
    BY DEF NewRequest, CreateBatch, PauseBatch, ResumeBatch, CancelBatch, CancelRun,
           RestartRun, RetryRun, ResumeCancelledRun, Request
  <2> QED
    BY <2>1
<1>2. CASE CreateBatch(c) \/ PauseBatch(c) \/ ResumeBatch(c) \/ CancelBatch(c)
  BY <1>1, <1>2, BatchRequests DEF Kept
<1>3. ASSUME NEW r \in RunIds, CancelRun(c, r) PROVE Kept
  BY <1>1, <1>3, CancelRunKeeps DEF Kept
<1>4. ASSUME NEW r \in RunIds, RestartRun(c, r) PROVE Kept
  BY <1>1, <1>4, RestartRequests DEF Kept
<1>5. ASSUME NEW r \in RunIds, NEW s \in Stages,
             RetryRun(c, r, s) \/ ResumeCancelledRun(c, r, s)
      PROVE  Kept
  BY <1>1, <1>5, ReopenRequests DEF Kept
<1> QED
  BY <1>2, <1>3, <1>4, <1>5 DEF NewRequest

LEMMA ContinueKeeps ==
  ASSUME StateInv, NEW c \in Clients, ContinueRequest(c) \/ AbortRequest(c)
  PROVE  Kept
BY SubmitSteps, SweepKeeps, ClientHandoffKeeps, InitialStartKeeps, ClientTerminalKeeps,
   StartReplacementKeeps DEF ContinueRequest

LEMMA CountsKept ==
  ASSUME Counts, Next
  PROVE  Counts'
<1>1. /\ requests \in 0..MaxRequests /\ crashes \in 0..MaxCrashes /\ aborts \in 0..MaxAborts
      /\ MaxRequests \in Nat /\ MaxCrashes \in Nat /\ MaxAborts \in Nat
  BY Constants DEF Counts
<1>2. /\ \/ requests' = requests
         \/ requests < MaxRequests /\ requests' = requests + 1
      /\ \/ crashes' = crashes
         \/ crashes < MaxCrashes /\ crashes' = crashes + 1
      /\ \/ aborts' = aborts
         \/ aborts < MaxAborts /\ aborts' = aborts + 1
  <2>1. ASSUME NEW k \in JobKeys, Handler(k)
        PROVE  UNCHANGED <<requests, crashes, aborts>>
    BY <2>1 DEF Handler, Claim, HonourCancellation, Fence, Begin, Work, Assemble, Judge,
         ApplyTransient, ApplyReview, ApplyFailed, ApplySuccess, Chain, Advance, Handoff,
         Finalize, Recover, OnlyJobs, OnlyRunAndJobs
  <2>2. ASSUME NEW k \in JobKeys, Crash(k)
        PROVE  /\ crashes < MaxCrashes /\ crashes' = crashes + 1
               /\ UNCHANGED <<requests, aborts>>
    BY <2>2 DEF Crash
  <2>3. ASSUME NEW c \in Clients, NewRequest(c)
        PROVE  /\ requests < MaxRequests /\ requests' = requests + 1
               /\ UNCHANGED <<crashes, aborts>>
    BY <2>3 DEF NewRequest, CreateBatch, PauseBatch, ResumeBatch, CancelBatch, CancelRun,
         RestartRun, RetryRun, ResumeCancelledRun, Request
  <2>4. ASSUME NEW c \in Clients, ContinueRequest(c)
        PROVE  UNCHANGED <<requests, crashes, aborts>>
    BY <2>4 DEF ContinueRequest, InitialStart, InitialDispatch, SweepJobs, ClientTerminal,
         ClientHandoff, ClientDispatch, ClientSubmit, StartReplacement, DispatchReplacement
  <2>5. ASSUME NEW c \in Clients, AbortRequest(c)
        PROVE  /\ aborts < MaxAborts /\ aborts' = aborts + 1
               /\ UNCHANGED <<requests, crashes>>
    BY <2>5 DEF AbortRequest
  <2> QED
    BY <2>1, <2>2, <2>3, <2>4, <2>5 DEF Next
<1> QED
  BY <1>1, <1>2 DEF Counts

LEMMA NextKeeps ==
  ASSUME ProdInv, Next
  PROVE  ProdInv' /\ (SparesCancelled \/ requests' # requests)
<1>1. StateInv /\ Counts /\ requests \in Nat
  BY ProdInvIs, Constants DEF Counts
<1>2. Kept
  BY <1>1, HandlerKeeps, NewRequestKeeps, ContinueKeeps DEF Next
<1>3. StateInv'
  BY <1>2 DEF Kept, StateInv
<1>4. Counts'
  BY <1>1, CountsKept
<1>5. ProdInv'
  BY <1>3, <1>4, ProdInvIs, PTL
<1> QED
  BY <1>2, <1>5 DEF Kept

LEMMA StutterKeeps ==
  ASSUME ProdInv, UNCHANGED vars
  PROVE  ProdInv'
<1>1. StateInv /\ Counts
  BY ProdInvIs
<1>2. RowInv'
  BY <1>1, RowsSame DEF StateInv, vars
<1>3. StateInv' /\ Counts'
  BY <1>1, <1>2 DEF StateInv, Counts, vars
<1> QED
  BY <1>3, ProdInvIs, PTL

(* The invariant: the batch, its items and their runs agree, whatever the  *)
(* handlers, the requests and the processes that are lost do.              *)
THEOREM ProductionInvariant == Spec => []ProdInv
<1>1. ProdInv /\ [Next]_vars => ProdInv'
  BY NextKeeps, StutterKeeps
<1> QED
  BY <1>1, InitHolds, PTL DEF Spec

(* Rows, jobs and requests stay within their types (TypeOK): generations,  *)
(* attempts and replacements within their bounds.                          *)
THEOREM ProductionTypes == Spec => []TypeOK
<1>1. ProdInv => TypeOK
  BY DEF ProdInv
<1> QED
  BY <1>1, ProductionInvariant, PTL

(* A closed batch has no article waiting or running (ClosedBatchIsQuiet),  *)
(* since prepare_batch_for_recovery reopens or refuses it first.           *)
THEOREM ClosedBatchesAreQuiet == Spec => []ClosedBatchIsQuiet
<1>1. ProdInv => ClosedBatchIsQuiet
  BY DEF ProdInv
<1> QED
  BY <1>1, ProductionInvariant, PTL

(* The first pass runs one article at a time and ends before the recovery  *)
(* (FirstPassInOrder): _start_next_in_uow starts the runs in order.        *)
THEOREM FirstPassIsInOrder == Spec => []FirstPassInOrder
<1>1. ProdInv => FirstPassInOrder
  <2> SUFFICES ASSUME ProdInv PROVE FirstPassInOrder
    OBVIOUS
  <2>1. ASSUME NEW s \in Subjects, NEW t \in Subjects,
               FirstRun(s), run[ItemRun(s)].status = "running",
               FirstRun(t), run[ItemRun(t)].status = "running"
        PROVE  s = t
    <3>1. PICK i \in DOMAIN Order : Order[i] = s
      BY DEF Subjects
    <3>2. PICK j \in DOMAIN Order : Order[j] = t
      BY DEF Subjects
    <3>3. ~(i < j) /\ ~(j < i)
      BY <2>1, <3>1, <3>2, StatusNames DEF ProdInv, StartedInOrder
    <3>4. i \in Nat /\ j \in Nat
      BY Constants
    <3> QED
      BY <3>1, <3>2, <3>3, <3>4
  <2>2. ASSUME batch.phase # "initial", NEW s \in Subjects, FirstRun(s)
        PROVE  run[ItemRun(s)].status \in TerminalStatuses
    BY <2>2 DEF ProdInv, LaterPhasesFollow
  <2> QED
    BY <2>1, <2>2 DEF FirstPassInOrder
<1> QED
  BY <1>1, ProductionInvariant, PTL

(* A cancelled run comes back only through a request (CancelledStays): the *)
(* handlers, the recovery and the hand-overs in flight leave it alone.     *)
THEOREM CancelledRunsStay == Spec => CancelledStays
<1>1. ProdInv /\ [Next]_vars =>
        [\A r \in RunIds :
           run[r].status = "cancelled" /\ run'[r] # run[r] => requests' # requests]_vars
  <2>1. CASE UNCHANGED vars
    BY <2>1
  <2>2. ASSUME ProdInv, Next
        PROVE  \A r \in RunIds :
                 run[r].status = "cancelled" /\ run'[r] # run[r] => requests' # requests
    BY <2>2, NextKeeps DEF SparesCancelled
  <2> QED
    BY <2>1, <2>2
<1> QED
  BY <1>1, ProductionInvariant, PTL DEF Spec, CancelledStays
=============================================================================
