---------------------------- MODULE ReadsProofs ----------------------------
(***************************************************************************)
(* Proofs about the passive reads, for any tool calls, pages and sharing   *)
(* of effect keys: a tool call drives the coordinator only as the          *)
(* coordinator's own specification allows, and its proof that nothing was  *)
(* sent is right.  The invariant needed is that a tool call has at most    *)
(* one coordinator call under way, the one it waits for.  Its sends are    *)
(* paid by its reservation because they are made in order (PacedInv).      *)
(***************************************************************************)
EXTENDS PassiveReads, EffectsProofs, FiniteSetTheorems

Under(c) == calls[c].pc \notin {"idle", "done", "dead"}

(* At most one reuse is counted per page read.                             *)
ReusesCounted ==
    \A r \in Readers :
        reader[r].reused + (IF reader[r].pc = "done" THEN 0 ELSE 1)
            <= reader[r].request

OneCallAtATime ==
    \A r \in Readers : \A c \in CallsOf(r) :
        Under(c) => reader[r].pc = "wait" /\ c = Current(r)

ProofHolds ==
    \A r \in Readers : reader[r].result = "refused_proven" =>
        /\ reader[r].pc = "done"
        /\ \A c \in CallsOf(r) : ~calls[c].used

RInv == ReadersTypeOK /\ ReusesCounted /\ OneCallAtATime /\ ProofHolds

-----------------------------------------------------------------------------
(* A step of a call is a step of a call under way and of no other call.    *)
LEMMA CallFrame ==
    ASSUME NEW c \in Calls, calls \in [Calls -> Call],
           Proceed(c) \/ PermitExpires(c) \/ Crash(c)
    PROVE  /\ Under(c)
           /\ \A d \in Calls \ {c} : calls'[d] = calls[d]
<1>1. CASE ConsumeStep(c) \/ PermitExpires(c) \/ Crash(c)
  BY <1>1 DEF ConsumeStep, ConsumeCommitted, ConsumeExisting, ConsumeRefused,
     ConsumeUnacknowledged, PermitExpires, Crash, Under, At, Goto, Return
<1>2. CASE GateStep(c)
  BY <1>2 DEF GateStep, EnterHandoff, GateRefuses, GateFails, HandOver,
     Interrupted, Under, At, Goto
<1>3. CASE TransportStep(c)
  BY <1>3 DEF TransportStep, UseCapability, CapabilityRefused, TransportReturns,
     TransportFails, Interrupted, Under, At, Goto
<1>4. CASE RecordStep(c)
  BY <1>4 DEF RecordStep, Complete, CompleteUnacknowledged, CompleteRefused,
     SealZeroHandoff, SealZeroRefused, SealZeroUnacknowledged, SealNeedsReview,
     SealSkipped, Under, At, Goto, Return
<1>5. CASE ExistingStep(c)
  BY <1>5 DEF ExistingStep, ReplayUnfinished, ReplaySettled, DecideReuse,
     RecordReuse, RecordReuseRefused, RecordReuseUnacknowledged,
     ReleaseReservation, ReleaseSkipped, Under, At, Goto, Return
<1> QED
  BY <1>1, <1>2, <1>3, <1>4, <1>5 DEF Proceed

LEMMA CurrentCall ==
    ASSUME ReadersTypeOK, NEW r \in Readers
    PROVE  Current(r) \in CallsOf(r) /\ CallsOf(r) \subseteq Calls
<1>1. reader[r].request \in Requests /\ reader[r].attempt \in Attempts
  BY DEF ReadersTypeOK
<1>2. CallOf[<<r, reader[r].request, reader[r].attempt>>] \in Calls
  BY <1>1, ReadersAssumption
<1> QED
  BY <1>1, <1>2 DEF Current, CallsOf

(* No call serves two tool calls.                                          *)
LEMMA CallsAreApart ==
    ASSUME NEW r \in Readers, NEW s \in Readers, NEW c, c \in CallsOf(r),
           c \in CallsOf(s)
    PROVE  r = s
<1>1. PICK q \in Requests, a \in Attempts : c = CallOf[<<r, q, a>>]
  BY DEF CallsOf
<1>2. PICK p \in Requests, b \in Attempts : c = CallOf[<<s, p, b>>]
  BY DEF CallsOf
<1>3. <<r, q, a>> = <<s, p, b>>
  BY <1>1, <1>2, ReadersAssumption
<1> QED
  BY <1>3

LEMMA CallsAreFinite ==
    ASSUME NEW r \in Readers
    PROVE  IsFiniteSet(CallsOf(r))
<1> DEFINE A == Requests \X Attempts
           f == [x \in A |-> CallOf[<<r, x[1], x[2]>>]]
<1>1. IsFiniteSet(Requests) /\ IsFiniteSet(Attempts)
  <2>1. 1 \in Int /\ 2 \in Int /\ MaxRequests \in Int
    BY ReadersAssumption
  <2> QED
    BY <2>1, FS_Interval DEF Requests, Attempts
<1>2. IsFiniteSet(A)
  BY <1>1, FS_Product
<1>3. f \in Surjection(A, CallsOf(r))
  <2>1. \A x \in A : f[x] \in CallsOf(r)
    BY ReadersAssumption DEF CallsOf
  <2>2. \A c \in CallsOf(r) : \E x \in A : f[x] = c
    <3> TAKE c \in CallsOf(r)
    <3>1. PICK q \in Requests, a \in Attempts : c = CallOf[<<r, q, a>>]
      BY DEF CallsOf
    <3>2. <<q, a>> \in A /\ f[<<q, a>>] = c
      BY <3>1
    <3> QED
      BY <3>2
  <2>3. f \in [A -> CallsOf(r)]
    BY <2>1
  <2> HIDE DEF f, A
  <2> QED
    BY <2>2, <2>3 DEF Surjection
<1> HIDE DEF f, A
<1> QED
  BY <1>2, <1>3, FS_Surjection

(* A tool call that counted no send made none.                             *)
LEMMA NoSendCounted ==
    ASSUME NEW r \in Readers, SentBy(r) = 0
    PROVE  \A c \in CallsOf(r) : ~calls[c].used
<1> DEFINE U == {c \in CallsOf(r) : calls[c].used}
<1>1. IsFiniteSet(U)
  BY CallsAreFinite, FS_Subset
<1>2. U = {}
  BY <1>1, FS_EmptySet DEF SentBy
<1> QED
  BY <1>2

-----------------------------------------------------------------------------
(* The steps of the coordinator that no tool call takes.                   *)
LEMMA BackgroundSound ==
    ASSUME RInv, EInv, NEW c \in Calls, UNCHANGED reader,
           Under(c), \A d \in Calls \ {c} : calls'[d] = calls[d]
    PROVE  RInv'
<1>1. ReadersTypeOK' /\ ReusesCounted'
  BY DEF RInv, ReadersTypeOK, ReusesCounted
<1>2. OneCallAtATime'
  <2> SUFFICES ASSUME NEW r \in Readers, NEW d \in CallsOf(r), Under(d)'
               PROVE  reader[r].pc = "wait" /\ d = Current(r)
    BY DEF OneCallAtATime, CallsOf, Current
  <2>1. d \in Calls
    BY DEF CallsOf
  <2>2. Under(d)
    BY <2>1 DEF Under
  <2> QED
    BY <2>2 DEF RInv, OneCallAtATime
<1>3. ProofHolds'
  <2> SUFFICES ASSUME NEW r \in Readers, reader[r].result = "refused_proven",
                      NEW d \in CallsOf(r)
               PROVE  ~calls'[d].used
    BY DEF RInv, ProofHolds, CallsOf
  <2>1. reader[r].pc = "done" /\ ~calls[d].used
    BY DEF RInv, ProofHolds
  <2>2. d # c
    BY <2>1 DEF RInv, OneCallAtATime
  <2>3. d \in Calls
    BY DEF CallsOf
  <2> QED
    BY <2>1, <2>2, <2>3
<1> QED
  BY <1>1, <1>2, <1>3 DEF RInv

(* A call that no tool call made begins, dies or is not touched.           *)
LEMMA OthersSound ==
    ASSUME RInv, EInv, UNCHANGED reader,
           \A r \in Readers : \A d \in CallsOf(r) : calls'[d] = calls[d]
    PROVE  RInv'
<1>1. ReadersTypeOK' /\ ReusesCounted'
  BY DEF RInv, ReadersTypeOK, ReusesCounted
<1>2. OneCallAtATime'
  BY DEF RInv, OneCallAtATime, CallsOf, Current, Under
<1>3. ProofHolds'
  BY DEF RInv, ProofHolds, CallsOf
<1> QED
  BY <1>1, <1>2, <1>3 DEF RInv

(* A tool call moves to the record n while no call of it is under way.     *)
LEMMA ReaderMoves ==
    ASSUME RInv, EInv, NEW r \in Readers, NEW n,
           UNCHANGED calls, reader' = [reader EXCEPT ![r] = n],
           \A c \in CallsOf(r) : ~Under(c),
           n \in [pc : {"request", "wait", "done", "dead"}, request : Requests,
                  attempt : Attempts, slots : 0 .. 1, reused : 0 .. MaxRequests,
                  result : ReadResult],
           n.reused + (IF n.pc = "done" THEN 0 ELSE 1) <= n.request,
           n.result = "refused_proven" =>
               n.pc = "done" /\ \A c \in CallsOf(r) : ~calls[c].used
    PROVE  RInv'
<1>1. /\ reader'[r] = n
      /\ \A s \in Readers \ {r} : reader'[s] = reader[s]
  BY DEF RInv, ReadersTypeOK
<1>2. ReadersTypeOK'
  BY DEF RInv, ReadersTypeOK
<1>3. ReusesCounted'
  <2> SUFFICES ASSUME NEW s \in Readers
               PROVE  reader'[s].reused + (IF reader'[s].pc = "done" THEN 0 ELSE 1)
                          <= reader'[s].request
    BY DEF ReusesCounted
  <2>1. CASE s = r
    BY <1>1, <2>1
  <2>2. CASE s # r
    BY <1>1, <2>2 DEF RInv, ReusesCounted
  <2> QED
    BY <2>1, <2>2
<1>4. OneCallAtATime'
  <2> SUFFICES ASSUME NEW s \in Readers, NEW c \in CallsOf(s), Under(c)
               PROVE  reader'[s].pc = "wait" /\ c = Current(s)'
    BY DEF OneCallAtATime, CallsOf, Under
  <2>1. s # r
    OBVIOUS
  <2>2. reader[s].pc = "wait" /\ c = Current(s)
    BY DEF RInv, OneCallAtATime
  <2> QED
    BY <1>1, <2>1, <2>2 DEF Current
<1>5. ProofHolds'
  BY <1>1 DEF RInv, ProofHolds, CallsOf
<1> QED
  BY <1>2, <1>3, <1>4, <1>5 DEF RInv

-----------------------------------------------------------------------------
(* A tool call begins the coordinator call of its next attempt.            *)
LEMMA DispatchSound ==
    ASSUME RInv, EInv, NEW r \in Readers, Dispatch(r)
    PROVE  RInv'
<1> DEFINE c == Current(r)
<1>1. /\ c \in CallsOf(r) /\ c \in Calls /\ calls \in [Calls -> Call]
      /\ reader[r].pc = "request"
  BY CurrentCall DEF RInv, EInv, TypeOK, Dispatch
<1>2. /\ calls' = [calls EXCEPT ![c].pc = "consume",
                                ![c].expected = envelope.version]
      /\ calls[c].pc = "idle"
  BY DEF Dispatch, Begin, At
<1>3. /\ reader'[r] = [reader[r] EXCEPT !.pc = "wait"]
      /\ \A s \in Readers \ {r} : reader'[s] = reader[s]
  BY DEF Dispatch, RInv, ReadersTypeOK
<1>4. calls'[c].used = calls[c].used /\ \A d \in Calls \ {c} : calls'[d] = calls[d]
  BY <1>1, <1>2 DEF Call
<1>5. Current(r)' = c /\ \A s \in Readers \ {r} : Current(s)' = Current(s)
  BY <1>3 DEF Current, RInv, ReadersTypeOK
<1> HIDE DEF c
<1>6. ReadersTypeOK'
  BY DEF Dispatch, RInv, ReadersTypeOK
<1>7. ReusesCounted'
  BY <1>1, <1>3 DEF RInv, ReadersTypeOK, ReusesCounted
<1>8. OneCallAtATime'
  <2> SUFFICES ASSUME NEW s \in Readers, NEW d \in CallsOf(s), Under(d)'
               PROVE  reader'[s].pc = "wait" /\ d = Current(s)'
    BY DEF OneCallAtATime, CallsOf
  <2>0. d \in Calls
    BY DEF CallsOf
  <2>1. CASE d = c
    <3>1. s = r
      BY <1>1, <2>1, CallsAreApart
    <3> QED
      BY <1>3, <1>5, <2>1, <3>1 DEF RInv, ReadersTypeOK
  <2>2. CASE d # c
    <3>1. Under(d)
      BY <1>4, <2>0, <2>2 DEF Under
    <3>2. reader[s].pc = "wait" /\ d = Current(s)
      BY <3>1 DEF RInv, OneCallAtATime
    <3>3. s # r
      BY <1>1, <3>2
    <3> QED
      BY <1>3, <1>5, <3>2, <3>3
  <2> QED
    BY <2>1, <2>2
<1>9. ProofHolds'
  <2> SUFFICES ASSUME NEW s \in Readers, reader'[s].result = "refused_proven"
               PROVE  reader'[s].pc = "done" /\ \A d \in CallsOf(s) : ~calls'[d].used
    BY DEF ProofHolds, CallsOf
  <2>1. reader[s].result = "refused_proven"
    BY <1>3 DEF RInv, ReadersTypeOK
  <2>2. reader[s].pc = "done" /\ \A d \in CallsOf(s) : ~calls[d].used
    BY <2>1 DEF RInv, ProofHolds
  <2>3. s # r
    BY <1>1, <2>2
  <2> QED
    BY <1>3, <1>4, <2>2, <2>3 DEF CallsOf
<1> QED
  BY <1>6, <1>7, <1>8, <1>9 DEF RInv

(* The process dies with the call it waits for.                            *)
LEMMA ReaderDiesSound ==
    ASSUME RInv, EInv, NEW r \in Readers, ReaderDies(r)
    PROVE  RInv'
<1> DEFINE c == Current(r)
<1>1. /\ c \in CallsOf(r) /\ c \in Calls /\ calls \in [Calls -> Call]
      /\ reader[r].pc = "wait"
  BY CurrentCall DEF RInv, EInv, TypeOK, ReaderDies
<1>2. calls' = [calls EXCEPT ![c].pc = "dead"]
  BY DEF ReaderDies, Crash, Goto
<1>3. /\ reader'[r] = [reader[r] EXCEPT !.pc = "dead"]
      /\ \A s \in Readers \ {r} : reader'[s] = reader[s]
  BY DEF ReaderDies, RInv, ReadersTypeOK
<1>4. /\ calls'[c].used = calls[c].used /\ calls'[c].pc = "dead"
      /\ \A d \in Calls \ {c} : calls'[d] = calls[d]
  BY <1>1, <1>2 DEF Call
<1>5. \A s \in Readers \ {r} : Current(s)' = Current(s)
  BY <1>3 DEF Current
<1>6. \A d \in CallsOf(r) : Under(d) => d = c
  BY DEF RInv, OneCallAtATime
<1> HIDE DEF c
<1>7. ReadersTypeOK'
  BY DEF ReaderDies, RInv, ReadersTypeOK
<1>8. ReusesCounted'
  BY <1>1, <1>3 DEF RInv, ReadersTypeOK, ReusesCounted
<1>9. OneCallAtATime'
  <2> SUFFICES ASSUME NEW s \in Readers, NEW d \in CallsOf(s), Under(d)'
               PROVE  reader'[s].pc = "wait" /\ d = Current(s)'
    BY DEF OneCallAtATime, CallsOf
  <2>1. d \in Calls /\ d # c
    BY <1>4 DEF CallsOf, Under
  <2>2. Under(d)
    BY <1>4, <2>1 DEF Under
  <2>3. s # r
    BY <1>6, <2>1, <2>2
  <2> QED
    BY <1>3, <1>5, <2>2, <2>3 DEF RInv, OneCallAtATime
<1>10. ProofHolds'
  <2> SUFFICES ASSUME NEW s \in Readers, reader'[s].result = "refused_proven"
               PROVE  reader'[s].pc = "done" /\ \A d \in CallsOf(s) : ~calls'[d].used
    BY DEF ProofHolds, CallsOf
  <2>1. reader[s].result = "refused_proven"
    BY <1>3 DEF RInv, ReadersTypeOK
  <2>2. reader[s].pc = "done" /\ \A d \in CallsOf(s) : ~calls[d].used
    BY <2>1 DEF RInv, ProofHolds
  <2>3. s # r
    BY <1>1, <2>2
  <2> QED
    BY <1>3, <1>4, <2>2, <2>3 DEF CallsOf
<1> QED
  BY <1>7, <1>8, <1>9, <1>10 DEF RInv

-----------------------------------------------------------------------------
(* The tool call takes the outcome of the call it waited for.              *)
ReadRecord == [pc : {"request", "wait", "done", "dead"}, request : Requests,
               attempt : Attempts, slots : 0 .. 1, reused : 0 .. MaxRequests,
               result : ReadResult]

LEMMA OutcomeTaken ==
    ASSUME RInv, EInv, NEW r \in Readers, NEW O, Returned(r, O)
    PROVE  /\ \A c \in CallsOf(r) : ~Under(c)
           /\ UNCHANGED calls
           /\ reader[r] \in ReadRecord /\ reader[r].pc = "wait"
           /\ reader[r].result # "refused_proven"
           /\ reader[r].reused + 1 <= reader[r].request
<1>1. reader[r].pc = "wait" /\ calls[Current(r)].pc = "done" /\ UNCHANGED calls
  BY DEF Returned, vars
<1>2. \A c \in CallsOf(r) : ~Under(c)
  BY <1>1 DEF RInv, OneCallAtATime, Under
<1>3. reader[r] \in ReadRecord
  BY DEF RInv, ReadersTypeOK, ReadRecord
<1>4. reader[r].result # "refused_proven"
  BY <1>1 DEF RInv, ProofHolds
<1>5. reader[r].reused + 1 <= reader[r].request
  BY <1>1, <1>3 DEF RInv, ReusesCounted
<1> QED
  BY <1>1, <1>2, <1>3, <1>4, <1>5

LEMMA FinishSound ==
    ASSUME RInv, EInv, NEW r \in Readers, NEW O, Returned(r, O),
           NEW result \in ReadResult, Finish(r, result),
           result = "refused_proven" => \A c \in CallsOf(r) : ~calls[c].used
    PROVE  RInv'
<1> DEFINE n == [reader[r] EXCEPT !.pc = "done", !.result = result]
<1>1. /\ reader[r] \in ReadRecord /\ reader[r].reused + 1 <= reader[r].request
      /\ \A c \in CallsOf(r) : ~Under(c)
      /\ UNCHANGED calls
  BY OutcomeTaken
<1>2. n \in ReadRecord
  BY <1>1 DEF ReadRecord
<1>3. n.pc = "done" /\ n.reused = reader[r].reused /\ n.request = reader[r].request
      /\ n.result = result
  BY <1>1 DEF ReadRecord
<1>4. reader' = [reader EXCEPT ![r] = n]
  BY DEF Finish
<1> HIDE DEF n
<1>5. n.reused + (IF n.pc = "done" THEN 0 ELSE 1) <= n.request
  BY <1>1, <1>3 DEF ReadRecord, Requests
<1> QED
  BY <1>1, <1>2, <1>3, <1>4, <1>5, ReaderMoves DEF ReadRecord

LEMMA RetrySound ==
    ASSUME RInv, EInv, NEW r \in Readers, NEW O, Returned(r, O),
           NEW retryable \in BOOLEAN, RetryOrReview(r, retryable)
    PROVE  RInv'
<1>1. CASE Finish(r, "needs_review")
  BY <1>1, FinishSound DEF ReadResult
<1>2. CASE reader[r].slots > 0 /\ reader' = [reader EXCEPT ![r] = RetryTaken(r)]
  <2> DEFINE n == RetryTaken(r)
  <2>1. /\ reader[r] \in ReadRecord /\ reader[r].reused + 1 <= reader[r].request
        /\ reader[r].result # "refused_proven"
        /\ \A c \in CallsOf(r) : ~Under(c)
        /\ UNCHANGED calls
    BY OutcomeTaken
  <2>2. n \in ReadRecord
    <3>1. reader[r].slots - 1 \in 0 .. 1 /\ 2 \in Attempts
      BY <1>2, <2>1 DEF ReadRecord, Attempts
    <3> QED
      BY <2>1, <3>1 DEF ReadRecord, RetryTaken
  <2>3. n.pc = "request" /\ n.reused = reader[r].reused
        /\ n.request = reader[r].request /\ n.result = reader[r].result
    BY <2>1 DEF ReadRecord, RetryTaken
  <2> HIDE DEF n
  <2>4. n.reused + (IF n.pc = "done" THEN 0 ELSE 1) <= n.request
    BY <2>1, <2>3 DEF ReadRecord, Requests
  <2>5. reader' = [reader EXCEPT ![r] = n]
    BY <1>2 DEF n
  <2> QED
    BY <2>1, <2>2, <2>3, <2>4, <2>5, ReaderMoves DEF ReadRecord
<1> QED
  BY <1>1, <1>2 DEF RetryOrReview

LEMMA PageReadSound ==
    ASSUME RInv, EInv, NEW r \in Readers, NEW more \in BOOLEAN, PageRead(r, more)
    PROVE  RInv'
<1> DEFINE reused == reader[r].reused + (IF FromEarlier(Current(r)) THEN 1 ELSE 0)
           n == [reader[r] EXCEPT !.reused = reused,
                   !.pc = IF more THEN "request" ELSE "done",
                   !.request = IF more THEN @ + 1 ELSE @,
                   !.attempt = IF more THEN 1 ELSE @,
                   !.result = IF more THEN @ ELSE "succeeded"]
<1>0. Returned(r, {"completed", "reused"})
  BY DEF PageRead
<1>1. /\ reader[r] \in ReadRecord /\ reader[r].reused + 1 <= reader[r].request
      /\ reader[r].result # "refused_proven"
      /\ \A c \in CallsOf(r) : ~Under(c)
      /\ UNCHANGED calls
  BY <1>0, OutcomeTaken
<1>2. reader' = [reader EXCEPT ![r] = n]
  BY DEF PageRead
<1>3. more => reader[r].request < MaxRequests
  BY DEF PageRead, PagesLeft
<1>4. reused \in Nat /\ reused <= reader[r].request /\ reader[r].request \in 1 .. MaxRequests
  BY <1>1 DEF ReadRecord, Requests
<1> HIDE DEF reused
<1>5. n \in ReadRecord
  <2>1. reused \in 0 .. MaxRequests /\ 1 \in Attempts /\ "succeeded" \in ReadResult
    BY <1>4, ReadersAssumption DEF Attempts, ReadResult
  <2>2. CASE more
    <3>1. reader[r].request + 1 \in Requests
      BY <1>3, <1>4, <2>2, ReadersAssumption DEF Requests
    <3> QED
      BY <1>1, <2>1, <2>2, <3>1 DEF ReadRecord
  <2>3. CASE ~more
    BY <1>1, <2>1, <2>3 DEF ReadRecord
  <2> QED
    BY <2>2, <2>3
<1>6. /\ n.pc = (IF more THEN "request" ELSE "done") /\ n.reused = reused
      /\ n.request = (IF more THEN reader[r].request + 1 ELSE reader[r].request)
      /\ n.result # "refused_proven"
  BY <1>1 DEF ReadRecord
<1> HIDE DEF n
<1>7. n.reused + (IF n.pc = "done" THEN 0 ELSE 1) <= n.request
  BY <1>4, <1>6
<1> QED
  BY <1>1, <1>2, <1>5, <1>6, <1>7, ReaderMoves DEF ReadRecord

LEMMA RefusalSound ==
    ASSUME RInv, EInv, NEW r \in Readers, RefusalEnds(r)
    PROVE  RInv'
<1>0. Returned(r, {"refused", "reuse_unrecorded", "not_submitted"})
  BY DEF RefusalEnds
<1>1. CASE calls[Current(r)].outcome = "refused" /\ NothingCounted(r)
  <2>1. \A c \in CallsOf(r) : ~calls[c].used
    BY <1>1, NoSendCounted DEF NothingCounted
  <2>2. Finish(r, "refused_proven")
    BY <1>1 DEF RefusalEnds
  <2> QED
    BY <1>0, <2>1, <2>2, FinishSound DEF ReadResult
<1>2. CASE ~(calls[Current(r)].outcome = "refused" /\ NothingCounted(r))
  <2>1. Finish(r, "refused_unproven")
    BY <1>2 DEF RefusalEnds
  <2> QED
    BY <1>0, <2>1, FinishSound DEF ReadResult
<1> QED
  BY <1>1, <1>2

LEMMA ReaderStepSound ==
    ASSUME RInv, EInv, NEW r \in Readers, ReaderStep(r)
    PROVE  RInv'
<1>1. CASE Dispatch(r)
  BY <1>1, DispatchSound
<1>2. CASE InDoubt(r)
  <2>1. calls[Current(r)].retryable \in BOOLEAN
    BY CurrentCall DEF RInv, EInv, TypeOK, Call
  <2> QED
    BY <1>2, <2>1, RetrySound DEF InDoubt
<1>3. CASE ArchiveUnreadable(r)
  BY <1>3, RetrySound DEF ArchiveUnreadable
<1>4. CASE RefusalEnds(r)
  BY <1>4, RefusalSound
<1>5. ASSUME NEW more \in BOOLEAN, PageRead(r, more) PROVE RInv'
  BY <1>5, PageReadSound
<1>6. CASE ReaderDies(r)
  BY <1>6, ReaderDiesSound
<1> QED
  BY <1>1, <1>2, <1>3, <1>4, <1>5, <1>6 DEF ReaderStep

LEMMA ReadStepSound ==
    ASSUME RInv, EInv, [ReadNext]_readVars
    PROVE  RInv' /\ [Next]_vars
<1>0. calls \in [Calls -> Call]
  BY DEF EInv, TypeOK
<1>1. ASSUME NEW r \in Readers, ReaderStep(r) PROVE RInv' /\ [Next]_vars
  <2>0. Current(r) \in Calls
    BY CurrentCall DEF RInv
  <2>1. \/ Begin(Current(r)) \/ Crash(Current(r)) \/ UNCHANGED vars
    BY <1>1 DEF ReaderStep, Dispatch, ReaderDies, InDoubt, ArchiveUnreadable,
       RefusalEnds, PageRead, Returned
  <2>2. RInv'
    BY <1>1, ReaderStepSound
  <2> QED
    BY <2>0, <2>1, <2>2 DEF Next, CallStep
<1>2. ASSUME NEW c \in Calls, Proceed(c) \/ PermitExpires(c), UNCHANGED reader
      PROVE  RInv' /\ [Next]_vars
  <2>1. Under(c) /\ \A d \in Calls \ {c} : calls'[d] = calls[d]
    BY <1>0, <1>2, CallFrame
  <2>2. RInv'
    BY <1>2, <2>1, BackgroundSound
  <2> QED
    BY <1>2, <2>2 DEF Next, CallStep
<1>3. ASSUME NEW c \in OtherCalls, Begin(c) \/ Crash(c), UNCHANGED reader
      PROVE  RInv' /\ [Next]_vars
  <2>1. c \in Calls /\ \A r \in Readers : c \notin CallsOf(r)
    BY DEF OtherCalls
  <2>2. \A d \in Calls \ {c} : calls'[d] = calls[d]
    BY <1>0, <1>3, <2>1 DEF Begin, Crash, Goto
  <2>3. RInv'
    BY <1>3, <2>1, <2>2, OthersSound DEF CallsOf
  <2> QED
    BY <1>3, <2>1, <2>3 DEF Next, CallStep
<1>4. CASE InvestigationStep /\ UNCHANGED reader
  <2>1. UNCHANGED calls
    BY <1>4 DEF InvestigationStep, Govern, SetStopped, ReviewTool, SettleTool,
       SaveBudget
  <2>2. RInv'
    BY <1>4, <2>1, OthersSound
  <2> QED
    BY <1>4, <2>2 DEF Next
<1>5. CASE UNCHANGED readVars
  <2>1. UNCHANGED vars /\ UNCHANGED reader /\ UNCHANGED calls
    BY <1>5 DEF readVars, vars
  <2> QED
    BY <2>1, OthersSound
<1> QED
  BY <1>1, <1>2, <1>3, <1>4, <1>5 DEF ReadNext

LEMMA ReadInitSound == ReadInit => RInv /\ EInv
<1> SUFFICES ASSUME ReadInit PROVE RInv /\ EInv
  OBVIOUS
<1>1. EInv
  BY InitSound DEF ReadInit
<1>2. ReadersTypeOK /\ ReusesCounted
  BY ReadersAssumption DEF ReadInit, ReadersTypeOK, ReusesCounted, Requests,
     Attempts, ReadResult
<1>3. OneCallAtATime /\ ProofHolds
  BY DEF ReadInit, Init, OneCallAtATime, ProofHolds, CallsOf, Under
<1> QED
  BY <1>1, <1>2, <1>3 DEF RInv

LEMMA ReadInvariance == ReadSpec => [](RInv /\ EInv)
<1>1. RInv /\ EInv /\ [ReadNext]_readVars => (RInv /\ EInv)'
  BY ReadStepSound, StepSound
<1> QED
  BY <1>1, ReadInitSound, PTL DEF ReadSpec

(* The tool calls keep their types: no page, retry slot or reuse count     *)
(* goes past its bound.                                                    *)
THEOREM ReadersTypeCorrect == ReadSpec => []ReadersTypeOK
<1>1. RInv => ReadersTypeOK
  BY DEF RInv
<1> QED
  BY <1>1, ReadInvariance, PTL

(* A tool call that reports a proven pre-send refusal, and so gets its     *)
(* whole reservation back, sent nothing.                                   *)
THEOREM PreSendProofsAreTrue == ReadSpec => []ProvenRefusalSentNothing
<1>1. RInv => ProvenRefusalSentNothing
  BY DEF RInv, ProofHolds, ProvenRefusalSentNothing
<1> QED
  BY <1>1, ReadInvariance, PTL

(* Retries, pages and deaths of a tool call drive the coordinator only as  *)
(* its own specification allows, so all that is proved of it holds here.   *)
THEOREM ReadsAreCoordinated == ReadSpec => Spec /\ ImplementsOnceOnly
<1>1. ReadInit => Init
  BY DEF ReadInit
<1>2. RInv /\ EInv /\ [ReadNext]_readVars => [Next]_vars
  BY ReadStepSound
<1>3. ReadSpec => Spec
  BY <1>1, <1>2, ReadInvariance, PTL DEF ReadSpec, Spec
<1> QED
  BY <1>3, CoordinatorImplementsOnceOnly, PTL

-----------------------------------------------------------------------------
(* The sends of a tool call.  SendsWithinReservation counts; what makes    *)
(* the count right is which attempts can have been sent: those up to the   *)
(* current one, and one second attempt, paid by the shared retry slot.     *)

Sent(r, q, a) == calls[CallOf[<<r, q, a>>]].used

Paced(r) ==
    /\ \A q \in Requests, a \in Attempts : Sent(r, q, a) =>
          \/ q < reader[r].request
          \/ q = reader[r].request /\ a <= reader[r].attempt
    /\ reader[r].attempt = 2 => reader[r].slots = 0
    /\ \A q \in Requests : Sent(r, q, 2) =>
          /\ reader[r].slots = 0
          /\ reader[r].attempt = 2 => q = reader[r].request
          /\ \A p \in Requests : Sent(r, p, 2) => p = q

PacedInv == \A r \in Readers : Paced(r)

(* A tool call that stays at its attempt sends nothing but that attempt.   *)
LEMMA AttemptPaced ==
    ASSUME ReadersTypeOK, NEW r \in Readers, Paced(r),
           \A c \in CallsOf(r) : calls'[c].used => calls[c].used \/ c = Current(r),
           reader'[r].request = reader[r].request,
           reader'[r].attempt = reader[r].attempt,
           reader'[r].slots = reader[r].slots
    PROVE  Paced(r)'
<1>1. ASSUME NEW q \in Requests, NEW a \in Attempts, Sent(r, q, a)'
      PROVE  Sent(r, q, a) \/ (q = reader[r].request /\ a = reader[r].attempt)
  <2>1. CallOf[<<r, q, a>>] \in CallsOf(r)
    BY ReadersAssumption DEF CallsOf
  <2>2. CASE CallOf[<<r, q, a>>] = Current(r)
    <3>1. reader[r].request \in Requests /\ reader[r].attempt \in Attempts
      BY DEF ReadersTypeOK
    <3>2. <<r, q, a>> = <<r, reader[r].request, reader[r].attempt>>
      BY <2>2, <3>1, ReadersAssumption DEF Current
    <3> QED
      BY <3>2
  <2> QED
    BY <1>1, <2>1, <2>2 DEF Sent
<1>2. reader[r].attempt \in 1 .. 2 /\ 2 \in Attempts
  BY DEF ReadersTypeOK, Attempts
<1>3. ASSUME NEW q \in Requests, NEW a \in Attempts, Sent(r, q, a)'
      PROVE  q < reader[r].request \/ (q = reader[r].request /\ a <= reader[r].attempt)
  BY <1>1, <1>2, <1>3 DEF Paced
<1>4. ASSUME NEW q \in Requests, Sent(r, q, 2)'
      PROVE  /\ reader[r].slots = 0
             /\ reader[r].attempt = 2 => q = reader[r].request
             /\ \A p \in Requests : Sent(r, p, 2)' => p = q
  <2>1. Sent(r, q, 2) \/ (q = reader[r].request /\ reader[r].attempt = 2)
    BY <1>1, <1>2, <1>4
  <2>2. \A p \in Requests : Sent(r, p, 2)' =>
            Sent(r, p, 2) \/ (p = reader[r].request /\ reader[r].attempt = 2)
    BY <1>1, <1>2
  <2> QED
    BY <2>1, <2>2 DEF Paced
<1> HIDE DEF Sent
<1> QED
  BY <1>3, <1>4 DEF Paced

(* A tool call that takes the retry slot, or asks for another page, has    *)
(* sent no attempt beyond the one it leaves.                               *)
LEMMA AdvancePaced ==
    ASSUME ReadersTypeOK, NEW r \in Readers, Paced(r), UNCHANGED calls,
           \/ /\ reader[r].attempt = 1 /\ reader[r].slots > 0
              /\ reader'[r].request = reader[r].request
              /\ reader'[r].attempt = 2 /\ reader'[r].slots = reader[r].slots - 1
           \/ /\ reader'[r].request = reader[r].request + 1
              /\ reader'[r].attempt = 1 /\ reader'[r].slots = reader[r].slots
    PROVE  Paced(r)'
<1>0. reader[r].slots \in 0 .. 1 /\ reader[r].request \in Nat /\ Requests \subseteq Nat
  BY ReadersAssumption DEF ReadersTypeOK, Requests
<1>1. \A q \in Requests, a \in Attempts : Sent(r, q, a)' <=> Sent(r, q, a)
  BY DEF Sent
<1>t. 2 \in Attempts
  BY DEF Attempts
<1>2. CASE /\ reader[r].attempt = 1 /\ reader[r].slots > 0
           /\ reader'[r].request = reader[r].request
           /\ reader'[r].attempt = 2 /\ reader'[r].slots = reader[r].slots - 1
  <2>1. \A q \in Requests : ~Sent(r, q, 2)
    BY <1>2 DEF Paced
  <2>2. \A q \in Requests, a \in Attempts : Sent(r, q, a) =>
            q < reader'[r].request \/ (q = reader'[r].request /\ a <= 2)
    BY <1>2 DEF Paced, Attempts
  <2>3. reader'[r].slots = 0
    BY <1>0, <1>2
  <2> HIDE DEF Sent
  <2> QED
    BY <1>1, <1>2, <1>t, <2>1, <2>2, <2>3 DEF Paced
<1>3. CASE /\ reader'[r].request = reader[r].request + 1
           /\ reader'[r].attempt = 1 /\ reader'[r].slots = reader[r].slots
  <2>1. \A q \in Requests, a \in Attempts : Sent(r, q, a) => q < reader'[r].request
    BY <1>0, <1>3 DEF Paced
  <2>2. \A q \in Requests : Sent(r, q, 2) =>
            reader'[r].slots = 0 /\ \A p \in Requests : Sent(r, p, 2) => p = q
    BY <1>3 DEF Paced
  <2>3. reader'[r].attempt # 2
    BY <1>3
  <2> HIDE DEF Sent
  <2> QED
    BY <1>1, <1>t, <2>1, <2>2, <2>3 DEF Paced
<1> QED
  BY <1>2, <1>3

(* Paced sends are within the reservation.                                 *)
LEMMA PacedIsWithin ==
    ASSUME ReadersTypeOK, NEW r \in Readers, Paced(r)
    PROVE  SentBy(r) <= reader[r].request + 1
<1> DEFINE n == reader[r].request
           f == [q \in 1 .. n |-> CallOf[<<r, q, 1>>]]
           F == {CallOf[<<r, q, 1>>] : q \in 1 .. n}
           U == {c \in CallsOf(r) : calls[c].used}
<1>0. n \in Nat /\ n >= 1 /\ n \in Int /\ 1 \in Int /\ 1 .. n \subseteq Requests
  BY ReadersAssumption DEF ReadersTypeOK, Requests
<1>1. IsFiniteSet(1 .. n) /\ Cardinality(1 .. n) = n
  <2> HIDE DEF n
  <2> QED
    BY <1>0, FS_Interval
<1>2. f \in Surjection(1 .. n, F)
  <2> HIDE DEF n
  <2> QED
    BY DEF Surjection
<1>3. IsFiniteSet(F) /\ Cardinality(F) <= n
  <2> HIDE DEF f, F, n
  <2> QED
    BY <1>1, <1>2, FS_Surjection
<1>4. ASSUME NEW c \in U
      PROVE  \/ c \in F
             \/ \E q \in Requests : Sent(r, q, 2) /\ c = CallOf[<<r, q, 2>>]
  <2>1. PICK q \in Requests, a \in Attempts : c = CallOf[<<r, q, a>>]
    BY <1>4 DEF CallsOf
  <2>2. Sent(r, q, a)
    BY <1>4, <2>1 DEF Sent
  <2>3. a = 1 \/ a = 2
    BY DEF Attempts
  <2>4. q \in 1 .. n
    BY <1>0, <2>2, ReadersAssumption DEF Paced, Requests
  <2> QED
    BY <2>1, <2>2, <2>3, <2>4
<1>5. Cardinality(F) \in Nat
  BY <1>3, FS_CardinalityType
<1> HIDE DEF n, f, F
<1>6. CASE \E p \in Requests : Sent(r, p, 2)
  <2>1. PICK p \in Requests : Sent(r, p, 2)
    BY <1>6
  <2> DEFINE x == CallOf[<<r, p, 2>>]
  <2>2. U \subseteq F \union {x}
    BY <1>4, <2>1 DEF Paced
  <2> HIDE DEF x, U
  <2>3. IsFiniteSet(F \union {x}) /\ Cardinality(F \union {x}) <= n + 1
    <3>1. /\ IsFiniteSet(F \union {x})
          /\ Cardinality(F \union {x}) =
                IF x \in F THEN Cardinality(F) ELSE Cardinality(F) + 1
      BY <1>3, FS_AddElement
    <3>2. n \in Nat
      BY <1>0
    <3> QED
      BY <3>1, <3>2, <1>3, <1>5
  <2>4. Cardinality(F \union {x}) \in Nat
    BY <2>3, FS_CardinalityType
  <2>5. IsFiniteSet(U) /\ Cardinality(U) <= Cardinality(F \union {x})
    BY <2>2, <2>3, FS_Subset
  <2>6. Cardinality(U) \in Nat
    BY <2>5, FS_CardinalityType
  <2> QED
    BY <1>0, <2>3, <2>4, <2>5, <2>6 DEF SentBy, U, n
<1>7. CASE ~\E p \in Requests : Sent(r, p, 2)
  <2>1. U \subseteq F
    BY <1>4, <1>7
  <2> HIDE DEF U
  <2>2. IsFiniteSet(U) /\ Cardinality(U) <= Cardinality(F)
    BY <1>3, <2>1, FS_Subset
  <2>3. Cardinality(U) \in Nat
    BY <2>2, FS_CardinalityType
  <2> QED
    BY <1>0, <1>3, <1>5, <2>2, <2>3 DEF SentBy, U, n
<1> QED
  BY <1>6, <1>7

(* Every step of the tool calls and of the coordinator keeps the pace.     *)
LEMMA PacedSteps ==
    ASSUME RInv, EInv, PacedInv, [ReadNext]_readVars
    PROVE  PacedInv'
<1>0. ReadersTypeOK /\ calls \in [Calls -> Call] /\ \A r \in Readers : CallsOf(r) \subseteq Calls
  BY CurrentCall DEF RInv, EInv, TypeOK
<1> SUFFICES ASSUME NEW s \in Readers PROVE Paced(s)'
  BY DEF PacedInv
<1>p. Paced(s) /\ reader[s] \in ReadRecord
  BY <1>0 DEF PacedInv, ReadersTypeOK, ReadRecord
<1>c. ASSUME NEW c \in Calls, Under(c), \A d \in Calls \ {c} : calls'[d] = calls[d]
      PROVE  \A d \in CallsOf(s) : calls'[d].used => calls[d].used \/ d = Current(s)
  <2> TAKE d \in CallsOf(s)
  <2>1. d = c => d = Current(s)
    BY <1>c DEF RInv, OneCallAtATime
  <2>2. d # c => calls'[d] = calls[d]
    BY <1>0, <1>c
  <2> QED
    BY <2>1, <2>2
<1>u. (\A d \in CallsOf(s) : calls'[d].used = calls[d].used) =>
         \A d \in CallsOf(s) : calls'[d].used => calls[d].used \/ d = Current(s)
  OBVIOUS
<1>k. ASSUME \A d \in CallsOf(s) : calls'[d].used => calls[d].used \/ d = Current(s),
             UNCHANGED reader
      PROVE  Paced(s)'
  BY <1>0, <1>p, <1>k, AttemptPaced
<1>1. ASSUME NEW r \in Readers, ReaderStep(r) PROVE Paced(s)'
  <2>r. reader[r] \in ReadRecord
    BY <1>0 DEF ReadersTypeOK, ReadRecord
  <2>s. ASSUME NEW n, reader' = [reader EXCEPT ![r] = n]
        PROVE  reader'[r] = n /\ (s # r => reader'[s] = reader[s])
    BY <1>0, <2>s DEF ReadersTypeOK
  <2>f. ASSUME NEW n, reader' = [reader EXCEPT ![r] = n],
               n.request = reader[r].request, n.attempt = reader[r].attempt,
               n.slots = reader[r].slots,
               \A d \in CallsOf(s) : calls'[d].used = calls[d].used
        PROVE  Paced(s)'
    <3>1. /\ reader'[s].request = reader[s].request
          /\ reader'[s].attempt = reader[s].attempt
          /\ reader'[s].slots = reader[s].slots
      BY <2>s, <2>f
    <3> QED
      BY <1>0, <1>p, <1>u, <2>f, <3>1, AttemptPaced
  <2>a. ASSUME NEW n, reader' = [reader EXCEPT ![r] = n], UNCHANGED calls,
               \/ /\ reader[r].attempt = 1 /\ reader[r].slots > 0
                  /\ n.request = reader[r].request
                  /\ n.attempt = 2 /\ n.slots = reader[r].slots - 1
               \/ /\ n.request = reader[r].request + 1
                  /\ n.attempt = 1 /\ n.slots = reader[r].slots
        PROVE  Paced(s)'
    <3>1. CASE s = r
      BY <1>0, <1>p, <2>s, <2>a, <3>1, AdvancePaced
    <3>2. CASE s # r
      BY <1>0, <1>p, <1>u, <2>s, <2>a, <3>2, AttemptPaced
    <3> QED
      BY <3>1, <3>2
  <2>1. CASE Dispatch(r)
    <3> DEFINE n == [reader[r] EXCEPT !.pc = "wait"]
    <3>1. /\ n.request = reader[r].request /\ n.attempt = reader[r].attempt
          /\ n.slots = reader[r].slots
      BY <2>r DEF ReadRecord
    <3>2. reader' = [reader EXCEPT ![r] = n]
      BY <2>1 DEF Dispatch
    <3>3. calls' = [calls EXCEPT ![Current(r)].pc = "consume",
                                 ![Current(r)].expected = envelope.version]
      BY <2>1 DEF Dispatch, Begin
    <3>4. \A d \in Calls : calls'[d].used = calls[d].used
      BY <1>0, <3>3 DEF Call
    <3> HIDE DEF n
    <3> QED
      BY <1>0, <2>f, <3>1, <3>2, <3>4
  <2>2. CASE ReaderDies(r)
    <3> DEFINE n == [reader[r] EXCEPT !.pc = "dead"]
    <3>1. /\ n.request = reader[r].request /\ n.attempt = reader[r].attempt
          /\ n.slots = reader[r].slots
      BY <2>r DEF ReadRecord
    <3>2. reader' = [reader EXCEPT ![r] = n]
      BY <2>2 DEF ReaderDies
    <3>3. calls' = [calls EXCEPT ![Current(r)].pc = "dead"]
      BY <2>2 DEF ReaderDies, Crash, Goto
    <3>4. \A d \in Calls : calls'[d].used = calls[d].used
      BY <1>0, <3>3 DEF Call
    <3> HIDE DEF n
    <3> QED
      BY <1>0, <2>f, <3>1, <3>2, <3>4
  <2>3. ASSUME NEW result, Finish(r, result), UNCHANGED calls PROVE Paced(s)'
    <3> DEFINE n == [reader[r] EXCEPT !.pc = "done", !.result = result]
    <3>1. /\ n.request = reader[r].request /\ n.attempt = reader[r].attempt
          /\ n.slots = reader[r].slots
      BY <2>r DEF ReadRecord
    <3>2. reader' = [reader EXCEPT ![r] = n]
      BY <2>3 DEF Finish
    <3> HIDE DEF n
    <3> QED
      BY <2>3, <2>f, <3>1, <3>2
  <2>4. ASSUME NEW retryable, RetryOrReview(r, retryable), UNCHANGED calls PROVE Paced(s)'
    <3>1. CASE Finish(r, "needs_review")
      BY <2>3, <2>4, <3>1
    <3>2. CASE /\ reader[r].attempt = 1 /\ reader[r].slots > 0
               /\ reader' = [reader EXCEPT ![r] = RetryTaken(r)]
      <4> DEFINE n == RetryTaken(r)
      <4>1. /\ n.request = reader[r].request /\ n.attempt = 2
            /\ n.slots = reader[r].slots - 1
        BY <2>r DEF ReadRecord, RetryTaken
      <4>2. reader' = [reader EXCEPT ![r] = n]
        BY <3>2
      <4> HIDE DEF n
      <4> QED
        BY <2>4, <2>a, <3>2, <4>1, <4>2
    <3> QED
      BY <2>4, <3>1, <3>2 DEF RetryOrReview
  <2>5. CASE InDoubt(r) \/ ArchiveUnreadable(r) \/ RefusalEnds(r)
    BY <2>3, <2>4, <2>5 DEF InDoubt, ArchiveUnreadable, RefusalEnds, Returned, vars
  <2>6. ASSUME NEW more \in BOOLEAN, PageRead(r, more) PROVE Paced(s)'
    <3> DEFINE reused == reader[r].reused + (IF FromEarlier(Current(r)) THEN 1 ELSE 0)
               n == [reader[r] EXCEPT !.reused = reused,
                       !.pc = IF more THEN "request" ELSE "done",
                       !.request = IF more THEN @ + 1 ELSE @,
                       !.attempt = IF more THEN 1 ELSE @,
                       !.result = IF more THEN @ ELSE "succeeded"]
    <3>1. reader' = [reader EXCEPT ![r] = n] /\ UNCHANGED calls
      BY <2>6 DEF PageRead, Returned, vars
    <3> HIDE DEF reused
    <3>2. /\ n.request = (IF more THEN reader[r].request + 1 ELSE reader[r].request)
          /\ n.attempt = (IF more THEN 1 ELSE reader[r].attempt)
          /\ n.slots = reader[r].slots
      BY <2>r DEF ReadRecord
    <3> HIDE DEF n
    <3>3. CASE more
      BY <2>a, <3>1, <3>2, <3>3
    <3>4. CASE ~more
      BY <2>f, <3>1, <3>2, <3>4
    <3> QED
      BY <3>3, <3>4
  <2> QED
    BY <1>1, <2>1, <2>2, <2>5, <2>6 DEF ReaderStep
<1>2. ASSUME NEW c \in Calls, Proceed(c) \/ PermitExpires(c), UNCHANGED reader
      PROVE  Paced(s)'
  BY <1>0, <1>2, <1>c, <1>k, CallFrame
<1>3. ASSUME NEW c \in OtherCalls, Begin(c) \/ Crash(c), UNCHANGED reader
      PROVE  Paced(s)'
  <2>1. c \in Calls /\ c \notin CallsOf(s)
    BY DEF OtherCalls
  <2>2. \A d \in Calls \ {c} : calls'[d] = calls[d]
    BY <1>0, <1>3, <2>1 DEF Begin, Crash, Goto
  <2> QED
    BY <1>0, <1>3, <1>k, <2>1, <2>2
<1>4. CASE InvestigationStep /\ UNCHANGED reader
  <2>1. UNCHANGED calls
    BY <1>4 DEF InvestigationStep, Govern, SetStopped, ReviewTool, SettleTool,
       SaveBudget
  <2> QED
    BY <1>4, <1>k, <2>1
<1>5. CASE UNCHANGED readVars
  BY <1>5, <1>k DEF readVars, vars
<1> QED
  BY <1>1, <1>2, <1>3, <1>4, <1>5 DEF ReadNext

(* A tool call sends at most once per request it has reached and once more *)
(* for its single retry, whatever fails or times out on the way.           *)
THEOREM SendsArePaid == ReadSpec => []SendsWithinReservation
<1>1. ReadInit => PacedInv
  <2> SUFFICES ASSUME ReadInit, NEW r \in Readers PROVE Paced(r)
    BY DEF PacedInv
  <2>1. \A q \in Requests, a \in Attempts : ~Sent(r, q, a)
    BY ReadersAssumption DEF ReadInit, Init, Sent
  <2>2. reader[r].attempt = 1 /\ 2 \in Attempts
    BY DEF ReadInit, Attempts
  <2> QED
    BY <2>1, <2>2 DEF Paced
<1>2. RInv /\ EInv /\ PacedInv /\ [ReadNext]_readVars => PacedInv'
  BY PacedSteps
<1>3. RInv /\ PacedInv => SendsWithinReservation
  BY PacedIsWithin DEF RInv, PacedInv, SendsWithinReservation
<1> QED
  BY <1>1, <1>2, <1>3, ReadInvariance, PTL DEF ReadSpec
=============================================================================
