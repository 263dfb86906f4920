---------------------------- MODULE PassiveReads ----------------------------
(***************************************************************************)
(* The VirusTotal passive reads of a tool call, on top of the coordinator. *)
(* A tool call makes a bounded number of requests, one after the other.    *)
(* Each request has two attempts, the second under a new occurrence and so *)
(* under another effect key; one retry slot is shared by the requests of   *)
(* the tool call.  At its end the tool call tells the investigation        *)
(* whether it is proved that nothing was sent, which gives the whole       *)
(* budget reservation back.                                                *)
(***************************************************************************)
EXTENDS ExternalEffects, FiniteSets

CONSTANTS
    Readers,        \* tool calls
    MaxRequests,    \* bound: requests (pages) of one tool call
    CallOf          \* the coordinator call of an attempt

Requests == 1 .. MaxRequests
Attempts == 1 .. 2

ASSUME ReadersAssumption ==
    /\ MaxRequests \in Nat \ {0}
    /\ CallOf \in [Readers \X Requests \X Attempts -> Calls]
    /\ \A x, y \in Readers \X Requests \X Attempts : CallOf[x] = CallOf[y] => x = y
    /\ \A r \in Readers, q \in Requests :
        /\ CallOf[<<r, q, 1>>] \in Deferred
        /\ CallOf[<<r, q, 2>>] \notin Deferred
        /\ KeyOf[CallOf[<<r, q, 1>>]] # KeyOf[CallOf[<<r, q, 2>>]]

VARIABLE reader     \* the tool calls

readVars == <<vars, reader>>

ReadResult == {"none", "succeeded", "needs_review", "refused_unproven",
               "refused_proven"}

ReadersTypeOK ==
    reader \in [Readers -> [pc : {"request", "wait", "done", "dead"},
                            request : Requests, attempt : Attempts,
                            slots : 0 .. 1, reused : 0 .. MaxRequests,
                            result : ReadResult]]

ReadInit ==
    /\ Init
    /\ reader = [r \in Readers |-> [pc |-> "request", request |-> 1,
                    attempt |-> 1, slots |-> 1, reused |-> 0,
                    result |-> "none"]]

-----------------------------------------------------------------------------
CallsOf(r) ==
    {c \in Calls : \E q \in Requests, a \in Attempts : c = CallOf[<<r, q, a>>]}

Current(r) == CallOf[<<r, reader[r].request, reader[r].attempt>>]

(* record_virustotal_external_effect(reused=False): counted as soon as the *)
(* capability is burnt, whatever becomes of the request.                   *)
SentBy(r) == Cardinality({c \in CallsOf(r) : calls[c].used})

Finish(r, result) ==
    reader' = [reader EXCEPT ![r].pc = "done", ![r].result = result]

(* The reader starts the next attempt: the coordinator call begins.        *)
Dispatch(r) ==
    /\ reader[r].pc = "request"
    /\ Begin(Current(r))
    /\ reader' = [reader EXCEPT ![r].pc = "wait"]

Returned(r, outcomes) ==
    /\ reader[r].pc = "wait"
    /\ calls[Current(r)].pc = "done"
    /\ calls[Current(r)].outcome \in outcomes
    /\ UNCHANGED vars

RetryTaken_Mutant(r) == [reader[r] EXCEPT !.pc = "request", !.attempt = 2]

RetryTaken(r) ==
    [reader[r] EXCEPT !.pc = "request", !.attempt = 2, !.slots = @ - 1]

(* A second attempt needs the shared slot; without it the tool call ends.  *)
RetryOrReview(r, retryable) ==
    IF retryable /\ reader[r].attempt = 1 /\ reader[r].slots > 0
    THEN reader' = [reader EXCEPT ![r] = RetryTaken(r)]
    ELSE Finish(r, "needs_review")

InDoubt(r) ==
    /\ Returned(r, {"ambiguous"})
    /\ RetryOrReview(r, calls[Current(r)].retryable)

(* The answer has no readable archive, or differs from it.                 *)
ArchiveUnreadable(r) ==
    /\ Returned(r, {"completed", "reused"})
    /\ RetryOrReview(r, TRUE)

(* Is the answer an earlier one: a reuse, or a replay of a completed claim *)
(* without payload.                                                        *)
FromEarlier(c) == calls[c].outcome = "reused" \/ calls[c].seen = "completed"

PagesLeft_Mutant(r) == reader[r].request <= MaxRequests

(* The operation's own bound on its requests.                              *)
PagesLeft(r) == reader[r].request < MaxRequests

(* The page is read; the operation asks for another one or is satisfied.   *)
PageRead(r, more) ==
    /\ Returned(r, {"completed", "reused"})
    /\ more => PagesLeft(r)
    /\ LET reused == reader[r].reused
                     + (IF FromEarlier(Current(r)) THEN 1 ELSE 0)
       IN reader' = [reader EXCEPT ![r].reused = reused,
            ![r].pc = IF more THEN "request" ELSE "done",
            ![r].request = IF more THEN @ + 1 ELSE @,
            ![r].attempt = IF more THEN 1 ELSE @,
            ![r].result = IF more THEN @ ELSE "succeeded"]

NothingCounted_Mutant(r) == TRUE

(* Neither a send nor a reuse was counted in this tool call.               *)
NothingCounted(r) == SentBy(r) = 0 /\ reader[r].reused = 0

(* A refusal proves that nothing was sent if its own proof is from before  *)
(* the send (PREPARATION, PRE_CONSUME, effect_occurrence_required) and     *)
(* nothing was counted before it.                                          *)
RefusalEnds(r) ==
    /\ Returned(r, {"refused", "reuse_unrecorded", "not_submitted"})
    /\ Finish(r, IF calls[Current(r)].outcome = "refused" /\ NothingCounted(r)
                 THEN "refused_proven" ELSE "refused_unproven")

(* The process dies with the tool call and its coordinator call.           *)
ReaderDies(r) ==
    /\ reader[r].pc = "wait"
    /\ Crash(Current(r))
    /\ reader' = [reader EXCEPT ![r].pc = "dead"]

-----------------------------------------------------------------------------
ReaderStep(r) ==
    \/ Dispatch(r) \/ InDoubt(r) \/ ArchiveUnreadable(r) \/ RefusalEnds(r)
    \/ \E more \in BOOLEAN : PageRead(r, more)
    \/ ReaderDies(r)

(* Calls of other tools, which may have the same effect keys.              *)
OtherCalls == Calls \ UNION {CallsOf(r) : r \in Readers}

ReadNext ==
    \/ \E r \in Readers : ReaderStep(r)
    \/ /\ \/ \E c \in Calls : Proceed(c) \/ PermitExpires(c)
          \/ \E c \in OtherCalls : Begin(c) \/ Crash(c)
          \/ InvestigationStep
       /\ UNCHANGED reader

ReadSpec == ReadInit /\ [][ReadNext]_readVars

(* The task of a tool call runs again, in its own loop and in the call it  *)
(* awaits, whose transport has a timeout; that it dies is not promised.    *)
ReaderProceeds(r) ==
    \/ Dispatch(r) \/ InDoubt(r) \/ ArchiveUnreadable(r) \/ RefusalEnds(r)
    \/ \E more \in BOOLEAN : PageRead(r, more)
    \/ Proceed(Current(r)) /\ UNCHANGED reader

FairReadSpec == ReadSpec /\ \A r \in Readers : WF_readVars(ReaderProceeds(r))

-----------------------------------------------------------------------------
(* Properties.                                                             *)

(* A tool call that claims a proven pre-send refusal, and so gets its      *)
(* whole reservation back, sent nothing: neither an earlier page nor the   *)
(* first, ambiguous attempt of the refused page reached the provider.      *)
ProvenRefusalSentNothing ==
    \A r \in Readers : reader[r].result = "refused_proven" =>
        \A c \in CallsOf(r) : ~calls[c].used

(* A tool call never sends more than its reservation pays: one unit per    *)
(* request and one for the single retry.                                   *)
SendsWithinReservation ==
    \A r \in Readers : SentBy(r) <= reader[r].request + 1

(* A tool call comes to an end, unless its process dies: the pages and     *)
(* attempts are bounded, and every call it awaits returns an outcome, of a *)
(* claim it finds in any state too (_coordinated_read).                     *)
EveryReadEnds ==
    \A r \in Readers : reader[r].pc = "request" ~> reader[r].pc \in {"done", "dead"}
=============================================================================
