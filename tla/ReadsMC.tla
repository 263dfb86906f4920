------------------------------ MODULE ReadsMC ------------------------------
(* An instance of PassiveReads for TLC.  A call is named by the tool call,  *)
(* request and attempt it serves.                                           *)
EXTENDS PassiveReads

CONSTANTS r1, i1, i2, other

ReaderCalls == Readers \X Requests \X Attempts
ReaderAndOther == ReaderCalls \union {other}
Itself == [a \in ReaderCalls |-> a]
FirstAttempts == {a \in ReaderCalls : a[3] = 1}

(* The other call, of another invocation, has the key of the first attempt  *)
(* of the first request; every other attempt has a key of its own.          *)
OccurrenceOf ==
    [a \in Calls |-> IF a = other THEN <<r1, 1, 1>> ELSE a]
InvocationOfCall == [a \in Calls |-> IF a = other THEN i2 ELSE i1]
Reads == [i \in Invocations |-> "read"]

(* Bound: the tool call reads two pages alone, or one page while another    *)
(* invocation asks for it.                                                  *)
Scenario == calls[other].pc = "idle" \/ reader[r1].request = 1
=============================================================================
