------------------------------ MODULE EffectsMC ------------------------------
(* An instance of ExternalEffects for TLC: a read, its replay under the      *)
(* same invocation and the same read of another invocation; apart from them  *)
(* the submission of a model attempt.                                        *)
EXTENDS ExternalEffects

CONSTANTS c1, c2, c3, m1, k1, k2, i1, i2, i3

ReadAndModel == [c \in Calls |-> IF c = m1 THEN k2 ELSE k1]
ThreeInvocations ==
    [c \in Calls |-> CASE c = c3 -> i2 [] c = m1 -> i3 [] OTHER -> i1]
Families == [i \in Invocations |-> IF i = i3 THEN "model" ELSE "read"]

(* Nothing was done for an invocation yet.                                   *)
Fresh(i) ==
    /\ \A c \in Calls : InvocationOf[c] = i => calls[c].pc = "idle"
    /\ tools[i] = [status |-> "running", reservation |-> "reserved", attempt |-> "ready"]

(* Bound: c1 runs beside its replay or beside the other invocation, and the  *)
(* model call alone.                                                         *)
Scenario ==
    \/ Fresh(i3) /\ (calls[c2].pc = "idle" \/ calls[c3].pc = "idle")
    \/ Fresh(i1) /\ Fresh(i2)
=============================================================================
