------------------------------- MODULE BudgetMC -------------------------------
(* An instance of InvestigationBudget: who competes for which budget.        *)
EXTENDS InvestigationBudget

CONSTANTS t0, t1, r1, a1, x1, l1

MCAttempt == [o \in Turns |-> IF o = t0 THEN 0 ELSE 1]
MCKind == [o \in Tools |-> CASE o = r1 -> "read" [] o = a1 -> "advisor"
                             [] o = x1 -> "external" [] OTHER -> "local"]
MCDims == {"turns", "units"}
MCExternalDims == {"units"}
MCDim == [o \in Ops |-> IF o \in Turns \/ o = a1 THEN "turns" ELSE "units"]
MCCost == [o \in Ops |-> IF o = l1 THEN 0 ELSE 1]
MCLimit == [d \in MCDims |-> 1]

Entered == {o \in Ops : ops[o].pc # "idle" \/ ops[o].runs > 0}

(* Bound: two operations compete, the second attempt with the first, the     *)
(* local tool with the external one; a later G2 decision meets the tools that *)
(* it governs.                                                               *)
Scenario ==
    /\ Cardinality(Entered) <= 2
    /\ t1 \in Entered => Entered \subseteq Turns
    /\ x1 \in Entered => Entered \subseteq {r1, x1, l1}
    /\ l1 \in Entered => Entered \subseteq {x1, l1}
    /\ envelope.decision > 0 => Entered \subseteq {r1, x1}
===============================================================================
