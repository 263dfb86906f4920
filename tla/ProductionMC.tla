---------------------------- MODULE ProductionMC -----------------------------
(***************************************************************************)
(* Instances of ProductionBatch for TLC.                                   *)
(***************************************************************************)
EXTENDS ProductionBatch, TLC

CONSTANTS alice, bob

TwoSubjects == <<"s1", "s2">>

Symmetry == Permutations(Clients)

OneRequestAtATime == Cardinality({c \in Clients : client[c].pc # "idle"}) <= 1
NoReplacement == \A s \in Subjects : item[s].run = 0
Regenerated(n) == Cardinality({s \in Subjects : run[ItemRun(s)].gen > 0}) <= n

(* Bound: two concurrent requests, or three in turn that open no more than *)
(* one generation and replace no run, or two around a lost process.        *)
Scenario ==
    \/ crashes + aborts = 0 /\ requests <= 2
    \/ crashes + aborts = 0 /\ OneRequestAtATime /\ NoReplacement /\ Regenerated(1)
    \/ requests <= 2 /\ OneRequestAtATime /\ NoReplacement /\ Regenerated(0)
=============================================================================
