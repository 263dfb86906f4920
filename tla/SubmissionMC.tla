---------------------------- MODULE SubmissionMC ----------------------------
(* Instances of ModelSubmission.  Callers and reconcilers are alike: every  *)
(* permutation of them is a symmetry of the safety runs.                    *)
EXTENDS ModelSubmission, TLC

Symmetry == Permutations(Callers) \union Permutations(Reconcilers)

OneExecution == Cardinality({c \in Callers : call[c].pc # "idle"}) <= 1
OneReconciliation == Cardinality({r \in Reconcilers : recon[r].pc # "idle"}) <= 1
NothingLost == used.crash + used.drop + used.lapse = 0
Stalled == \E k \in Keys : bridge[k] = "stalled"
Events == used.crash + used.drop + used.cancel + used.turn

(* Bound: the first generation with everything in it, two events between   *)
(* several reconciliations or one alone; a lapsed lease and a second       *)
(* execution; two generations with a loss; two with a stalled Bridge.      *)
Scenario ==
    \/ /\ run.gen = 0 /\ used.lapse = 0
       /\ Events <= IF OneReconciliation THEN 2 ELSE 1
    \/ ~Stalled /\ run.gen = 0 /\ OneReconciliation /\ used.crash + used.drop + used.turn = 0
    \/ /\ ~Stalled /\ OneExecution /\ OneReconciliation
       /\ used.lapse = 0 /\ used.crash + used.drop <= 1 /\ used.turn = 0
    \/ NothingLost /\ OneExecution /\ OneReconciliation /\ used.turn = 0
=============================================================================
