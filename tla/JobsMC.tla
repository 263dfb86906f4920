------------------------------- MODULE JobsMC -------------------------------
(* Instances of Jobs for TLC: one production job with two workers, two jobs *)
(* of different kinds, and a kind the recovery process forgets.             *)
EXTENDS Jobs, TLC

CONSTANTS j1, j2, w1, w2

OneAttempt == [j \in JobIds |-> 1]
TwoAttempts == [j \in JobIds |-> 2]
MixedAttempts == [j \in JobIds |-> IF j = j1 THEN 1 ELSE 2]
WorkerSymmetry == Permutations(Workers)
=============================================================================
