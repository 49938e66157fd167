----------------------------- MODULE MCTriggers -----------------------------
(* Two instances that run the job are alike, and so are two deliveries.     *)
EXTENDS Triggers, TLC

Symmetry == Permutations(Instances) \cup Permutations(Deliveries)
=============================================================================
