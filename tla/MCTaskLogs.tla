----------------------------- MODULE MCTaskLogs -----------------------------
(***************************************************************************)
(* A small instance of TaskLogs for TLC: posts of one line or of two, of a *)
(* node each, which may fall into one millisecond.                         *)
(***************************************************************************)
EXTENDS TaskLogs, TLC

LineOf(node) == [node |-> node, content |-> "text"]

OneEach == {LineOf(node) : node \in Nodes}

Symmetry == Permutations(Instances) \cup Permutations(Nodes)
=============================================================================
