------------------------------ MODULE Pipeline ------------------------------
(***************************************************************************)
(* What the nodes of a task promise together: a pipeline with one place of *)
(* work. The front is the first node that is not completed; the mode says  *)
(* what is going on there. NodeRefinement shows that NodeWorkflow, with    *)
(* its requests, versions and reservations, implements it.                 *)
(***************************************************************************)
EXTENDS Integers

CONSTANT NumNodes   \* length of the pipeline, positive

VARIABLES
  front,   \* the first node that is not completed, or NumNodes + 1
  mode     \* what goes on at the front

vars == <<front, mode>>

Modes == {"waiting", "working", "parked", "stuck", "done"}

\* A first node for a human is completed by the creation of the task.
Init ==
  \/ front = 1 /\ mode \in {"waiting", "working"}
  \/ front = 2 /\ mode = IF NumNodes = 1 THEN "done" ELSE "waiting"

\* Somebody claims the node at the front.
Start ==
  /\ mode = "waiting" /\ mode' = "working"
  /\ UNCHANGED front

\* The front moves by one node, whatever was completed beyond it before.
Finish ==
  /\ mode = "working"
  /\ front' = front + 1
  /\ mode' = IF front = NumNodes THEN "done" ELSE "waiting"

\* A rejection is the only way back.
Rollback ==
  /\ mode = "working"
  /\ front' \in 1 .. front - 1
  /\ mode' \in {"waiting", "parked"}

\* The work is taken away: handed to a human, or returned as the task is
\* cancelled.
Withdraw ==
  /\ mode = "working" /\ mode' \in {"parked", "waiting"}
  /\ UNCHANGED front

\* A human lets the agents try again.
Resume ==
  /\ mode = "parked" /\ mode' = "waiting"
  /\ UNCHANGED front

\* A human declares the node done. Nothing beyond it is reset, so the front
\* may land on a node that was rejected, and stays there.
Override ==
  /\ mode = "parked"
  /\ \/ /\ front' = front + 1
        /\ mode' = IF front = NumNodes THEN "done" ELSE "waiting"
     \/ front' \in front + 1 .. NumNodes /\ mode' = "stuck"

Next == Start \/ Finish \/ Rollback \/ Withdraw \/ Resume \/ Override

Spec == Init /\ [][Next]_vars
=============================================================================
