--------------------------- MODULE NodeRefinement ---------------------------
(***************************************************************************)
(* NodeWorkflow implements Pipeline.                                       *)
(***************************************************************************)
EXTENDS NodeWorkflow

Front ==
  IF \A k \in Nodes : node[k].status = "completed"
    THEN NumNodes + 1
    ELSE CHOOSE k \in Nodes : /\ node[k].status # "completed"
                              /\ \A j \in 1 .. k - 1 : node[j].status = "completed"

ModeOf(status) ==
  CASE status = "pending"             -> "waiting"
    [] status = "in_progress"         -> "working"
    [] status = "manual_intervention" -> "parked"
    [] OTHER                          -> "stuck"

Mode == IF Front = NumNodes + 1 THEN "done" ELSE ModeOf(node[Front].status)

P == INSTANCE Pipeline WITH front <- Front, mode <- Mode

\* The requests, jobs and edits together never do more to the workflow than
\* the pipeline allows: the work is at one node, it moves on by one node when
\* that one is done, goes back by a rejection only, and a redone node is
\* followed by the redoing of the next one.
ImplementsPipeline == P!Spec
=============================================================================
