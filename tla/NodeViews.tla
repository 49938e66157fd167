------------------------------ MODULE NodeViews ------------------------------
(***************************************************************************)
(* What people are shown of a task's nodes: the board, the list of nodes   *)
(* that wait for a human, and the check for self-reviews. They are read    *)
(* from the rows and write nothing, so they are operators on the state of  *)
(* NodeWorkflow. Each has a rule of its own for which node counts, which   *)
(* is not the rule the operations go by.                                   *)
(***************************************************************************)
EXTENDS NodeWorkflow

Open == {k \in Nodes : node[k].status # "completed"}

\* mutant: the last open node instead of the first
LastOpenNode == IF Open = {} THEN NumNodes ELSE CHOOSE k \in Open : \A j \in Open : j <= k

\* The node a task's card shows: the first that is not completed.
CurrentNode == IF Open = {} THEN NumNodes ELSE CHOOSE k \in Open : \A j \in Open : k <= j

MapNodeStatusToColumn(status) ==
  IF status = "rejected" THEN "manual_intervention" ELSE status

\* The column of the task's card. A cancelled task has none.
GetBoardData ==
  CASE task = "completed" -> "completed"
    [] task = "cancelled" -> None
    [] task = "active"    -> MapNodeStatusToColumn(node[CurrentNode].status)

\* The nodes that members are notified of.
ListManualInterventionNodes == {k \in Nodes : node[k].status = "manual_intervention"}

GetReviewNodeReviewer(k) == node[k].assignee

\* The node just before, whatever its type. (Claim looks for the nearest
\* standard node that has an assignee: WroteLastStandard.)
GetReviewNodeAuthor(k) == node[k - 1].assignee

CheckSelfReview(k) ==
  /\ template[k].nodeType = "review"
  /\ k > 1
  /\ GetReviewNodeReviewer(k) # None
  /\ GetReviewNodeReviewer(k) = GetReviewNodeAuthor(k)

-----------------------------------------------------------------------------
(* Properties.                                                             *)

\* Nobody works on any node, and there is none to take up.
NoWorkLeft == \A k \in Nodes : ~ Live(k)

\* The board tells where the work is: the card of an active task is in the
\* column of the node somebody works on, or that waits for a human, though the
\* board looks for the first open node and the work may be at any; and a card
\* under manual intervention has a node that members are told to resolve,
\* unless no work is left before a rejected node, which is shown there too and
\* cannot be resolved.
BoardTellsWork ==
  task = "active" =>
    /\ \A k \in Nodes : node[k].status \in {"in_progress", "manual_intervention"}
                          => GetBoardData = node[k].status
    /\ GetBoardData = "manual_intervention"
         => ListManualInterventionNodes # {} \/ NoWorkLeft

\* store/node.go:313 says a task goes from active to completed when all its
\* nodes are: until then somebody can work on it. One operation alone leaves a
\* task without work and without completing it, the resolution of a node with
\* complete, which updates that node only: no rejection, hand-over, timeout,
\* skip or cancellation does, however they overlap.
WorkEndsByResolveOnly ==
  [][NoWorkLeft' => \/ NoWorkLeft
                    \/ task' = "completed"
                    \/ \E k \in Nodes : /\ node[k].status = "manual_intervention"
                                        /\ node'[k].status = "completed"]_vars

\* In a completed task no agent has reviewed the standard node it did itself,
\* however often the node was rejected, redone by another or handed over after
\* the review: the check that members see agrees with the one Claim made. (A
\* review that follows a review may be done by the same agent, and is reported.
\* So is a member's, whom Claim does not check.)
DoneWorkWasReviewed ==
  task = "completed" =>
    \A k \in Nodes : CheckSelfReview(k) /\ GetReviewNodeReviewer(k) \in Agents
                       => template[k - 1].nodeType # "standard"
=============================================================================
