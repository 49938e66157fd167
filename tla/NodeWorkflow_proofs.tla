------------------------ MODULE NodeWorkflow_proofs -------------------------
(***************************************************************************)
(* Theorems about NodeWorkflow, for every workflow, every set of agents    *)
(* and members, and every number of requests in flight: its invariants,    *)
(* then where the work of a task is (NodeWorkflow implements Pipeline, for *)
(* workflows of any length), and that what people are shown of it is true. *)
(***************************************************************************)
EXTENDS NodeRefinement, NodeViews, WellFoundedInduction, TLAPS

-----------------------------------------------------------------------------
(* The operators that build rows build rows.                               *)

\* Versions and reject counts stay natural numbers.
LEMMA Counting == \A n \in Nat : n + 1 \in Nat /\ n + 2 \in Nat
  OBVIOUS

\* A row created from a template node is a row.
LEMMA NewRowIsRow ==
  ASSUME NEW k \in Nodes, NEW t \in TemplateNode
  PROVE  NewRow(k, t) \in Row
BY DEF NewRow, FirstStatus, TemplateNode, Row, NodeStatus, AssigneeType

\* A claim makes a row of a row.
LEMMA ClaimedIsRow ==
  ASSUME NEW r \in Row, NEW p \in People
  PROVE  AgentClaimed(p, r) \in Row /\ HumanClaimed(p, r) \in Row
<1>1. AgentClaimed(p, r) \in Row
  BY Counting DEF AgentClaimed, Row, NodeStatus, AssigneeType
<1>2. HumanClaimed(p, r) \in Row
  BY Counting DEF HumanClaimed, Row, NodeStatus, AssigneeType
<1> QED BY <1>1, <1>2

\* So do the writes that take nothing but the row they read.
LEMMA RewrittenIsRow ==
  ASSUME NEW r \in Row, NEW by \in People \cup {None}
  PROVE  /\ Completed(r, by) \in Row
         /\ Rejected(r) \in Row
         /\ Parked(r, by) \in Row
         /\ \A agent \in Agents \cup {None} : ReExecuted(r, agent) \in Row
<1>1. Completed(r, by) \in Row
  BY Counting DEF Completed, Row, NodeStatus
<1>2. Rejected(r) \in Row
  BY Counting DEF Rejected, Row, NodeStatus
<1>3. Parked(r, by) \in Row
  BY Counting DEF Parked, Row, NodeStatus, AssigneeType
<1>4. ASSUME NEW agent \in Agents \cup {None}
      PROVE  ReExecuted(r, agent) \in Row
  BY Counting DEF ReExecuted, Row, NodeStatus, AssigneeType, People
<1> QED BY <1>1, <1>2, <1>3, <1>4

\* So does the activation of the next node.
LEMMA ActivatedIsRow ==
  ASSUME NEW k \in Nodes, k + 1 \in Nodes, node[k + 1] \in Row, NEW r \in Row
  PROVE  Activated(k, r) \in Row
<1> DEFINE next == node[k + 1]
<1> DEFINE right == IF PassesRight(k, r) THEN r.assignee ELSE next.reserved
<1>1. right \in People \cup {None} /\ r.assignee \in People \cup {None}
  BY DEF Row
<1>2. [next EXCEPT !.status      = "pending",
                   !.reserved    = right,
                   !.expires     = IF right # None THEN "future" ELSE "never",
                   !.completedBy = None,
                   !.version     = @ + 1] \in Row
  BY <1>1, Counting DEF Row, NodeStatus
<1>3. [next EXCEPT !.reserved = right, !.expires = "future",
                   !.completedBy = None, !.version = @ + 1] \in Row
  BY <1>1, Counting DEF Row
<1> QED BY <1>2, <1>3 DEF Activated

\* So does the rollback of a node.
LEMMA RolledBackIsRow ==
  ASSUME NEW t \in Nodes, node[t] \in Row
  PROVE  RolledBack(t) \in Row
BY Counting DEF RolledBack, Row, NodeStatus, AssigneeType

-----------------------------------------------------------------------------
(* What a request in flight knows of the row it read. TypeOK alone is not  *)
(* inductive: a commit writes a row built from the one it read, so that    *)
(* must be a row; and a commit moves the work only because the row it read *)
(* had a certain status, which the optimistic lock then finds unchanged.   *)

AtWork == {"complete", "approve", "reject", "manual", "interrupt", "timeout"}

SnapshotOK(r) ==
  r.stage = "read" =>
    /\ r.op \in AtWork => r.row \in Row /\ r.row.status = "in_progress"
    /\ r.op = "resolve" => r.row \in Row /\ r.row.status = "manual_intervention"
    /\ r.op = "skip"    => r.row \in Row
    /\ r.op = "reject"  => r.target < r.node

Snapshots == \A p \in Operators : req[p] # None => SnapshotOK(req[p])

Typed == TypeOK /\ Snapshots

\* A new request is well formed and knows what it read.
LEMMA StartTyped ==
  ASSUME Typed, NEW p \in Operators, NEW op, NEW stage, NEW k \in Nodes,
         NEW row \in Row \cup {None}, NEW target \in Nodes,
         [op |-> op, stage |-> stage, node |-> k, row |-> row, target |-> target]
           \in Request,
         SnapshotOK([op |-> op, stage |-> stage, node |-> k, row |-> row,
                     target |-> target]),
         Start(p, op, stage, k, row, target)
  PROVE  Typed'
BY DEF Typed, TypeOK, Snapshots, SnapshotOK, Start

\* When a request ends, the others know what they knew.
LEMMA FinishTyped ==
  ASSUME Typed, NEW p \in Operators, Finish(p)
  PROVE  req' \in [Operators -> Request \cup {None}] /\ Snapshots'
BY DEF Typed, TypeOK, Snapshots, SnapshotOK, Finish

\* One row of the table rewritten as another row.
LEMMA OneRowTyped ==
  ASSUME TypeOK, NEW k \in Nodes, NEW row \in Row,
         node' = [node EXCEPT ![k] = row]
  PROVE  node' \in [Nodes -> Row]
BY DEF TypeOK

\* A row that is still the one read, rewritten by one of the operators above.
LEMMA CommitTyped ==
  ASSUME Typed, NEW p \in Operators, NEW k \in Nodes, NEW row \in Row,
         node' = [node EXCEPT ![k] = row], Finish(p), UNCHANGED <<task, template, agents>>
  PROVE  Typed'
<1>1. node' \in [Nodes -> Row]
  BY OneRowTyped DEF Typed
<1>2. req' \in [Operators -> Request \cup {None}] /\ Snapshots'
  BY FinishTyped
<1> QED BY <1>1, <1>2 DEF Typed, TypeOK

-----------------------------------------------------------------------------
(* Typed is an inductive invariant.                                        *)

LEMMA InitTyped == Init => Typed
<1> SUFFICES ASSUME Init PROVE Typed
  OBVIOUS
<1>1. template \in [Nodes -> TemplateNode]
  BY ConstantsAssumption DEF Init
<1>2. node \in [Nodes -> Row]
  BY <1>1, NewRowIsRow DEF Init
<1>3. Snapshots
  BY DEF Init, Snapshots
<1> QED BY <1>2, <1>3 DEF Init, Typed, TypeOK, TaskStatus

LEMMA ClaimTyped ==
  ASSUME Typed, NEW p \in People
  PROVE  /\ \A k \in Nodes : CheckClaim(p, k) => Typed'
         /\ ReadClaim(p) => Typed'
         /\ CommitClaim(p) => Typed'
<1> USE DEF Operators
<1>1. ASSUME NEW k \in Nodes, CheckClaim(p, k) PROVE Typed'
  <2>1. Start(p, "claim", "checked", k, None, k)
    BY <1>1 DEF CheckClaim
  <2> QED BY <2>1, StartTyped DEF Request, SnapshotOK
<1>2. ASSUME ReadClaim(p) PROVE Typed'
  <2>1. req[p] \in Request /\ req[p].op = "claim" /\ Reread(p)
    BY <1>2 DEF ReadClaim, InFlight, Typed, TypeOK
  <2>2. [req[p] EXCEPT !.stage = "read", !.row = node[req[p].node]] \in Request
    BY <2>1 DEF Typed, TypeOK, Request
  <2> QED BY <2>1, <2>2 DEF Reread, Typed, TypeOK, Snapshots, SnapshotOK, AtWork
<1>3. ASSUME CommitClaim(p) PROVE Typed'
  <2> DEFINE k == req[p].node
  <2>1. k \in Nodes /\ node[k] \in Row
    BY <1>3 DEF CommitClaim, Commit, InFlight, Typed, TypeOK, Request
  <2> DEFINE row == IF p \in Agents THEN AgentClaimed(p, node[k])
                                    ELSE HumanClaimed(p, node[k])
  <2>2. row \in Row
    BY <2>1, ClaimedIsRow
  <2>3. node' = [node EXCEPT ![k] = row] /\ Finish(p) /\ UNCHANGED <<task, template, agents>>
    BY <1>3, <2>1 DEF CommitClaim, Commit, Typed, TypeOK
  <2> HIDE DEF k, row
  <2> QED BY <2>1, <2>2, <2>3, CommitTyped
<1> QED BY <1>1, <1>2, <1>3

\* The read steps that start a request from what they see.
LEMMA ReadTyped ==
  ASSUME Typed, NEW p \in People, NEW k \in Nodes
  PROVE  /\ CheckComplete(p, k) => Typed'
         /\ ReadApprove(p, k) => Typed'
         /\ \A target \in Nodes : ReadReject(p, k, target) => Typed'
         /\ ReadManual(p, k) => Typed'
         /\ ReadInterrupt(p, k) => Typed'
         /\ ReadResolve(p, k) => Typed'
         /\ ReadSkip(p, k) => Typed'
<1> USE DEF Operators
<1>0. node[k] \in Row
  BY DEF Typed, TypeOK
<1>1. ASSUME CheckComplete(p, k) PROVE Typed'
  <2>1. Start(p, "complete", "checked", k, None, k)
    BY <1>1 DEF CheckComplete
  <2> QED BY <2>1, StartTyped DEF Request, SnapshotOK
<1>2. ASSUME ReadApprove(p, k) PROVE Typed'
  <2>1. Start(p, "approve", "read", k, node[k], k) /\ node[k].status = "in_progress"
    BY <1>2 DEF ReadApprove
  <2> QED BY <2>1, <1>0, StartTyped DEF Request, SnapshotOK
<1>3. ASSUME NEW target \in Nodes, ReadReject(p, k, target) PROVE Typed'
  <2>1. /\ Start(p, "reject", "read", k, node[k], target)
        /\ node[k].status = "in_progress" /\ target < k
    BY <1>3 DEF ReadReject
  <2> QED BY <2>1, <1>0, StartTyped DEF Request, SnapshotOK
<1>4. ASSUME ReadManual(p, k) PROVE Typed'
  <2>1. Start(p, "manual", "read", k, node[k], k) /\ node[k].status = "in_progress"
    BY <1>4 DEF ReadManual
  <2> QED BY <2>1, <1>0, StartTyped DEF Request, SnapshotOK
<1>5. ASSUME ReadInterrupt(p, k) PROVE Typed'
  <2>1. Start(p, "interrupt", "read", k, node[k], k) /\ node[k].status = "in_progress"
    BY <1>5 DEF ReadInterrupt
  <2> QED BY <2>1, <1>0, StartTyped DEF Request, SnapshotOK
<1>6. ASSUME ReadResolve(p, k) PROVE Typed'
  <2>1. /\ Start(p, "resolve", "read", k, node[k], k)
        /\ node[k].status = "manual_intervention"
    BY <1>6 DEF ReadResolve
  <2> QED BY <2>1, <1>0, StartTyped DEF Request, SnapshotOK, AtWork
<1>7. ASSUME ReadSkip(p, k) PROVE Typed'
  <2>1. Start(p, "skip", "read", k, node[k], k)
    BY <1>7 DEF ReadSkip
  <2> QED BY <2>1, <1>0, StartTyped DEF Request, SnapshotOK, AtWork
<1> QED BY <1>1, <1>2, <1>3, <1>4, <1>5, <1>6, <1>7

LEMMA ReadCompleteTyped ==
  ASSUME Typed, NEW p \in People, ReadComplete(p)
  PROVE  Typed'
<1>1. /\ p \in Operators
      /\ req[p] \in Request /\ req[p].op = "complete" /\ Reread(p)
      /\ node[req[p].node].status = "in_progress" /\ node[req[p].node] \in Row
  BY DEF ReadComplete, InFlight, Operators, Typed, TypeOK, Request
<1>2. [req[p] EXCEPT !.stage = "read", !.row = node[req[p].node]] \in Request
  BY <1>1 DEF Request
<1> QED BY <1>1, <1>2 DEF Reread, Typed, TypeOK, Snapshots, SnapshotOK, AtWork

\* Rows given back to the agents are rows.
LEMMA ReleasedAreRows ==
  ASSUME TypeOK, NodesReleased
  PROVE  node' \in [Nodes -> Row]
<1>1. \A j \in Nodes : [node[j] EXCEPT !.status = "pending", !.assignee = None] \in Row
  BY DEF TypeOK, Row, NodeStatus
<1> QED BY <1>1 DEF NodesReleased, TypeOK

\* The requests on the task read no row.
LEMMA TaskRequestTyped ==
  ASSUME Typed, NEW p \in People
  PROVE  /\ ReadEdit(p) => Typed'
         /\ CommitEdit(p) => Typed'
         /\ ReadCancel(p) => Typed'
         /\ CommitCancel(p) => Typed'
         /\ CancelTaskNodes(p) => Typed'
<1> USE DEF Operators
<1>0. 1 \in Nodes
  BY ConstantsAssumption DEF Nodes
<1>1. ASSUME ReadEdit(p) PROVE Typed'
  <2>1. Start(p, "edit", "read", 1, None, 1)
    BY <1>1 DEF ReadEdit
  <2> QED BY <2>1, <1>0, StartTyped DEF Request, SnapshotOK, AtWork
<1>2. ASSUME CommitEdit(p) PROVE Typed'
  <2>1. task' \in TaskStatus
    BY <1>2, ConstantsAssumption DEF CommitEdit
  <2> QED BY <2>1, <1>2, FinishTyped DEF CommitEdit, Typed, TypeOK
<1>3. ASSUME ReadCancel(p) PROVE Typed'
  <2>1. Start(p, "cancel", "read", 1, None, 1)
    BY <1>3 DEF ReadCancel
  <2> QED BY <2>1, <1>0, StartTyped DEF Request, SnapshotOK, AtWork
<1>4. ASSUME CommitCancel(p) PROVE Typed'
  <2>1. [req[p] EXCEPT !.stage = "written"] \in Request
    BY <1>4 DEF CommitCancel, InFlight, Typed, TypeOK, Request
  <2> QED BY <2>1, <1>4 DEF CommitCancel, Typed, TypeOK, TaskStatus, Snapshots,
                            SnapshotOK
<1>5. ASSUME CancelTaskNodes(p) PROVE Typed'
  <2>1. node' \in [Nodes -> Row]
    BY <1>5, ReleasedAreRows DEF CancelTaskNodes, Typed
  <2> QED BY <2>1, <1>5, FinishTyped DEF CancelTaskNodes, Typed, TypeOK
<1> QED BY <1>1, <1>2, <1>3, <1>4, <1>5

\* The commits that write back one row built from the row they read.
LEMMA WriteBackTyped ==
  ASSUME Typed, NEW p \in People
  PROVE  /\ CommitManual(p) => Typed'
         /\ CommitInterrupt(p) => Typed'
         /\ CommitResolveComplete(p) => Typed'
         /\ \A agent \in Agents \cup {None} : CommitReExecute(p, agent) => Typed'
         /\ CommitSkip(p) => Typed'
<1>1. ASSUME NEW op \in AtWork, NEW by, CommitPark(p, op, by),
             by = None \/ by = req[p].row.assignee
      PROVE  Typed'
  <2>1. p \in Operators /\ req[p].node \in Nodes /\ req[p].row \in Row
    BY <1>1 DEF CommitPark, Commit, InFlight, Operators, Typed, TypeOK, Request,
                Snapshots, SnapshotOK
  <2>2. by \in People \cup {None}
    BY <1>1, <2>1 DEF Row
  <2>3. Parked(req[p].row, by) \in Row
    BY <2>1, <2>2, RewrittenIsRow
  <2> QED BY <1>1, <2>1, <2>3, CommitTyped DEF CommitPark, Commit
<1>2. ASSUME CommitResolveComplete(p) PROVE Typed'
  <2>1. req[p].node \in Nodes /\ req[p].row \in Row /\ p \in Operators
    BY <1>2 DEF CommitResolveComplete, Commit, InFlight, Operators, Typed, TypeOK,
                Request, Snapshots, SnapshotOK
  <2>2. Completed(req[p].row, p) \in Row
    BY <2>1, RewrittenIsRow
  <2> QED BY <1>2, <2>1, <2>2, CommitTyped DEF CommitResolveComplete, Commit
<1>3. ASSUME NEW agent \in Agents \cup {None}, CommitReExecute(p, agent)
      PROVE  Typed'
  <2>1. req[p].node \in Nodes /\ req[p].row \in Row /\ p \in Operators
    BY <1>3 DEF CommitReExecute, Commit, InFlight, Operators, Typed, TypeOK,
                Request, Snapshots, SnapshotOK
  <2>2. ReExecuted(req[p].row, agent) \in Row
    BY <2>1, RewrittenIsRow
  <2> QED BY <1>3, <2>1, <2>2, CommitTyped DEF CommitReExecute, Commit
<1>4. ASSUME CommitSkip(p) PROVE Typed'
  <2>1. req[p].node \in Nodes /\ req[p].row \in Row /\ p \in Operators
    BY <1>4 DEF CommitSkip, Commit, InFlight, Operators, Typed, TypeOK, Request,
                Snapshots, SnapshotOK
  <2>2. [req[p].row EXCEPT !.reserved = None, !.expires = "never",
                           !.completedBy = req[p].row.assignee,
                           !.version = @ + 1] \in Row
    BY <2>1, Counting DEF Row
  <2> QED BY <1>4, <2>1, <2>2, CommitTyped DEF CommitSkip, Commit
<1>5. "manual" \in AtWork /\ "interrupt" \in AtWork
  BY DEF AtWork
<1> QED BY <1>1, <1>2, <1>3, <1>4, <1>5
        DEF CommitManual, CommitInterrupt

\* What holds of a request when its commit finds the row unchanged.
LEMMA AtWorkSnapshot ==
  ASSUME Typed, NEW p \in Operators, NEW op \in AtWork, InFlight(p, op, "read")
  PROVE  /\ req[p].node \in Nodes /\ req[p].target \in Nodes
         /\ req[p].row \in Row /\ req[p].row.status = "in_progress"
         /\ op = "reject" => req[p].target < req[p].node
BY DEF Typed, TypeOK, Request, Snapshots, SnapshotOK, InFlight

LEMMA ApproveTyped ==
  ASSUME Typed, NEW p \in People, CommitApprove(p)
  PROVE  Typed'
<1> DEFINE k   == req[p].node
           row == req[p].row
<1>1. /\ p \in Operators /\ Finish(p) /\ k \in Nodes /\ row \in Row
      /\ UNCHANGED <<template, agents>>
  BY AtWorkSnapshot DEF CommitApprove, Commit, Operators, AtWork
<1> DEFINE by == IF p \in Agents THEN p ELSE None
<1>6. by \in People \cup {None}
  OBVIOUS
<1>2. ASSUME NEW j \in Nodes PROVE node'[j] \in Row
  <2>1. node'[j] = CASE j = k     -> Completed(row, by)
                     [] j = k + 1 -> Activated(k, row)
                     [] OTHER     -> node[j]
    BY DEF CommitApprove
  <2>2. node[j] \in Row
    BY DEF Typed, TypeOK
  <2>3. CASE j = k
    <3>1. j # k + 1
      BY <2>3, <1>1 DEF Nodes
    <3> QED BY <2>1, <2>3, <3>1, <1>1, <1>6, RewrittenIsRow
  <2>4. CASE j = k + 1
    <3>1. Activated(k, row) \in Row
      BY <2>4, <2>2, <1>1, ActivatedIsRow
    <3>2. j # k
      BY <2>4, <1>1 DEF Nodes
    <3> QED BY <2>1, <2>4, <3>1, <3>2
  <2>5. CASE j # k /\ j # k + 1
    BY <2>1, <2>2, <2>5
  <2> QED BY <2>3, <2>4, <2>5
<1>3. node' \in [Nodes -> Row]
  <2>1. node' = [j \in Nodes |-> node'[j]]
    BY DEF CommitApprove
  <2> QED BY <2>1, <1>2
<1>4. task' \in TaskStatus
  BY DEF CommitApprove, Typed, TypeOK, TaskStatus
<1>5. req' \in [Operators -> Request \cup {None}] /\ Snapshots'
  BY <1>1, FinishTyped
<1> QED BY <1>1, <1>3, <1>4, <1>5 DEF Typed, TypeOK

LEMMA RejectTyped ==
  ASSUME Typed, NEW p \in People, CommitReject(p)
  PROVE  Typed'
<1> DEFINE k   == req[p].node
           t   == req[p].target
           row == req[p].row
<1>1. /\ p \in Operators /\ Finish(p) /\ UNCHANGED <<task, template, agents>>
      /\ k \in Nodes /\ t \in Nodes /\ row \in Row
  BY AtWorkSnapshot DEF CommitReject, Commit, Operators, AtWork
<1>2. Rejected(row) \in Row /\ RolledBack(t) \in Row
  BY <1>1, RewrittenIsRow, RolledBackIsRow DEF Typed, TypeOK
<1>3. node' = [node EXCEPT ![k] = Rejected(row), ![t] = RolledBack(t)]
  BY DEF CommitReject
<1>4. node' \in [Nodes -> Row]
  BY <1>1, <1>2, <1>3 DEF Typed, TypeOK
<1>5. req' \in [Operators -> Request \cup {None}] /\ Snapshots'
  BY <1>1, FinishTyped
<1> QED BY <1>1, <1>4, <1>5 DEF Typed, TypeOK

\* The jobs, the deletion of the task, and the end of a request.
LEMMA JobTyped ==
  ASSUME Typed
  PROVE  /\ \A k \in Nodes : JobStep(k) => Typed'
         /\ ClearExpiredReservations => Typed'
         /\ DeleteTask => Typed'
         /\ \A a \in Agents : DeleteAgent(a) => Typed'
         /\ \A p \in Operators : Abandon(p) => Typed'
<1>1. ASSUME NEW k \in Nodes, ReadTimedOut(k) PROVE Typed'
  <2>1. /\ Start(Scheduler, "timeout", "read", k, node[k], k)
        /\ node[k].status = "in_progress" /\ node[k] \in Row
    BY <1>1 DEF ReadTimedOut, Typed, TypeOK
  <2>2. Scheduler \in Operators
    BY DEF Operators
  <2> QED BY <2>1, <2>2, StartTyped DEF Request, SnapshotOK
<1>2. ASSUME NEW k \in Nodes, TakenFromAgent(k) PROVE Typed'
  <2> DEFINE row == [node[k] EXCEPT !.status = "manual_intervention",
                                    !.assigneeType = "human", !.version = @ + 1]
  <2>1. row \in Row
    BY Counting DEF Typed, TypeOK, Row, NodeStatus, AssigneeType
  <2>2. node' = [node EXCEPT ![k] = row] /\ UNCHANGED <<task, template, agents, req>>
    BY <1>2 DEF TakenFromAgent, Typed, TypeOK
  <2> QED BY <2>1, <2>2 DEF Typed, TypeOK, Snapshots
<1>3. ASSUME NEW k \in Nodes, Elapse(k) PROVE Typed'
  <2> DEFINE row == [node[k] EXCEPT !.expires = "past"]
  <2>1. row \in Row
    BY DEF Typed, TypeOK, Row
  <2>2. node' = [node EXCEPT ![k] = row] /\ UNCHANGED <<task, template, agents, req>>
    BY <1>3 DEF Elapse, Typed, TypeOK
  <2> QED BY <2>1, <2>2 DEF Typed, TypeOK, Snapshots
<1>4. ASSUME ClearExpiredReservations PROVE Typed'
  <2>1. \A j \in Nodes : [node[j] EXCEPT !.reserved = None, !.expires = "never"] \in Row
    BY DEF Typed, TypeOK, Row
  <2>2. node' \in [Nodes -> Row]
    BY <1>4, <2>1 DEF ClearExpiredReservations, Typed, TypeOK
  <2>3. UNCHANGED <<task, template, agents, req>>
    BY <1>4 DEF ClearExpiredReservations
  <2> QED BY <2>2, <2>3 DEF Typed, TypeOK, Snapshots
<1>5. ASSUME DeleteTask PROVE Typed'
  <2>1. node' \in [Nodes -> Row]
    BY <1>5, ReleasedAreRows DEF DeleteTask, Typed
  <2> QED BY <2>1, <1>5 DEF DeleteTask, Typed, TypeOK, TaskStatus, Snapshots
<1>6. ASSUME NEW p \in Operators, Abandon(p) PROVE Typed'
  BY <1>6, FinishTyped DEF Abandon, Typed, TypeOK
<1>7. ASSUME NEW a \in Agents, DeleteAgent(a) PROVE Typed'
  <2>1. \A j \in Nodes : [node[j] EXCEPT !.assignee = None, !.reserved = None,
                                         !.completedBy = None] \in Row
    BY DEF Typed, TypeOK, Row
  <2>2. node' \in [Nodes -> Row]
    BY <1>7, <2>1 DEF DeleteAgent, Typed, TypeOK
  <2>3. agents' \subseteq Agents /\ UNCHANGED <<task, template, req>>
    BY <1>7 DEF DeleteAgent, Typed, TypeOK
  <2> QED BY <2>2, <2>3 DEF Typed, TypeOK, Snapshots
<1> QED BY <1>1, <1>2, <1>3, <1>4, <1>5, <1>6, <1>7
        DEF JobStep, ReleaseClaimTimeoutNodes, OfflineAgentFallback

LEMMA NextTyped == Typed /\ [Next]_vars => Typed'
<1> SUFFICES ASSUME Typed, [Next]_vars PROVE Typed'
  OBVIOUS
<1>1. ASSUME NEW p \in People, PersonStep(p) PROVE Typed'
  BY <1>1, ClaimTyped, ApproveTyped, RejectTyped, ReadCompleteTyped,
     TaskRequestTyped, WriteBackTyped DEF PersonStep
<1>2. ASSUME NEW p \in People, NEW k \in Nodes, PersonReads(p, k) PROVE Typed'
  BY <1>2, ClaimTyped, ReadTyped DEF PersonReads
<1>3. ASSUME CommitTimedOut PROVE Typed'
  <2>1. Scheduler \in Operators /\ "timeout" \in AtWork
    BY DEF Operators, AtWork
  <2>2. /\ CommitPark(Scheduler, "timeout", None)
        /\ InFlight(Scheduler, "timeout", "read")
    BY <1>3 DEF CommitTimedOut, CommitPark, Commit
  <2>3. req[Scheduler].node \in Nodes /\ Parked(req[Scheduler].row, None) \in Row
    BY <2>1, <2>2, AtWorkSnapshot, RewrittenIsRow
  <2> QED BY <2>1, <2>2, <2>3, CommitTyped DEF CommitPark, Commit
<1>4. CASE UNCHANGED vars
  BY <1>4 DEF vars, Typed, TypeOK, Snapshots
<1> QED BY <1>1, <1>2, <1>3, <1>4, JobTyped DEF Next

\* Every row and every request stays well formed: no sequence of operations,
\* however they overlap, leaves a node in a status, with a version or with a
\* reject count the code does not know.
THEOREM TypeCorrect == Spec => []TypeOK
<1>1. Typed => TypeOK
  BY DEF Typed
<1> QED BY <1>1, InitTyped, NextTyped, PTL DEF Spec

-----------------------------------------------------------------------------
(* FrontOrdered. With Typed it is inductive: each step needs only that     *)
(* everything before the node it moves is completed.                       *)

\* Steps that move no node to or from "completed", and only live nodes.
LEMMA FrontKept ==
  ASSUME FrontOrdered,
         \A k \in Nodes : node'[k].status # node[k].status
                          => Live(k) /\ node'[k].status # "completed"
  PROVE  FrontOrdered'
<1>1. \A k \in Nodes : (node'[k].status = "completed") <=> (node[k].status = "completed")
  BY DEF Live, FrontOrdered
<1>2. ASSUME NEW k \in Nodes, Live(k)' PROVE Live(k)
  <2>1. CASE node'[k].status # node[k].status
    BY <2>1
  <2>2. CASE node'[k].status = node[k].status
    <3>1. k # 1 => k - 1 \in Nodes
      BY ConstantsAssumption DEF Nodes
    <3> QED BY <1>1, <1>2, <2>2, <3>1 DEF Live
  <2> QED BY <2>1, <2>2
<1>3. ASSUME NEW k \in Nodes, Live(k)', NEW j \in 1 .. k - 1
      PROVE  node'[j].status = "completed"
  <2>1. j \in Nodes
    BY ConstantsAssumption DEF Nodes
  <2> QED BY <1>1, <1>2, <1>3, <2>1 DEF FrontOrdered
<1> QED BY <1>3 DEF FrontOrdered

\* A node in work, and a node that may be claimed, are live.
LEMMA AtWorkIsLive ==
  ASSUME NEW k \in Nodes
  PROVE  /\ node[k].status = "in_progress" => Live(k)
         /\ node[k].status = "manual_intervention" => Live(k)
         /\ node[k].status = "pending" /\ PredecessorDone(k) => Live(k)
<1>1. k # 1 => k - 1 \in Nodes /\ (k - 1) + 1 = k
  BY ConstantsAssumption DEF Nodes
<1> QED BY <1>1 DEF Live, PredecessorDone

LEMMA InitFront == Init => FrontOrdered
<1> SUFFICES ASSUME Init PROVE FrontOrdered
  OBVIOUS
<1>1. \A k \in Nodes : k # 1 => node[k].status = "pending"
  BY DEF Init, NewRow
<1>2. node[1].status \in {"in_progress", "completed", "pending"}
  BY ConstantsAssumption DEF Init, NewRow, FirstStatus, Nodes
<1>3. ASSUME NEW k \in Nodes, Live(k), NEW j \in 1 .. k - 1
      PROVE  node[j].status = "completed"
  <2>1. k # 1 /\ k - 1 \in Nodes /\ node[k - 1].status = "completed"
    <3>1. k # 1
      BY ConstantsAssumption DEF Nodes
    <3>2. k - 1 \in Nodes
      BY <3>1, ConstantsAssumption DEF Nodes
    <3>3. node[k].status = "pending"
      BY <1>1, <3>1
    <3> QED BY <1>3, <3>1, <3>2, <3>3 DEF Live
  <2>2. k = 2
    <3>1. k - 1 = 1
      BY <1>1, <2>1
    <3> QED BY <3>1, ConstantsAssumption DEF Nodes
  <2> QED BY <2>1, <2>2
<1> QED BY <1>3 DEF FrontOrdered

\* One live node moves to another open status.
LEMMA RewriteKeepsFront ==
  ASSUME Typed, FrontOrdered, NEW k \in Nodes, NEW row \in Row,
         node' = [node EXCEPT ![k] = row], Live(k), row.status # "completed"
  PROVE  FrontOrdered'
<1>1. \A j \in Nodes : node'[j].status # node[j].status => j = k
  BY DEF Typed, TypeOK
<1>2. node'[k].status # "completed"
  BY DEF Typed, TypeOK
<1> QED BY <1>1, <1>2, FrontKept

LEMMA ParkKeepsFront ==
  ASSUME Typed, FrontOrdered, NEW q \in Operators, NEW op \in AtWork,
         NEW by, by = None \/ by = req[q].row.assignee, CommitPark(q, op, by)
  PROVE  FrontOrdered'
<1>1. InFlight(q, op, "read")
  BY DEF CommitPark, Commit
<1>2. /\ req[q].node \in Nodes /\ req[q].row \in Row
      /\ req[q].row.status = "in_progress"
  BY <1>1, AtWorkSnapshot
<1>3. Live(req[q].node)
  BY <1>2, AtWorkIsLive DEF CommitPark, Unchanged
<1>4. by \in People \cup {None}
  BY <1>2 DEF Row
<1>5. /\ Parked(req[q].row, by).status # "completed"
      /\ Parked(req[q].row, by) \in Row
  BY <1>2, <1>4, RewrittenIsRow DEF Parked, Row
<1> QED BY <1>2, <1>3, <1>5, RewriteKeepsFront DEF CommitPark

\* The steps that move one live node to another open status.
LEMMA MoveKeepsFront ==
  ASSUME Typed, FrontOrdered, NEW p \in People
  PROVE  /\ CommitClaim(p) => FrontOrdered'
         /\ CommitManual(p) => FrontOrdered'
         /\ CommitInterrupt(p) => FrontOrdered'
         /\ \A agent \in Agents \cup {None} : CommitReExecute(p, agent) => FrontOrdered'
         /\ CommitSkip(p) => FrontOrdered'
<1>1. ASSUME CommitClaim(p) PROVE FrontOrdered'
  <2> DEFINE k == req[p].node
             row == IF p \in Agents THEN AgentClaimed(p, node[k])
                                    ELSE HumanClaimed(p, node[k])
  <2>1. k \in Nodes /\ node[k] \in Row /\ node' = [node EXCEPT ![k] = row]
    BY <1>1 DEF CommitClaim, Commit, InFlight, Typed, TypeOK, Request, Operators
  <2>2. row \in Row
    BY <2>1, ClaimedIsRow
  <2>3. row.status # "completed"
    BY <2>1 DEF AgentClaimed, HumanClaimed, Row
  <2>4. Live(k)
    BY <1>1, <2>1, AtWorkIsLive DEF CommitClaim, ClaimMatches
  <2> HIDE DEF k, row
  <2> QED BY <2>1, <2>2, <2>3, <2>4, RewriteKeepsFront
<1>2. ASSUME NEW agent \in Agents \cup {None}, CommitReExecute(p, agent)
      PROVE  FrontOrdered'
  <2> DEFINE row == req[p].row
  <2>1. /\ req[p].node \in Nodes /\ row \in Row
        /\ row.status = "manual_intervention"
    BY <1>2 DEF CommitReExecute, Commit, InFlight, Operators, Typed, TypeOK,
                Request, Snapshots, SnapshotOK
  <2>2. Live(req[p].node)
    BY <1>2, <2>1, AtWorkIsLive DEF CommitReExecute, Unchanged
  <2>3. ReExecuted(row, agent) \in Row
    BY <2>1, RewrittenIsRow
  <2>4. ReExecuted(row, agent).status = "pending"
    BY <2>1 DEF ReExecuted, Row
  <2> QED BY <1>2, <2>1, <2>2, <2>3, <2>4, RewriteKeepsFront DEF CommitReExecute
<1>3. ASSUME CommitSkip(p) PROVE FrontOrdered'
  <2>1. /\ req[p].node \in Nodes /\ req[p].row \in Row
        /\ node[req[p].node].status = req[p].row.status
    BY <1>3 DEF CommitSkip, Commit, InFlight, Operators, Typed, TypeOK, Request,
                Snapshots, SnapshotOK, Unchanged
  <2>2. \A j \in Nodes : node'[j].status = node[j].status
    BY <1>3, <2>1 DEF CommitSkip, Typed, TypeOK, Row
  <2> QED BY <2>2, FrontKept
<1>4. "manual" \in AtWork /\ "interrupt" \in AtWork /\ p \in Operators
  BY DEF AtWork, Operators
<1> QED BY <1>1, <1>2, <1>3, <1>4, ParkKeepsFront
        DEF CommitManual, CommitInterrupt

\* A node in manual intervention is declared done: the only node that may
\* become live by that is the next one.
LEMMA ResolveKeepsFront ==
  ASSUME Typed, FrontOrdered, NEW p \in People, CommitResolveComplete(p)
  PROVE  FrontOrdered'
<1> DEFINE k == req[p].node
<1>1. /\ k \in Nodes /\ req[p].row \in Row
      /\ req[p].row.status = "manual_intervention"
  BY DEF CommitResolveComplete, Commit, InFlight, Operators, Typed, TypeOK,
         Request, Snapshots, SnapshotOK
<1>2. node[k].status = "manual_intervention" /\ Live(k)
  BY <1>1, AtWorkIsLive DEF CommitResolveComplete, Unchanged
<1>3. Completed(req[p].row, p).status = "completed"
  BY <1>1 DEF Completed, Row
<1>4. \A j \in Nodes : node'[j].status = IF j = k THEN "completed" ELSE node[j].status
  BY <1>1, <1>3 DEF CommitResolveComplete, Typed, TypeOK
<1> HIDE DEF k
<1>5. ASSUME NEW m \in Nodes, Live(m)', NEW j \in 1 .. m - 1
      PROVE  node'[j].status = "completed"
  <2>1. /\ j \in Nodes
        /\ m # 1 => m - 1 \in Nodes
        /\ m = k + 1 => j \in 1 .. k - 1 \/ j = k
        /\ m # k + 1 => m - 1 # k
    BY <1>1, ConstantsAssumption DEF Nodes
  <2>2. m # k
    BY <1>4, <1>5 DEF Live
  <2>3. CASE m = k + 1
    BY <1>1, <1>2, <1>4, <2>1, <2>3 DEF FrontOrdered
  <2>4. CASE m # k + 1
    <3>1. Live(m)
      BY <1>4, <1>5, <2>1, <2>2, <2>4 DEF Live
    <3> QED BY <1>4, <2>1, <3>1 DEF FrontOrdered
  <2> QED BY <2>3, <2>4
<1> QED BY <1>5 DEF FrontOrdered

\* Node k is completed and the next one activated. Nothing beyond k was live,
\* so only k + 1 becomes live, and everything before it is completed.
LEMMA ApproveKeepsFront ==
  ASSUME Typed, FrontOrdered, NEW p \in People, CommitApprove(p)
  PROVE  FrontOrdered'
<1> DEFINE k   == req[p].node
           row == req[p].row
<1>1. k \in Nodes /\ row \in Row /\ row.status = "in_progress"
  BY AtWorkSnapshot DEF CommitApprove, Commit, Operators, AtWork
<1>2. node[k].status = "in_progress" /\ Live(k)
  BY <1>1, AtWorkIsLive DEF CommitApprove, Unchanged
<1>3. ASSUME NEW m \in Nodes, k < m PROVE ~ Live(m)
  <2>1. k \in 1 .. m - 1
    BY <1>1, <1>3, ConstantsAssumption DEF Nodes
  <2> QED BY <1>1, <1>2, <1>3, <2>1 DEF FrontOrdered
<1>4. node'[k].status = "completed"
  <2>1. k # k + 1
    BY <1>1, ConstantsAssumption DEF Nodes
  <2>2. \E by : node'[k] = Completed(row, by)
    BY <1>1, <2>1 DEF CommitApprove
  <2> QED BY <1>1, <2>2 DEF Completed, Row
<1>5. ASSUME k + 1 \in Nodes PROVE node'[k + 1].status = "pending"
  <2>1. k + 1 # k /\ k < k + 1
    BY <1>1, ConstantsAssumption DEF Nodes
  <2>2. node'[k + 1] = Activated(k, row)
    BY <1>5, <2>1 DEF CommitApprove
  <2>3. node[k + 1].status # "in_progress" /\ node[k + 1] \in Row
    BY <1>3, <1>5, <2>1 DEF Live, Typed, TypeOK
  <2> QED BY <2>2, <2>3 DEF Activated, Row
<1>6. ASSUME NEW j \in Nodes, j # k, j # k + 1 PROVE node'[j] = node[j]
  BY <1>6 DEF CommitApprove
<1> HIDE DEF k, row
<1>7. ASSUME NEW m \in Nodes, Live(m)', NEW j \in 1 .. m - 1
      PROVE  node'[j].status = "completed"
  <2>1. /\ j \in Nodes /\ m # k
        /\ m # 1 => m - 1 \in Nodes
        /\ m = k + 1 => j \in 1 .. k - 1 \/ j = k
        /\ m < k => j # k /\ j # k + 1 /\ m # k + 1 /\ m - 1 # k /\ m - 1 # k + 1
        /\ j \in 1 .. k - 1 => j # k + 1 /\ j # k
    BY <1>1, <1>4, <1>7, ConstantsAssumption DEF Nodes, Live
  <2>2. CASE m = k + 1
    BY <1>1, <1>2, <1>4, <1>6, <2>1, <2>2 DEF FrontOrdered
  <2>3. CASE m < k
    <3>1. Live(m)
      BY <1>6, <1>7, <2>1, <2>3 DEF Live
    <3> QED BY <1>6, <2>1, <2>3, <3>1 DEF FrontOrdered
  <2>4. CASE k + 1 < m
    <3>1. k < m /\ m # k + 1 /\ m - 1 # k /\ m # 1
      BY <1>1, <2>4, ConstantsAssumption DEF Nodes
    <3>2. ~ Live(m) /\ node'[m] = node[m]
      BY <1>3, <1>6, <2>1, <3>1
    <3>3. node'[m - 1].status = "completed"
      BY <1>7, <3>1, <3>2 DEF Live
    <3>4. m - 1 # k + 1
      BY <1>1, <1>5, <2>1, <3>1, <3>3
    <3> QED BY <1>6, <1>7, <2>1, <3>1, <3>2, <3>4 DEF Live
  <2>5. m < k \/ m = k + 1 \/ k + 1 < m
    BY <1>1, <2>1, ConstantsAssumption DEF Nodes
  <2> QED BY <2>2, <2>3, <2>4, <2>5
<1> QED BY <1>7 DEF FrontOrdered

\* Node k is rejected and an earlier one reopened: the work goes back there,
\* and the nodes between stay completed.
LEMMA RejectKeepsFront ==
  ASSUME Typed, FrontOrdered, NEW p \in People, CommitReject(p)
  PROVE  FrontOrdered'
<1> DEFINE k   == req[p].node
           t   == req[p].target
           row == req[p].row
<1>1. /\ k \in Nodes /\ t \in Nodes /\ t < k
      /\ row \in Row /\ row.status = "in_progress"
  BY AtWorkSnapshot DEF CommitReject, Commit, Operators, AtWork
<1>2. node[k].status = "in_progress" /\ Live(k)
  BY <1>1, AtWorkIsLive DEF CommitReject, Unchanged
<1>3. node' = [node EXCEPT ![k] = Rejected(row), ![t] = RolledBack(t)]
  BY DEF CommitReject
<1>4. Rejected(row).status = "rejected"
  BY <1>1 DEF Rejected, Row
<1>5. RolledBack(t).status \in {"pending", "manual_intervention"}
  BY <1>1 DEF RolledBack, Typed, TypeOK, Row
<1>6. /\ node'[k].status = "rejected"
      /\ node'[t].status # "completed"
      /\ \A j \in Nodes : j # k /\ j # t => node'[j] = node[j]
  <2>1. t # k
    BY <1>1, ConstantsAssumption DEF Nodes
  <2> QED BY <1>1, <1>3, <1>4, <1>5, <2>1 DEF Typed, TypeOK
<1> HIDE DEF k, t, row
<1>7. ASSUME NEW m \in Nodes, Live(m)', NEW j \in 1 .. m - 1
      PROVE  node'[j].status = "completed"
  <2>1. /\ j \in Nodes /\ j < m
        /\ m # 1 => m - 1 \in Nodes
        /\ m <= t => j \in 1 .. k - 1 /\ j # k /\ j # t
        /\ m < k => m \in 1 .. k - 1
        /\ k < m => k \in 1 .. m - 1
    BY <1>1, ConstantsAssumption DEF Nodes
  <2>2. CASE m <= t
    BY <1>1, <1>2, <1>6, <2>1, <2>2 DEF FrontOrdered
  <2>3. CASE t < m /\ m < k
    <3>1. m # t /\ m # k
      BY <1>1, <2>3, ConstantsAssumption DEF Nodes
    <3>2. node'[m].status = "completed"
      BY <1>1, <1>2, <1>6, <2>1, <2>3, <3>1 DEF FrontOrdered
    <3> QED BY <1>7, <3>2 DEF Live
  <2>4. CASE m = k
    BY <1>6, <1>7, <2>4 DEF Live
  <2>5. CASE k < m
    <3>1. /\ m # k /\ m # t /\ m # 1
          /\ m - 1 = k \/ k < m - 1
          /\ k < m - 1 => m - 1 # t /\ m - 1 # k
      BY <1>1, <2>5, ConstantsAssumption DEF Nodes
    <3>2. ~ Live(m) /\ node'[m] = node[m]
      BY <1>1, <1>2, <1>6, <2>1, <2>5, <3>1 DEF FrontOrdered
    <3>3. node'[m - 1].status = "completed"
      BY <1>7, <3>1, <3>2 DEF Live
    <3> QED BY <1>6, <1>7, <2>1, <3>1, <3>2, <3>3 DEF Live
  <2>6. m <= t \/ (t < m /\ m < k) \/ m = k \/ k < m
    BY <1>1, ConstantsAssumption DEF Nodes
  <2> QED BY <2>2, <2>3, <2>4, <2>5, <2>6
<1> QED BY <1>7 DEF FrontOrdered

\* The end of a reservation, and the end of an agent, change no status.
StatusKeeper ==
  \/ ClearExpiredReservations
  \/ \E k \in Nodes : Elapse(k)
  \/ \E a \in Agents : DeleteAgent(a)

LEMMA StatusKept ==
  ASSUME Typed, StatusKeeper
  PROVE  \A j \in Nodes : node'[j].status = node[j].status
<1>1. CASE ClearExpiredReservations
  BY <1>1 DEF ClearExpiredReservations, Typed, TypeOK, Row
<1>2. ASSUME NEW k \in Nodes, Elapse(k)
      PROVE  \A j \in Nodes : node'[j].status = node[j].status
  BY <1>2 DEF Elapse, Typed, TypeOK, Row
<1>3. ASSUME NEW a \in Agents, DeleteAgent(a)
      PROVE  \A j \in Nodes : node'[j].status = node[j].status
  BY <1>3 DEF DeleteAgent, Typed, TypeOK, Row
<1> QED BY <1>1, <1>2, <1>3 DEF StatusKeeper

\* The release of a closed task's nodes, and the jobs.
LEMMA JobKeepsFront ==
  ASSUME Typed, FrontOrdered
  PROVE  /\ NodesReleased => FrontOrdered'
         /\ \A k \in Nodes : TakenFromAgent(k) => FrontOrdered'
         /\ StatusKeeper => FrontOrdered'
<1>1. ASSUME NodesReleased PROVE FrontOrdered'
  <2>1. \A k \in Nodes : node'[k].status # node[k].status
                         => node[k].status = "in_progress" /\ node'[k].status = "pending"
    BY <1>1 DEF NodesReleased, Typed, TypeOK, Row
  <2> QED BY <2>1, AtWorkIsLive, FrontKept
<1>2. ASSUME NEW k \in Nodes, TakenFromAgent(k) PROVE FrontOrdered'
  <2>1. /\ node[k].status = "in_progress"
        /\ node'[k].status = "manual_intervention"
        /\ \A j \in Nodes : j # k => node'[j] = node[j]
    BY <1>2 DEF TakenFromAgent, Typed, TypeOK, Row
  <2> QED BY <2>1, AtWorkIsLive, FrontKept
<1>3. ASSUME StatusKeeper PROVE FrontOrdered'
  BY <1>3, StatusKept, FrontKept
<1> QED BY <1>1, <1>2, <1>3

\* The steps that leave the rows alone: every read, and the ends of requests
\* without a write.
QuietStep ==
  \/ \E p \in People : \/ ReadClaim(p) \/ ReadComplete(p)
                       \/ ReadEdit(p) \/ CommitEdit(p)
                       \/ ReadCancel(p) \/ CommitCancel(p)
  \/ \E p \in People, k \in Nodes : PersonReads(p, k)
  \/ \E k \in Nodes : ReadTimedOut(k)
  \/ \E p \in Operators : Abandon(p)
  \/ UNCHANGED vars

LEMMA QuietStepKeepsNodes == QuietStep => node' = node
<1>1. ASSUME NEW p \in People, NEW k \in Nodes, PersonReads(p, k) PROVE node' = node
  BY <1>1 DEF PersonReads, CheckClaim, CheckComplete, ReadApprove, ReadReject, ReadManual,
              ReadInterrupt, ReadResolve, ReadSkip, Start
<1>2. ASSUME NEW p \in People,
             \/ ReadClaim(p) \/ ReadComplete(p) \/ ReadEdit(p)
             \/ CommitEdit(p) \/ ReadCancel(p) \/ CommitCancel(p)
      PROVE  node' = node
  BY <1>2 DEF ReadClaim, ReadComplete, Reread, ReadEdit, CommitEdit, ReadCancel,
              CommitCancel, Start
<1>3. ASSUME \E k \in Nodes : ReadTimedOut(k) PROVE node' = node
  BY <1>3 DEF ReadTimedOut, Start
<1>4. ASSUME \E p \in Operators : Abandon(p) PROVE node' = node
  BY <1>4 DEF Abandon
<1>5. ASSUME UNCHANGED vars PROVE node' = node
  BY <1>5 DEF vars
<1> QED BY <1>1, <1>2, <1>3, <1>4, <1>5 DEF QuietStep

\* Every step is quiet or one of the steps that write a row.
LEMMA StepCases ==
  ASSUME [Next]_vars
  PROVE  \/ QuietStep
         \/ \E p \in People :
              \/ CommitClaim(p) \/ CommitApprove(p) \/ CommitReject(p)
              \/ CommitManual(p) \/ CommitInterrupt(p)
              \/ CommitResolveComplete(p)
              \/ \E agent \in Agents \cup {None} : CommitReExecute(p, agent)
              \/ CommitSkip(p) \/ CancelTaskNodes(p)
         \/ \E k \in Nodes : TakenFromAgent(k)
         \/ CommitTimedOut \/ StatusKeeper \/ DeleteTask
BY DEF Next, PersonStep, JobStep, ReleaseClaimTimeoutNodes, OfflineAgentFallback,
       QuietStep, StatusKeeper

LEMMA NextFront == Typed /\ FrontOrdered /\ [Next]_vars => FrontOrdered'
<1> SUFFICES ASSUME Typed, FrontOrdered, [Next]_vars PROVE FrontOrdered'
  OBVIOUS
<1>1. CASE QuietStep
  BY <1>1, QuietStepKeepsNodes, FrontKept
<1>2. ASSUME NEW p \in People,
             \/ CommitClaim(p) \/ CommitManual(p) \/ CommitInterrupt(p)
             \/ \E agent \in Agents \cup {None} : CommitReExecute(p, agent)
             \/ CommitSkip(p)
      PROVE  FrontOrdered'
  BY <1>2, MoveKeepsFront
<1>3. ASSUME NEW p \in People,
             CommitApprove(p) \/ CommitReject(p) \/ CommitResolveComplete(p)
      PROVE  FrontOrdered'
  BY <1>3, ApproveKeepsFront, RejectKeepsFront, ResolveKeepsFront
<1>4. ASSUME CommitTimedOut PROVE FrontOrdered'
  BY <1>4, ParkKeepsFront DEF CommitTimedOut, Operators, AtWork
<1>5. CASE DeleteTask \/ \E p \in People : CancelTaskNodes(p)
  BY <1>5, JobKeepsFront DEF DeleteTask, CancelTaskNodes
<1>6. CASE StatusKeeper \/ \E k \in Nodes : TakenFromAgent(k)
  BY <1>6, JobKeepsFront
<1> QED BY <1>1, <1>2, <1>3, <1>4, <1>5, <1>6, StepCases

\* Work happens at one place in every reachable state of every workflow: all
\* nodes before a live one are completed, whatever was rejected, resolved,
\* taken back or timed out, and however many requests overlapped.
THEOREM FrontIsOrdered == Spec => []FrontOrdered
<1>1. Typed /\ FrontOrdered /\ [Next]_vars => (Typed /\ FrontOrdered)'
  BY NextTyped, NextFront
<1> QED BY <1>1, InitTyped, InitFront, PTL DEF Spec

-----------------------------------------------------------------------------
(* A completed task stays done. Needs only Typed: when every node is       *)
(* completed, no commit finds the row it read unchanged, and no job finds  *)
(* a node in progress.                                                     *)

AllDone == \A k \in Nodes : node[k].status = "completed"

LEMMA DoneStays ==
  ASSUME Typed, AllDone, [Next]_vars
  PROVE  AllDone'
<1>1. CASE QuietStep
  BY <1>1, QuietStepKeepsNodes DEF AllDone
<1>2. ASSUME NEW p \in Operators, NEW op \in AtWork, InFlight(p, op, "read"),
             Unchanged(req[p].node, req[p].row)
      PROVE  FALSE
  BY <1>2, AtWorkSnapshot DEF Unchanged, AllDone
<1>3. ASSUME NEW p \in People,
             \/ CommitApprove(p) \/ CommitReject(p)
             \/ CommitManual(p) \/ CommitInterrupt(p)
      PROVE  FALSE
  <2>1. /\ p \in Operators
        /\ "complete" \in AtWork /\ "approve" \in AtWork /\ "reject" \in AtWork
        /\ "manual" \in AtWork /\ "interrupt" \in AtWork
    BY DEF Operators, AtWork
  <2> QED BY <1>2, <1>3, <2>1
          DEF CommitApprove, CommitReject, CommitManual, CommitInterrupt,
              CommitPark, Commit
<1>4. ASSUME NEW p \in People,
             \/ CommitResolveComplete(p)
             \/ \E agent \in Agents \cup {None} : CommitReExecute(p, agent)
      PROVE  FALSE
  BY <1>4 DEF CommitResolveComplete, CommitReExecute, Commit, InFlight, Operators,
              Typed, TypeOK, Request, Snapshots, SnapshotOK, Unchanged, AllDone
<1>5. ASSUME NEW p \in People, CommitClaim(p) PROVE FALSE
  <2>1. req[p].node \in Nodes
    BY <1>5 DEF CommitClaim, Commit, InFlight, Operators, Typed, TypeOK, Request
  <2> QED BY <1>5, <2>1 DEF CommitClaim, ClaimMatches, AllDone
<1>6. ASSUME NEW p \in People, CommitSkip(p) PROVE AllDone'
  <2>1. /\ req[p].node \in Nodes /\ req[p].row \in Row
        /\ node[req[p].node].status = req[p].row.status
    BY <1>6 DEF CommitSkip, Commit, InFlight, Operators, Typed, TypeOK, Request,
                Snapshots, SnapshotOK, Unchanged
  <2>2. \A j \in Nodes : node'[j].status = node[j].status
    BY <1>6, <2>1 DEF CommitSkip, Typed, TypeOK, Row
  <2> QED BY <2>2 DEF AllDone
<1>7. ASSUME DeleteTask \/ \E p \in People : CancelTaskNodes(p) PROVE AllDone'
  BY <1>7 DEF DeleteTask, CancelTaskNodes, NodesReleased, AllDone
<1>8. ASSUME NEW k \in Nodes, TakenFromAgent(k) PROVE FALSE
  BY <1>8 DEF TakenFromAgent, AllDone
<1>9. ASSUME StatusKeeper PROVE AllDone'
  BY <1>9, StatusKept DEF AllDone
<1>10. CommitTimedOut => FALSE
  <2>1. Scheduler \in Operators /\ "timeout" \in AtWork
    BY DEF Operators, AtWork
  <2> QED BY <1>2, <2>1 DEF CommitTimedOut, CommitPark, Commit
<1> QED BY <1>1, <1>3, <1>4, <1>5, <1>6, <1>7, <1>8, <1>9, <1>10, StepCases

\* Only the approval of the last node, and an edit, complete a task.
LEMMA WhoCompletesTask ==
  ASSUME "completed" \notin EditStatuses, [Next]_vars, task' = "completed",
         task # "completed"
  PROVE  \E p \in People : CommitApprove(p) /\ req[p].node = NumNodes
<1>1. ASSUME NEW p \in People, NEW k \in Nodes, PersonReads(p, k) PROVE FALSE
  BY <1>1 DEF PersonReads, CheckClaim, CheckComplete, ReadApprove, ReadReject, ReadManual,
              ReadInterrupt, ReadResolve, ReadSkip, Start
<1>2. ASSUME NEW p \in People, PersonStep(p)
      PROVE  CommitApprove(p) /\ req[p].node = NumNodes
  <2>1. ASSUME \/ CommitClaim(p) \/ CommitReject(p) \/ CommitManual(p)
               \/ CommitInterrupt(p) \/ CommitResolveComplete(p)
               \/ \E agent \in Agents \cup {None} : CommitReExecute(p, agent)
               \/ CommitSkip(p)
        PROVE  FALSE
    BY <2>1 DEF CommitClaim, CommitReject, CommitManual, CommitInterrupt, CommitPark,
                CommitResolveComplete, CommitReExecute, CommitSkip
  <2>2. ASSUME \/ CommitEdit(p) \/ CommitCancel(p) \/ CancelTaskNodes(p)
               \/ ReadClaim(p) \/ ReadComplete(p) \/ ReadEdit(p) \/ ReadCancel(p)
        PROVE  FALSE
    BY <2>2 DEF CommitEdit, CommitCancel, CancelTaskNodes, ReadClaim, ReadComplete,
                Reread, ReadEdit, ReadCancel, Start
  <2>3. ASSUME CommitApprove(p) PROVE req[p].node = NumNodes
    BY <2>3 DEF CommitApprove
  <2> QED BY <1>2, <2>1, <2>2, <2>3 DEF PersonStep
<1>3. ASSUME NEW k \in Nodes, JobStep(k) PROVE FALSE
  BY <1>3 DEF JobStep, ReadTimedOut, Start, ReleaseClaimTimeoutNodes,
              OfflineAgentFallback, TakenFromAgent, Elapse
<1>4. ASSUME \/ CommitTimedOut \/ ClearExpiredReservations \/ DeleteTask
             \/ \E a \in Agents : DeleteAgent(a)
             \/ \E p \in Operators : Abandon(p)
             \/ UNCHANGED vars
      PROVE  FALSE
  BY <1>4 DEF CommitTimedOut, CommitPark, ClearExpiredReservations, DeleteTask,
              DeleteAgent, Abandon, vars
<1> QED BY <1>1, <1>2, <1>3, <1>4 DEF Next

\* That approval leaves no node open.
LEMMA LastApprovalLeavesNone ==
  ASSUME Typed, NEW p \in People, CommitApprove(p), req[p].node = NumNodes
  PROVE  AllDone'
<1>1. req[p].row \in Row
  BY AtWorkSnapshot DEF CommitApprove, Commit, Operators, AtWork
<1>2. \A by : Completed(req[p].row, by).status = "completed"
  BY <1>1 DEF Completed, Row
<1>3. \A j \in Nodes : j # NumNodes + 1 /\ NumNodes # NumNodes + 1
  BY ConstantsAssumption DEF Nodes
<1>4. ASSUME NEW j \in Nodes PROVE node'[j].status = "completed"
  <2>1. CASE j = NumNodes
    BY <1>2, <1>3, <2>1 DEF CommitApprove
  <2>2. CASE j # NumNodes
    BY <1>3, <2>2 DEF CommitApprove
  <2> QED BY <2>1, <2>2
<1> QED BY <1>4 DEF AllDone

\* Unless an edit declares it completed by hand, a task is completed only when
\* all its nodes are, and none of them is reopened afterwards, by whatever
\* request was still in flight.
THEOREM CompletionIsFinal ==
  ASSUME "completed" \notin EditStatuses
  PROVE  Spec => []CompletedTaskIsDone
<1>1. Init => CompletedTaskIsDone
  BY DEF Init, CompletedTaskIsDone
<1>2. Typed /\ CompletedTaskIsDone /\ [Next]_vars => CompletedTaskIsDone'
  <2> SUFFICES ASSUME Typed, CompletedTaskIsDone, [Next]_vars, task' = "completed"
               PROVE  AllDone'
    BY DEF CompletedTaskIsDone, AllDone
  <2>1. CASE task = "completed"
    BY <2>1, DoneStays DEF CompletedTaskIsDone, AllDone
  <2>2. CASE task # "completed"
    BY <2>2, WhoCompletesTask, LastApprovalLeavesNone
  <2> QED BY <2>1, <2>2
<1> QED BY <1>1, <1>2, InitTyped, NextTyped, PTL DEF Spec

-----------------------------------------------------------------------------
(* What the optimistic lock tells a commit. A version says more than that  *)
(* a row was not written: the statements that leave the version alone take *)
(* a node from in_progress to pending, or forget its assignee, and nothing *)
(* else that a commit relies on.                                           *)

\* What became of a row since it was read.
AsRead(k, row) ==
  /\ row \in Row
  /\ row.version <= node[k].version
  /\ node[k].version = row.version =>
       /\ node[k].rejects = row.rejects
       /\ node[k].status # row.status
            => row.status = "in_progress" /\ node[k].status = "pending"
       /\ node[k].assignee # row.assignee
            => /\ node[k].assignee = None
               /\ node[k].status # row.status \/ agents # Agents

HoldsRow(p) ==
  /\ req[p] # None
  /\ req[p].stage = "read"
  /\ req[p].op \in AtWork \cup {"claim", "resolve", "skip"}

RowsAsRead == \A p \in Operators : HoldsRow(p) => AsRead(req[p].node, req[p].row)

\* The same for one step.
RowKept(k) ==
  /\ node[k].version <= node'[k].version
  /\ node'[k].version = node[k].version =>
       /\ node'[k].rejects = node[k].rejects
       /\ node'[k].status # node[k].status
            => node[k].status = "in_progress" /\ node'[k].status = "pending"
       /\ node'[k].assignee # node[k].assignee
            => /\ node'[k].assignee = None
               /\ node'[k].status # node[k].status \/ agents' # Agents

\* A row that gets a new version is kept in this sense.
LEMMA NewVersionKeepsRow ==
  ASSUME NEW k \in Nodes, node[k] \in Row, NEW row \in Row,
         row.version = node[k].version + 1, node'[k] = row
  PROVE  RowKept(k)
BY DEF RowKept, Row

\* A row that is not written is kept.
LEMMA SameRowIsKept ==
  ASSUME NEW k \in Nodes, node[k] \in Row, node'[k] = node[k]
  PROVE  RowKept(k)
BY DEF RowKept, Row

\* One row gets a new version.
LEMMA OneRowKeepsRows ==
  ASSUME Typed, NEW j \in Nodes, NEW row \in Row, row.version = node[j].version + 1,
         node' = [node EXCEPT ![j] = row]
  PROVE  \A k \in Nodes : RowKept(k)
<1> SUFFICES ASSUME NEW k \in Nodes PROVE RowKept(k)
  OBVIOUS
<1>1. node[k] \in Row /\ node[j] \in Row
  BY DEF Typed, TypeOK
<1>2. CASE k = j
  <2>1. node'[k] = row
    BY <1>2 DEF Typed, TypeOK
  <2> QED BY <1>1, <1>2, <2>1, NewVersionKeepsRow
<1>3. CASE k # j
  BY <1>1, <1>3, SameRowIsKept DEF Typed, TypeOK
<1> QED BY <1>2, <1>3

\* A version is one more than the version read, and that is the present one.
LEMMA WrittenVersions ==
  ASSUME NEW r \in Row
  PROVE  /\ \A by \in People \cup {None} : Completed(r, by).version = r.version + 1
         /\ \A by \in People \cup {None} : Parked(r, by).version = r.version + 1
         /\ Rejected(r).version = r.version + 1
         /\ \A agent \in Agents \cup {None} : ReExecuted(r, agent).version = r.version + 1
         /\ \A p \in People : AgentClaimed(p, r).version = r.version + 1
         /\ \A p \in People : HumanClaimed(p, r).version = r.version + 1
BY DEF Row, Completed, Parked, Rejected, ReExecuted, AgentClaimed, HumanClaimed

\* A hand-over to a human writes a new version of the row it read.
LEMMA ParkKeepsRows ==
  ASSUME Typed, NEW q \in Operators, NEW op \in AtWork,
         NEW by, by = None \/ by = req[q].row.assignee, CommitPark(q, op, by)
  PROVE  \A k \in Nodes : RowKept(k)
<1>1. /\ req[q].node \in Nodes /\ req[q].row \in Row
      /\ node[req[q].node].version = req[q].row.version
  BY AtWorkSnapshot DEF CommitPark, Commit, Unchanged
<1>2. by \in People \cup {None}
  BY <1>1 DEF Row
<1>3. /\ Parked(req[q].row, by) \in Row
      /\ Parked(req[q].row, by).version = req[q].row.version + 1
  BY <1>1, <1>2, RewrittenIsRow, WrittenVersions
<1> QED BY <1>1, <1>3, OneRowKeepsRows DEF CommitPark

\* The commits that rewrite one row.
LEMMA MoveKeepsRows ==
  ASSUME Typed, NEW p \in People
  PROVE  /\ CommitClaim(p) => \A k \in Nodes : RowKept(k)
         /\ CommitManual(p) => \A k \in Nodes : RowKept(k)
         /\ CommitInterrupt(p) => \A k \in Nodes : RowKept(k)
         /\ CommitResolveComplete(p) => \A k \in Nodes : RowKept(k)
         /\ \A agent \in Agents \cup {None} :
              CommitReExecute(p, agent) => \A k \in Nodes : RowKept(k)
         /\ CommitSkip(p) => \A k \in Nodes : RowKept(k)
<1>1. ASSUME CommitClaim(p) PROVE \A k \in Nodes : RowKept(k)
  <2> DEFINE j == req[p].node
             row == IF p \in Agents THEN AgentClaimed(p, node[j])
                                    ELSE HumanClaimed(p, node[j])
  <2>1. j \in Nodes /\ node[j] \in Row /\ node' = [node EXCEPT ![j] = row]
    BY <1>1 DEF CommitClaim, Commit, InFlight, Typed, TypeOK, Request, Operators
  <2>2. row \in Row /\ row.version = node[j].version + 1
    BY <2>1, ClaimedIsRow, WrittenVersions
  <2> HIDE DEF j, row
  <2> QED BY <2>1, <2>2, OneRowKeepsRows
<1>2. ASSUME CommitResolveComplete(p) \/ \E agent \in Agents \cup {None} : CommitReExecute(p, agent)
      PROVE  \A k \in Nodes : RowKept(k)
  <2>1. /\ req[p].node \in Nodes /\ req[p].row \in Row
        /\ node[req[p].node].version = req[p].row.version
    BY <1>2 DEF CommitResolveComplete, CommitReExecute, Commit, InFlight, Operators,
                Typed, TypeOK, Request, Snapshots, SnapshotOK, Unchanged
  <2>2. PICK row : /\ row = Completed(req[p].row, p)
                      \/ \E agent \in Agents \cup {None} : row = ReExecuted(req[p].row, agent)
                   /\ node' = [node EXCEPT ![req[p].node] = row]
    BY <1>2 DEF CommitResolveComplete, CommitReExecute
  <2>3. row \in Row /\ row.version = req[p].row.version + 1
    BY <2>1, <2>2, RewrittenIsRow, WrittenVersions
  <2> QED BY <2>1, <2>2, <2>3, OneRowKeepsRows
<1>3. ASSUME CommitSkip(p) PROVE \A k \in Nodes : RowKept(k)
  <2>1. /\ req[p].node \in Nodes /\ req[p].row \in Row
        /\ node[req[p].node].version = req[p].row.version
    BY <1>3 DEF CommitSkip, Commit, InFlight, Operators, Typed, TypeOK, Request,
                Snapshots, SnapshotOK, Unchanged
  <2>2. PICK row : /\ row = [req[p].row EXCEPT !.reserved = None, !.expires = "never",
                                !.completedBy = req[p].row.assignee, !.version = @ + 1]
                   /\ node' = [node EXCEPT ![req[p].node] = row]
    BY <1>3 DEF CommitSkip
  <2>3. row \in Row /\ row.version = req[p].row.version + 1
    BY <2>1, <2>2, Counting DEF Row
  <2> QED BY <2>1, <2>2, <2>3, OneRowKeepsRows
<1>4. "manual" \in AtWork /\ "interrupt" \in AtWork /\ p \in Operators
  BY DEF AtWork, Operators
<1> QED BY <1>1, <1>2, <1>3, <1>4, ParkKeepsRows DEF CommitManual, CommitInterrupt

\* The activation of the next node writes it anew, or not at all.
LEMMA ActivatedKeepsRow ==
  ASSUME NEW k \in Nodes, k + 1 \in Nodes, node[k + 1] \in Row, NEW r \in Row,
         node'[k + 1] = Activated(k, r)
  PROVE  RowKept(k + 1)
<1>1. \/ Activated(k, r) = node[k + 1]
      \/ Activated(k, r).version = node[k + 1].version + 1
  BY DEF Activated, Row
<1>2. Activated(k, r) \in Row
  BY ActivatedIsRow
<1> QED BY <1>1, <1>2, NewVersionKeepsRow, SameRowIsKept

\* An approval writes new versions of its row and of the next one.
LEMMA ApproveKeepsRows ==
  ASSUME Typed, NEW p \in People, CommitApprove(p)
  PROVE  \A k \in Nodes : RowKept(k)
<1> DEFINE j   == req[p].node
           row == req[p].row
<1>1. j \in Nodes /\ row \in Row /\ node[j].version = row.version
  BY AtWorkSnapshot DEF CommitApprove, Commit, Operators, AtWork, Unchanged
<1> DEFINE by == IF p \in Agents THEN p ELSE None
<1>2. Completed(row, by) \in Row /\ Completed(row, by).version = row.version + 1
  BY <1>1, RewrittenIsRow, WrittenVersions
<1>3. j # j + 1
  BY <1>1 DEF Nodes
<1>4. node'[j] = Completed(row, by) /\ node[j] \in Row
  BY <1>1, <1>3 DEF CommitApprove, Typed, TypeOK
<1>5. j + 1 \in Nodes => node'[j + 1] = Activated(j, row) /\ node[j + 1] \in Row
  BY <1>3 DEF CommitApprove, Typed, TypeOK
<1>6. \A k \in Nodes : k # j /\ k # j + 1 => node'[k] = node[k] /\ node[k] \in Row
  BY DEF CommitApprove, Typed, TypeOK
<1> HIDE DEF j, row, by
<1>7. RowKept(j)
  BY <1>1, <1>2, <1>4, NewVersionKeepsRow
<1>8. j + 1 \in Nodes => RowKept(j + 1)
  BY <1>1, <1>5, ActivatedKeepsRow
<1>9. \A k \in Nodes : k # j /\ k # j + 1 => RowKept(k)
  BY <1>6, SameRowIsKept
<1> QED BY <1>7, <1>8, <1>9

\* A rejection writes new versions of its row and of its target.
LEMMA RejectKeepsRows ==
  ASSUME Typed, NEW p \in People, CommitReject(p)
  PROVE  \A k \in Nodes : RowKept(k)
<1> DEFINE j   == req[p].node
           t   == req[p].target
           row == req[p].row
<1>1. /\ j \in Nodes /\ t \in Nodes /\ t # j
      /\ row \in Row /\ node[j].version = row.version
  <2>1. j \in Nodes /\ t \in Nodes /\ t < j /\ row \in Row /\ node[j].version = row.version
    BY AtWorkSnapshot DEF CommitReject, Commit, Operators, AtWork, Unchanged
  <2> QED BY <2>1 DEF Nodes
<1>2. Rejected(row) \in Row /\ Rejected(row).version = row.version + 1
  BY <1>1, RewrittenIsRow, WrittenVersions
<1>3. RolledBack(t).version = node[t].version + 2 /\ node[t] \in Row
  BY <1>1 DEF RolledBack, Typed, TypeOK, Row
<1>4. /\ node'[j] = Rejected(row) /\ node[j] \in Row
      /\ node'[t] = RolledBack(t)
      /\ \A k \in Nodes : k # j /\ k # t => node'[k] = node[k] /\ node[k] \in Row
  BY <1>1 DEF CommitReject, Typed, TypeOK
<1> HIDE DEF j, t, row
<1>5. RowKept(j)
  BY <1>1, <1>2, <1>4, NewVersionKeepsRow
<1>6. RowKept(t)
  BY <1>3, <1>4 DEF RowKept, Row
<1>7. \A k \in Nodes : k # j /\ k # t => RowKept(k)
  BY <1>4, SameRowIsKept
<1> QED BY <1>5, <1>6, <1>7

\* The statements that leave the version alone.
LEMMA JobKeepsRows ==
  ASSUME Typed, agents' \subseteq agents
  PROVE  /\ NodesReleased => \A k \in Nodes : RowKept(k)
         /\ StatusKeeper => \A k \in Nodes : RowKept(k)
         /\ \A k \in Nodes : TakenFromAgent(k) => \A j \in Nodes : RowKept(j)
<1>1. ASSUME NodesReleased, NEW k \in Nodes PROVE RowKept(k)
  <2>1. node[k] \in Row
    BY DEF Typed, TypeOK
  <2>2. node'[k] = IF node[k].status = "in_progress"
                     THEN [node[k] EXCEPT !.status = "pending", !.assignee = None]
                     ELSE node[k]
    BY <1>1 DEF NodesReleased
  <2>3. CASE node[k].status = "in_progress"
    <3>1. /\ node'[k].version = node[k].version /\ node'[k].rejects = node[k].rejects
          /\ node'[k].status = "pending" /\ node'[k].assignee = None
      BY <2>1, <2>2, <2>3 DEF Row
    <3> QED BY <2>1, <2>3, <3>1 DEF RowKept, Row
  <2>4. CASE node[k].status # "in_progress"
    BY <2>1, <2>2, <2>4, SameRowIsKept
  <2> QED BY <2>3, <2>4
<1>2. ASSUME ClearExpiredReservations, NEW k \in Nodes PROVE RowKept(k)
  <2>1. node[k] \in Row
    BY DEF Typed, TypeOK
  <2>2. \/ node'[k] = [node[k] EXCEPT !.reserved = None, !.expires = "never"]
        \/ node'[k] = node[k]
    BY <1>2 DEF ClearExpiredReservations
  <2>3. /\ node'[k].version = node[k].version /\ node'[k].rejects = node[k].rejects
        /\ node'[k].status = node[k].status /\ node'[k].assignee = node[k].assignee
    BY <2>1, <2>2 DEF Row
  <2> QED BY <2>1, <2>3 DEF RowKept, Row
<1>3. ASSUME NEW j \in Nodes, Elapse(j), NEW k \in Nodes PROVE RowKept(k)
  <2>1. node[k] \in Row
    BY DEF Typed, TypeOK
  <2>2. node'[k] = [node[k] EXCEPT !.expires = "past"] \/ node'[k] = node[k]
    BY <1>3 DEF Elapse, Typed, TypeOK
  <2>3. /\ node'[k].version = node[k].version /\ node'[k].rejects = node[k].rejects
        /\ node'[k].status = node[k].status /\ node'[k].assignee = node[k].assignee
    BY <2>1, <2>2 DEF Row
  <2> QED BY <2>1, <2>3 DEF RowKept, Row
<1>4. ASSUME NEW a \in Agents, DeleteAgent(a), NEW k \in Nodes PROVE RowKept(k)
  <2>1. node[k] \in Row /\ agents' # Agents
    BY <1>4 DEF DeleteAgent, Typed, TypeOK
  <2>2. \/ node'[k] = [node[k] EXCEPT !.assignee = None, !.reserved = None,
                                      !.completedBy = None]
        \/ node'[k] = node[k]
    BY <1>4 DEF DeleteAgent
  <2>3. /\ node'[k].version = node[k].version /\ node'[k].rejects = node[k].rejects
        /\ node'[k].status = node[k].status
        /\ node'[k].assignee \in {node[k].assignee, None}
    BY <2>1, <2>2 DEF Row
  <2> QED BY <2>1, <2>3 DEF RowKept, Row
<1>5. ASSUME NEW j \in Nodes, TakenFromAgent(j) PROVE \A k \in Nodes : RowKept(k)
  <2> DEFINE row == [node[j] EXCEPT !.status = "manual_intervention",
                                    !.assigneeType = "human", !.version = @ + 1]
  <2>1. row \in Row /\ row.version = node[j].version + 1
    BY Counting DEF Typed, TypeOK, Row, NodeStatus, AssigneeType
  <2>2. node' = [node EXCEPT ![j] = row]
    BY <1>5 DEF TakenFromAgent, Typed, TypeOK
  <2> HIDE DEF row
  <2> QED BY <2>1, <2>2, OneRowKeepsRows
<1> QED BY <1>1, <1>2, <1>3, <1>4, <1>5 DEF StatusKeeper

\* Only the deletion of an agent changes which agents there are.
LEMMA WhoDeletes ==
  [Next]_vars => agents' = agents \/ \E a \in Agents : DeleteAgent(a)
<1> SUFFICES ASSUME [Next]_vars
             PROVE  agents' = agents \/ \E a \in Agents : DeleteAgent(a)
  OBVIOUS
<1>1. ASSUME NEW p \in People, NEW k \in Nodes, PersonReads(p, k) PROVE agents' = agents
  BY <1>1 DEF PersonReads, CheckClaim, CheckComplete, ReadApprove, ReadReject, ReadManual,
              ReadInterrupt, ReadResolve, ReadSkip, Start
<1>2. ASSUME NEW p \in People, PersonStep(p) PROVE agents' = agents
  <2>1. ASSUME \/ CommitClaim(p) \/ CommitApprove(p) \/ CommitReject(p) \/ CommitManual(p)
               \/ CommitInterrupt(p) \/ CommitResolveComplete(p)
               \/ \E agent \in Agents \cup {None} : CommitReExecute(p, agent)
               \/ CommitSkip(p)
        PROVE  agents' = agents
    BY <2>1 DEF CommitClaim, CommitApprove, CommitReject, CommitManual, CommitInterrupt,
                CommitPark, CommitResolveComplete, CommitReExecute, CommitSkip
  <2>2. ASSUME \/ CommitEdit(p) \/ CommitCancel(p) \/ CancelTaskNodes(p)
               \/ ReadClaim(p) \/ ReadComplete(p) \/ ReadEdit(p) \/ ReadCancel(p)
        PROVE  agents' = agents
    BY <2>2 DEF CommitEdit, CommitCancel, CancelTaskNodes, ReadClaim, ReadComplete,
                Reread, ReadEdit, ReadCancel, Start
  <2> QED BY <1>2, <2>1, <2>2 DEF PersonStep
<1>3. ASSUME NEW k \in Nodes, JobStep(k) PROVE agents' = agents
  BY <1>3 DEF JobStep, ReadTimedOut, Start, ReleaseClaimTimeoutNodes,
              OfflineAgentFallback, TakenFromAgent, Elapse
<1>4. ASSUME \/ CommitTimedOut \/ ClearExpiredReservations \/ DeleteTask
             \/ \E p \in Operators : Abandon(p)
             \/ UNCHANGED vars
      PROVE  agents' = agents
  BY <1>4 DEF CommitTimedOut, CommitPark, ClearExpiredReservations, DeleteTask,
              Abandon, vars
<1> QED BY <1>1, <1>2, <1>3, <1>4 DEF Next

\* Deleted agents do not come back.
LEMMA AgentsShrink == [Next]_vars => agents' \subseteq agents
BY WhoDeletes DEF DeleteAgent

\* Whatever is done to a row, either its version grows or it is kept.
LEMMA NextKeepsRows ==
  ASSUME Typed, [Next]_vars
  PROVE  \A k \in Nodes : RowKept(k)
<1>1. CASE QuietStep
  BY <1>1, QuietStepKeepsNodes, SameRowIsKept DEF Typed, TypeOK
<1>2. ASSUME NEW p \in People,
             \/ CommitClaim(p) \/ CommitManual(p) \/ CommitInterrupt(p)
             \/ CommitResolveComplete(p)
             \/ \E agent \in Agents \cup {None} : CommitReExecute(p, agent)
             \/ CommitSkip(p)
      PROVE  \A k \in Nodes : RowKept(k)
  BY <1>2, MoveKeepsRows
<1>3. ASSUME NEW p \in People, CommitApprove(p) \/ CommitReject(p)
      PROVE  \A k \in Nodes : RowKept(k)
  BY <1>3, ApproveKeepsRows, RejectKeepsRows
<1>4. ASSUME CommitTimedOut PROVE \A k \in Nodes : RowKept(k)
  BY <1>4, ParkKeepsRows DEF CommitTimedOut, Operators, AtWork
<1>5. CASE DeleteTask \/ \E p \in People : CancelTaskNodes(p)
  BY <1>5, JobKeepsRows, AgentsShrink DEF DeleteTask, CancelTaskNodes
<1>6. CASE StatusKeeper \/ \E k \in Nodes : TakenFromAgent(k)
  BY <1>6, JobKeepsRows, AgentsShrink
<1> QED BY <1>1, <1>2, <1>3, <1>4, <1>5, <1>6, StepCases

\* A row kept since it was read, and kept once more, is kept since it was read.
LEMMA KeptAsRead ==
  ASSUME NEW k \in Nodes, NEW row \in Row, node[k] \in Row, node'[k] \in Row,
         agents \subseteq Agents, agents' \subseteq agents, AsRead(k, row), RowKept(k)
  PROVE  AsRead(k, row)'
<1>1. row.version <= node'[k].version
  BY DEF AsRead, RowKept, Row
<1>2. ASSUME node'[k].version = row.version
      PROVE  node[k].version = row.version /\ node'[k].version = node[k].version
  BY <1>2 DEF AsRead, RowKept, Row
<1>3. agents # Agents => agents' # Agents
  OBVIOUS
<1> QED BY <1>1, <1>2, <1>3 DEF AsRead, RowKept

\* What becomes of requests: one that holds a row holds it since before, or
\* has just read it.
LEMMA Holding ==
  ASSUME Typed, [Next]_vars, NEW p \in Operators, HoldsRow(p)'
  PROVE  \/ req'[p] = req[p] /\ HoldsRow(p)
         \/ /\ req'[p].node \in Nodes /\ node' = node
            /\ req'[p].row = node[req'[p].node]
<1> DEFINE Old(r) == r[p] = req[p] /\ HoldsRow(p)
           New(r) == /\ r[p].node \in Nodes /\ node' = node
                     /\ r[p].row = node[r[p].node]
<1>1. req'[p] = req[p] => Old(req')
  BY DEF HoldsRow
<1>2. req'[p] # None
  BY DEF HoldsRow
<1>3. ASSUME NEW q \in Operators, Finish(q) PROVE Old(req')
  <2>1. req'[q] = None
    BY <1>3 DEF Finish, Typed, TypeOK
  <2>2. q # p
    BY <1>2, <2>1
  <2> QED BY <1>1, <1>3, <2>2 DEF Finish, Typed, TypeOK
<1>4. ASSUME NEW q \in Operators, NEW op, NEW stage, NEW k \in Nodes, NEW row, NEW target,
             Start(q, op, stage, k, row, target), stage = "checked" \/ row = node[k]
                                                  \/ op \in {"edit", "cancel"}
      PROVE  Old(req') \/ New(req')
  <2>1. CASE q # p
    BY <1>1, <1>4, <2>1 DEF Start, Typed, TypeOK
  <2>2. CASE q = p
    <3>1. req'[p] = [op |-> op, stage |-> stage, node |-> k, row |-> row, target |-> target]
      BY <1>4, <2>2 DEF Start, Typed, TypeOK
    <3>2. stage = "read" /\ op \in AtWork \cup {"claim", "resolve", "skip"}
      BY <3>1 DEF HoldsRow
    <3>3. row = node[k]
      BY <1>4, <3>2 DEF AtWork
    <3> QED BY <1>4, <3>1, <3>3 DEF Start
  <2> QED BY <2>1, <2>2
<1>5. ASSUME NEW q \in People, Reread(q), req[q] # None PROVE Old(req') \/ New(req')
  <2>1. CASE q # p
    BY <1>1, <1>5, <2>1 DEF Reread, Typed, TypeOK
  <2>2. CASE q = p
    <3>1. req[p] \in Request
      BY <1>5, <2>2 DEF Typed, TypeOK
    <3>2. req'[p] = [req[p] EXCEPT !.stage = "read", !.row = node[req[p].node]]
      BY <1>5, <2>2, <3>1 DEF Reread, Typed, TypeOK
    <3>3. req'[p].node = req[p].node /\ req'[p].row = node[req[p].node]
          /\ req[p].node \in Nodes
      BY <3>1, <3>2 DEF Request
    <3> QED BY <1>5, <3>3 DEF Reread
  <2> QED BY <2>1, <2>2
<1>6. ASSUME NEW q \in People, NEW k \in Nodes, PersonReads(q, k)
      PROVE  Old(req') \/ New(req')
  BY <1>4, <1>6 DEF PersonReads, CheckClaim, CheckComplete, ReadApprove, ReadReject, ReadManual,
                    ReadInterrupt, ReadResolve, ReadSkip, Operators
<1>7. ASSUME NEW q \in People, PersonStep(q) PROVE Old(req') \/ New(req')
  <2>0. q \in Operators /\ 1 \in Nodes
    BY ConstantsAssumption DEF Operators, Nodes
  <2>1. ASSUME \/ CommitClaim(q) \/ CommitApprove(q) \/ CommitReject(q) \/ CommitManual(q)
               \/ CommitInterrupt(q) \/ CommitResolveComplete(q)
               \/ \E agent \in Agents \cup {None} : CommitReExecute(q, agent)
               \/ CommitSkip(q) \/ CommitEdit(q) \/ CancelTaskNodes(q)
        PROVE  Finish(q)
    BY <2>1 DEF CommitClaim, CommitApprove, CommitReject, CommitManual, CommitInterrupt,
                CommitPark, CommitResolveComplete, CommitReExecute, CommitSkip, Commit,
                CommitEdit, CancelTaskNodes
  <2>2. ASSUME ReadEdit(q) \/ ReadCancel(q) PROVE Old(req') \/ New(req')
    BY <1>4, <2>0, <2>2 DEF ReadEdit, ReadCancel
  <2>3. ASSUME ReadClaim(q) \/ ReadComplete(q) PROVE Reread(q) /\ req[q] # None
    BY <2>3 DEF ReadClaim, ReadComplete, InFlight
  <2>4. ASSUME CommitCancel(q) PROVE Old(req')
    <3>1. CASE q # p
      BY <1>1, <2>4, <3>1 DEF CommitCancel, Typed, TypeOK
    <3>2. CASE q = p
      <4>1. req'[p] = [req[p] EXCEPT !.stage = "written"] /\ req[p] \in Request
        BY <2>4, <3>2 DEF CommitCancel, InFlight, Typed, TypeOK
      <4>2. req'[p].stage = "written"
        BY <4>1 DEF Request
      <4> QED BY <4>2 DEF HoldsRow
    <3> QED BY <3>1, <3>2
  <2> HIDE DEF Old, New
  <2> QED BY <1>3, <1>5, <1>7, <2>0, <2>1, <2>2, <2>3, <2>4 DEF PersonStep
<1>8. ASSUME NEW k \in Nodes, JobStep(k) PROVE Old(req') \/ New(req')
  <2>1. ASSUME ReadTimedOut(k) PROVE Old(req') \/ New(req')
    BY <1>4, <2>1 DEF ReadTimedOut, Operators
  <2>2. ASSUME ~ ReadTimedOut(k) PROVE req' = req
    BY <1>8, <2>2 DEF JobStep, ReleaseClaimTimeoutNodes, OfflineAgentFallback,
                      TakenFromAgent, Elapse
  <2> QED BY <1>1, <2>1, <2>2
<1>9. ASSUME \/ ClearExpiredReservations \/ DeleteTask
             \/ \E a \in Agents : DeleteAgent(a)
             \/ UNCHANGED vars
      PROVE  Old(req')
  BY <1>1, <1>9 DEF ClearExpiredReservations, DeleteTask, DeleteAgent, vars
<1>10. ASSUME CommitTimedOut \/ \E q \in Operators : Abandon(q) PROVE Old(req')
  <2>1. \E q \in Operators : Finish(q)
    BY <1>10 DEF CommitTimedOut, CommitPark, Commit, Abandon, Operators
  <2> HIDE DEF Old
  <2> QED BY <1>3, <2>1
<1> HIDE DEF Old, New
<1>11. Old(req') \/ New(req')
  BY <1>6, <1>7, <1>8, <1>9, <1>10 DEF Next
<1> QED BY <1>11 DEF Old, New

\* So what a request has read stays what it was read as.
LEMMA NextAsRead == Typed /\ RowsAsRead /\ [Next]_vars => RowsAsRead'
<1> SUFFICES ASSUME Typed, RowsAsRead, [Next]_vars, NEW p \in Operators, HoldsRow(p)'
             PROVE  AsRead(req[p].node, req[p].row)'
  BY DEF RowsAsRead
<1>1. Typed' /\ agents \subseteq Agents /\ agents' \subseteq agents
  BY NextTyped, AgentsShrink DEF Typed, TypeOK
<1>2. CASE req'[p] = req[p] /\ HoldsRow(p)
  <2> DEFINE k == req[p].node
             row == req[p].row
  <2>1. AsRead(k, row) /\ row \in Row
    BY <1>2 DEF RowsAsRead, AsRead
  <2>2. k \in Nodes /\ node[k] \in Row /\ node'[k] \in Row
    BY <1>1, <1>2 DEF HoldsRow, Typed, TypeOK, Request
  <2>3. PICK j, r : j = k /\ r = row
    OBVIOUS
  <2>4. AsRead(j, r)'
    <3>1. AsRead(j, r) /\ r \in Row /\ j \in Nodes /\ node[j] \in Row /\ node'[j] \in Row
      BY <2>1, <2>2, <2>3
    <3> HIDE DEF k, row
    <3>2. RowKept(j)
      BY <3>1, NextKeepsRows
    <3> QED BY <1>1, <3>1, <3>2, KeptAsRead
  <2>5. j = req'[p].node /\ r = req'[p].row
    BY <1>2, <2>3
  <2> QED BY <2>4, <2>5 DEF AsRead
<1>3. CASE /\ req'[p].node \in Nodes /\ node' = node
           /\ req'[p].row = node[req'[p].node]
  <2>1. node'[req'[p].node] \in Row /\ req'[p].row = node'[req'[p].node]
    BY <1>1, <1>3 DEF Typed, TypeOK
  <2> QED BY <2>1 DEF AsRead, Row
<1> QED BY <1>2, <1>3, Holding

\* No request has read anything at first.
LEMMA InitAsRead == Init => RowsAsRead
BY DEF Init, RowsAsRead, HoldsRow
-----------------------------------------------------------------------------
(* Who works on a node.                                                    *)

\* What the commit of a request that holds a row may rely on.
LEMMA Matched ==
  ASSUME Typed, RowsAsRead, NEW p \in Operators,
         NEW op \in AtWork \cup {"claim", "resolve", "skip"}, InFlight(p, op, "read")
  PROVE  /\ req[p].node \in Nodes /\ req[p].target \in Nodes
         /\ req[p].row \in Row /\ AsRead(req[p].node, req[p].row)
BY DEF InFlight, HoldsRow, RowsAsRead, AsRead, Typed, TypeOK, Request

\* But for a node that is free, and for the deletion of an agent, a node that
\* keeps its status keeps its assignee: a row written back from memory names
\* the one the table names.
LEMMA AssigneeKept ==
  ASSUME Typed, RowsAsRead, [Next]_vars, NEW k \in Nodes,
         node'[k].status = node[k].status, node[k].status # "pending"
  PROVE  \/ node'[k].assignee = node[k].assignee
         \/ agents' # Agents /\ None \in {node[k].assignee, node'[k].assignee}
<1>0. node[k] \in Row /\ agents \subseteq Agents /\ agents' \subseteq agents
  BY AgentsShrink DEF Typed, TypeOK
<1>1. CASE node'[k].version = node[k].version
  BY <1>1, NextKeepsRows DEF RowKept
<1>2. ASSUME NEW p \in Operators, NEW op \in AtWork, NEW row, row.status # "in_progress",
             InFlight(p, op, "read"), Unchanged(req[p].node, req[p].row),
             node' = [node EXCEPT ![req[p].node] = row]
      PROVE  node'[k] = node[k]
  BY <1>2, AtWorkSnapshot DEF Unchanged, Typed, TypeOK
<1>3. ASSUME NEW p \in Operators, NEW op \in AtWork, NEW by,
             by = None \/ by = req[p].row.assignee, CommitPark(p, op, by)
      PROVE  node'[k] = node[k]
  <2>1. req[p].row \in Row
    BY <1>3, AtWorkSnapshot DEF CommitPark, Commit
  <2>2. Parked(req[p].row, by).status # "in_progress"
    BY <2>1 DEF Parked, Row
  <2> QED BY <1>2, <1>3, <2>2 DEF CommitPark, Commit
<1>4. ASSUME NEW p \in People, CommitManual(p) \/ CommitInterrupt(p)
      PROVE  node'[k] = node[k]
  BY <1>3, <1>4 DEF CommitManual, CommitInterrupt, AtWork, Operators
<1>5. ASSUME CommitTimedOut PROVE node'[k] = node[k]
  BY <1>3, <1>5 DEF CommitTimedOut, AtWork, Operators
<1>6. ASSUME NEW p \in People, CommitClaim(p) PROVE node'[k] = node[k]
  BY <1>6 DEF CommitClaim, ClaimMatches, Commit, InFlight, Typed, TypeOK, Operators, Request
<1>7. ASSUME NEW p \in People, CommitApprove(p) PROVE node'[k].assignee = node[k].assignee
  <2> DEFINE j == req[p].node
             row == req[p].row
  <2>1. j \in Nodes /\ row \in Row /\ node[j].status = "in_progress" /\ j # j + 1
    BY <1>7, AtWorkSnapshot DEF CommitApprove, Commit, Unchanged, Operators, AtWork, Nodes
  <2>2. k # j
    <3>1. ASSUME k = j PROVE node'[k].status = "completed"
      BY <1>7, <2>1, <3>1 DEF CommitApprove, Completed, Row
    <3> QED BY <2>1, <3>1
  <2>3. CASE k = j + 1
    <3>1. node'[k] = Activated(j, row) /\ node[j + 1] \in Row
      BY <1>0, <1>7, <2>1, <2>3 DEF CommitApprove
    <3>2. Activated(j, row).assignee = node[j + 1].assignee
      BY <3>1 DEF Activated, Row
    <3> QED BY <2>3, <3>1, <3>2
  <2>4. CASE k # j + 1
    BY <1>7, <2>2, <2>4 DEF CommitApprove
  <2> QED BY <2>3, <2>4
<1>8. ASSUME NEW p \in People, CommitReject(p) PROVE node'[k].assignee = node[k].assignee
  <2> DEFINE j == req[p].node
             t == req[p].target
             row == req[p].row
  <2>1. /\ j \in Nodes /\ t \in Nodes /\ t # j /\ row \in Row
        /\ node[j].status = "in_progress"
    <3>1. j \in Nodes /\ t \in Nodes /\ t < j /\ row \in Row /\ node[j].status = "in_progress"
      BY <1>8, AtWorkSnapshot DEF CommitReject, Commit, Unchanged, Operators, AtWork
    <3> QED BY <3>1 DEF Nodes
  <2>2. /\ node'[j] = Rejected(row) /\ node'[t] = RolledBack(t)
        /\ \A i \in Nodes : i # j /\ i # t => node'[i] = node[i]
    BY <1>8, <2>1 DEF CommitReject, Typed, TypeOK
  <2>3. Rejected(row).status = "rejected"
    BY <2>1 DEF Rejected, Row
  <2>4. CASE k = t
    <3>1. \/ RolledBack(k).status = "pending"
          \/ RolledBack(k).assignee = node[k].assignee
      BY <1>0 DEF RolledBack, Row
    <3> QED BY <2>2, <2>4, <3>1
  <2> QED BY <2>1, <2>2, <2>3, <2>4
<1>9. ASSUME NEW p \in People,
             \/ CommitResolveComplete(p)
             \/ \E agent \in Agents \cup {None} : CommitReExecute(p, agent)
      PROVE  node'[k] = node[k]
  <2>1. /\ req[p].node \in Nodes /\ req[p].row \in Row
        /\ node[req[p].node].status = "manual_intervention"
    BY <1>9 DEF CommitResolveComplete, CommitReExecute, Commit, InFlight, Operators,
                Typed, TypeOK, Request, Snapshots, SnapshotOK, Unchanged
  <2>2. PICK row : /\ row.status # "manual_intervention"
                   /\ node' = [node EXCEPT ![req[p].node] = row]
    BY <1>9, <2>1 DEF CommitResolveComplete, CommitReExecute, Completed, ReExecuted, Row
  <2> QED BY <2>1, <2>2 DEF Typed, TypeOK
<1>10. ASSUME NEW p \in People, CommitSkip(p)
       PROVE  \/ node'[k].assignee = node[k].assignee
              \/ agents # Agents /\ node[k].assignee = None
  <2> DEFINE j == req[p].node
             row == req[p].row
  <2>1. /\ j \in Nodes /\ row \in Row /\ AsRead(j, row)
        /\ node[j].version = row.version /\ node[j].status = row.status
    BY <1>10, Matched DEF CommitSkip, Commit, Unchanged, Operators
  <2>2. k # j => node'[k] = node[k]
    BY <1>10, <2>1 DEF CommitSkip, Typed, TypeOK
  <2>3. k = j => node'[k].assignee = row.assignee
    BY <1>10, <2>1 DEF CommitSkip, Typed, TypeOK, Row
  <2> QED BY <2>1, <2>2, <2>3 DEF AsRead
<1>11. ASSUME \/ QuietStep \/ StatusKeeper \/ DeleteTask
              \/ \E p \in People : CancelTaskNodes(p)
       PROVE  node'[k].version = node[k].version
  <2>1. CASE QuietStep
    BY <2>1, QuietStepKeepsNodes
  <2>2. CASE NodesReleased
    BY <1>0, <2>2 DEF NodesReleased, Row
  <2>3. CASE ClearExpiredReservations
    BY <1>0, <2>3 DEF ClearExpiredReservations, Row
  <2>4. ASSUME NEW j \in Nodes, Elapse(j) PROVE node'[k].version = node[k].version
    BY <1>0, <2>4 DEF Elapse, Row, Typed, TypeOK
  <2>5. ASSUME NEW a \in Agents, DeleteAgent(a) PROVE node'[k].version = node[k].version
    BY <1>0, <2>5 DEF DeleteAgent, Row
  <2> QED BY <1>11, <2>1, <2>2, <2>3, <2>4, <2>5
          DEF StatusKeeper, DeleteTask, CancelTaskNodes
<1>12. ASSUME NEW j \in Nodes, TakenFromAgent(j) PROVE node'[k] = node[k]
  BY <1>0, <1>12 DEF TakenFromAgent, Typed, TypeOK, Row
<1> QED BY <1>0, <1>1, <1>4, <1>5, <1>6, <1>7, <1>8, <1>9, <1>10, <1>11, <1>12, StepCases

\* Two requests never both win a node: while a node is in progress it does not
\* pass from one assignee to another, however the claims, hand-overs and
\* returns of rights overlap.
THEOREM WinnersKeepTheNode == Spec => AssigneeStable
<1>1. ASSUME Typed, RowsAsRead, [Next]_vars, NEW k \in Nodes,
             node[k].status = "in_progress", node'[k].status = "in_progress",
             None \notin {node[k].assignee, node'[k].assignee}
      PROVE  node'[k].assignee = node[k].assignee
  BY <1>1, AssigneeKept
<1>2. Typed /\ RowsAsRead /\ [Next]_vars
      => [\A k \in Nodes :
            /\ node[k].status = "in_progress" /\ node'[k].status = "in_progress"
            /\ None \notin {node[k].assignee, node'[k].assignee}
            => node'[k].assignee = node[k].assignee]_vars
  BY <1>1
<1> QED BY <1>2, InitTyped, NextTyped, InitAsRead, NextAsRead, PTL DEF Spec, AssigneeStable

\* The jobs that are one statement, and deletions, touch no request in flight.
LEMMA JobsLeaveRequests ==
  ASSUME \/ \E k \in Nodes : TakenFromAgent(k)
         \/ StatusKeeper \/ DeleteTask
  PROVE  req' = req
<1>1. \A k \in Nodes : TakenFromAgent(k) \/ Elapse(k) => req' = req
  BY DEF TakenFromAgent, Elapse
<1>2. ClearExpiredReservations => req' = req
  BY DEF ClearExpiredReservations
<1>3. \A a \in Agents : DeleteAgent(a) => req' = req
  BY DEF DeleteAgent
<1>4. DeleteTask => req' = req
  BY DEF DeleteTask
<1> QED BY <1>1, <1>2, <1>3, <1>4 DEF StatusKeeper

\* The end of a request that is a decision about a node, and writes: it is the
\* commit of that request, and it found the row unchanged.
LEMMA DecisionCommits ==
  ASSUME Typed, [Next]_vars, NEW p \in Operators, req[p] # None, req'[p] = None,
         node' # node,
         req[p].op \in {"complete", "approve", "reject", "manual", "interrupt", "timeout"}
  PROVE  InFlight(p, req[p].op, "read") /\ Unchanged(req[p].node, req[p].row)
<1>1. \A q \in Operators : Finish(q) => q = p
  BY DEF Finish, Typed, TypeOK
<1>2. ASSUME NEW q \in People, CommitApprove(q) \/ CommitReject(q)
      PROVE  InFlight(p, req[p].op, "read") /\ Unchanged(req[p].node, req[p].row)
  BY <1>1, <1>2 DEF CommitApprove, CommitReject, Commit, InFlight, Operators
<1>3. ASSUME NEW q \in People, CommitManual(q) \/ CommitInterrupt(q)
      PROVE  InFlight(p, req[p].op, "read") /\ Unchanged(req[p].node, req[p].row)
  BY <1>1, <1>3 DEF CommitManual, CommitInterrupt, CommitPark, Commit, InFlight, Operators
<1>4. ASSUME NEW q \in People,
             \/ CommitClaim(q) \/ CommitResolveComplete(q)
             \/ \E agent \in Agents \cup {None} : CommitReExecute(q, agent)
             \/ CommitSkip(q) \/ CancelTaskNodes(q)
      PROVE  FALSE
  BY <1>1, <1>4 DEF CommitClaim, CommitResolveComplete, CommitReExecute, CommitSkip,
                    CancelTaskNodes, Commit, InFlight, Operators
<1>5. ASSUME CommitTimedOut
      PROVE  InFlight(p, req[p].op, "read") /\ Unchanged(req[p].node, req[p].row)
  BY <1>1, <1>5 DEF CommitTimedOut, CommitPark, Commit, InFlight, Operators
<1> QED BY <1>2, <1>3, <1>4, <1>5, JobsLeaveRequests, QuietStepKeepsNodes, StepCases

\* A decision falls on the work it was taken about: the version of the row
\* tells an approval, a rejection, a hand-over, an interruption or a timeout that
\* the node has the assignee it was read with, although not every statement that
\* changes the assignee changes the version.
THEOREM DecisionsFallOnWorkRead == Spec => DecisionOnWorkRead
<1>1. ASSUME Typed, RowsAsRead, [Next]_vars, NEW p \in Operators,
             req[p] # None, req'[p] = None, node' # node,
             req[p].op \in {"complete", "approve", "reject", "manual", "interrupt", "timeout"}
      PROVE  node[req[p].node].assignee \in {req[p].row.assignee, None}
  <2>1. InFlight(p, req[p].op, "read") /\ Unchanged(req[p].node, req[p].row)
    BY <1>1, DecisionCommits
  <2>2. AsRead(req[p].node, req[p].row)
    BY <1>1, <2>1, Matched DEF Operators, AtWork
  <2> QED BY <2>1, <2>2 DEF AsRead, Unchanged
<1>2. Typed /\ RowsAsRead /\ [Next]_vars
      => [\A p \in Operators :
            /\ req[p] # None /\ req'[p] = None /\ node' # node
            /\ req[p].op \in {"complete", "approve", "reject", "manual", "interrupt", "timeout"}
            => node[req[p].node].assignee \in {req[p].row.assignee, None}]_vars
  BY <1>1
<1> QED BY <1>2, InitTyped, NextTyped, InitAsRead, NextAsRead, PTL DEF Spec, DecisionOnWorkRead

-----------------------------------------------------------------------------
(* Who starts a node, and who reopens one.                                 *)

\* A node is started by a claim only.
LEMMA StartedByClaim ==
  ASSUME Typed, [Next]_vars, NEW k \in Nodes,
         node[k].status # "in_progress", node'[k].status = "in_progress"
  PROVE  \E p \in People : /\ CommitClaim(p) /\ req[p].node = k
                           /\ node'[k].assignee = p
<1>0. node[k] \in Row
  BY DEF Typed, TypeOK
<1>1. ASSUME NEW p \in People, CommitClaim(p)
      PROVE  req[p].node = k /\ node'[k].assignee = p
  <2>1. req[p].node \in Nodes
    BY <1>1 DEF CommitClaim, Commit, InFlight, Typed, TypeOK, Request, Operators
  <2>2. req[p].node = k
    BY <1>1, <2>1 DEF CommitClaim, Typed, TypeOK
  <2>3. node'[k] = IF p \in Agents THEN AgentClaimed(p, node[k]) ELSE HumanClaimed(p, node[k])
    BY <1>1, <2>2 DEF CommitClaim, Typed, TypeOK
  <2>4. AgentClaimed(p, node[k]).assignee = p /\ HumanClaimed(p, node[k]).assignee = p
    BY <1>0 DEF AgentClaimed, HumanClaimed, Row
  <2> QED BY <2>2, <2>3, <2>4
<1>2. ASSUME NEW p \in Operators, NEW op \in AtWork, NEW by,
             by = None \/ by = req[p].row.assignee, CommitPark(p, op, by)
      PROVE  FALSE
  <2>1. req[p].node \in Nodes /\ req[p].row \in Row
    BY <1>2, AtWorkSnapshot DEF CommitPark, Commit
  <2>2. Parked(req[p].row, by).status # "in_progress"
    BY <2>1 DEF Parked, Row
  <2> QED BY <1>2, <2>1, <2>2 DEF CommitPark, Typed, TypeOK
<1>3. ASSUME NEW p \in People, CommitManual(p) \/ CommitInterrupt(p) PROVE FALSE
  BY <1>2, <1>3 DEF CommitManual, CommitInterrupt, AtWork, Operators
<1>4. CommitTimedOut => FALSE
  BY <1>2 DEF CommitTimedOut, AtWork, Operators
<1>5. ASSUME NEW p \in People, CommitApprove(p) PROVE FALSE
  <2> DEFINE j == req[p].node
             row == req[p].row
  <2>1. j \in Nodes /\ row \in Row /\ j # j + 1
    BY <1>5, AtWorkSnapshot DEF CommitApprove, Commit, Operators, AtWork, Nodes
  <2>2. CASE k = j
    BY <1>5, <2>1, <2>2 DEF CommitApprove, Completed, Row
  <2>3. CASE k = j + 1
    <3>1. node'[k] = Activated(j, row) /\ node[j + 1] \in Row
      BY <1>0, <1>5, <2>1, <2>3 DEF CommitApprove
    <3>2. node[j + 1].status # "in_progress" => Activated(j, row).status # "in_progress"
      BY <3>1 DEF Activated, Row
    <3> QED BY <2>3, <3>1, <3>2
  <2>4. CASE k # j /\ k # j + 1
    BY <1>5, <2>4 DEF CommitApprove
  <2> QED BY <2>2, <2>3, <2>4
<1>6. ASSUME NEW p \in People, CommitReject(p) PROVE FALSE
  <2> DEFINE j == req[p].node
             t == req[p].target
             row == req[p].row
  <2>1. j \in Nodes /\ t \in Nodes /\ row \in Row
    BY <1>6, AtWorkSnapshot DEF CommitReject, Commit, Operators, AtWork
  <2>2. Rejected(row).status # "in_progress" /\ RolledBack(t).status # "in_progress"
    BY <2>1 DEF Rejected, RolledBack, Typed, TypeOK, Row
  <2> QED BY <1>6, <2>1, <2>2 DEF CommitReject, Typed, TypeOK
<1>7. ASSUME NEW p \in People,
             \/ CommitResolveComplete(p)
             \/ \E agent \in Agents \cup {None} : CommitReExecute(p, agent)
      PROVE  FALSE
  <2>1. req[p].node \in Nodes /\ req[p].row \in Row
    BY <1>7 DEF CommitResolveComplete, CommitReExecute, Commit, InFlight, Operators,
                Typed, TypeOK, Request, Snapshots, SnapshotOK
  <2>2. PICK row : /\ row.status # "in_progress"
                   /\ node' = [node EXCEPT ![req[p].node] = row]
    BY <1>7, <2>1 DEF CommitResolveComplete, CommitReExecute, Completed, ReExecuted, Row
  <2> QED BY <2>1, <2>2 DEF Typed, TypeOK
<1>8. ASSUME NEW p \in People, CommitSkip(p) PROVE FALSE
  <2>1. /\ req[p].node \in Nodes /\ req[p].row \in Row
        /\ node[req[p].node].status = req[p].row.status
    BY <1>8 DEF CommitSkip, Commit, InFlight, Operators, Typed, TypeOK, Request,
                Snapshots, SnapshotOK, Unchanged
  <2> QED BY <1>8, <2>1 DEF CommitSkip, Typed, TypeOK, Row
<1>9. ASSUME NodesReleased \/ \E j \in Nodes : TakenFromAgent(j) PROVE FALSE
  BY <1>0, <1>9 DEF NodesReleased, TakenFromAgent, Typed, TypeOK, Row
<1> QED BY <1>1, <1>3, <1>4, <1>5, <1>6, <1>7, <1>8, <1>9, QuietStepKeepsNodes,
           StatusKept, StepCases
        DEF DeleteTask, CancelTaskNodes

\* Nobody starts a node that is reserved for another agent, unless the
\* reservation has run out: the one statement that starts a node is keyed by
\* the reservation, so that one made after the claim was checked holds too.
THEOREM ReservationsHold == Spec => ReservationHonoured
<1>1. ASSUME Typed, [Next]_vars, NEW k \in Nodes, NEW a \in Agents,
             node[k].status # "in_progress",
             node'[k].status = "in_progress", node'[k].assignee = a
      PROVE  node[k].reserved \in {None, a} \/ node[k].expires = "past"
  <2>1. PICK p \in People : /\ CommitClaim(p) /\ req[p].node = k
                            /\ node'[k].assignee = p
    BY <1>1, StartedByClaim
  <2> QED BY <1>1, <2>1 DEF CommitClaim, ClaimMatches
<1>2. Typed /\ [Next]_vars
      => [\A k \in Nodes : \A a \in Agents :
            /\ node[k].status # "in_progress"
            /\ node'[k].status = "in_progress" /\ node'[k].assignee = a
            => node[k].reserved \in {None, a} \/ node[k].expires = "past"]_vars
  BY <1>1
<1> QED BY <1>2, InitTyped, NextTyped, PTL DEF Spec, ReservationHonoured

\* A completed node is reopened by the rejection of a later one, or by the
\* completion of the one before it.
LEMMA WhoReopens ==
  ASSUME Typed, [Next]_vars, NEW k \in Nodes,
         node[k].status = "completed", node'[k].status # "completed"
  PROVE  \/ \E j \in Nodes : j > k /\ node[j].status = "in_progress"
                                   /\ node'[j].status = "rejected"
         \/ k > 1 /\ node[k - 1].status = "in_progress"
                  /\ node'[k - 1].status = "completed"
<1>0. node[k] \in Row
  BY DEF Typed, TypeOK
<1>1. ASSUME NEW p \in People, CommitApprove(p)
      PROVE  k > 1 /\ node[k - 1].status = "in_progress" /\ node'[k - 1].status = "completed"
  <2> DEFINE j == req[p].node
             row == req[p].row
  <2>1. j \in Nodes /\ row \in Row /\ j # j + 1 /\ node[j].status = "in_progress"
    BY <1>1, AtWorkSnapshot DEF CommitApprove, Commit, Unchanged, Operators, AtWork, Nodes
  <2>2. node'[j].status = "completed"
    BY <1>1, <2>1 DEF CommitApprove, Completed, Row
  <2>3. k = j + 1
    <3>1. k # j
      BY <2>1
    <3> QED BY <1>1, <3>1 DEF CommitApprove
  <2>4. k > 1 /\ k - 1 = j
    BY <2>1, <2>3, ConstantsAssumption DEF Nodes
  <2> QED BY <2>1, <2>2, <2>4
<1>2. ASSUME NEW p \in People, CommitReject(p)
      PROVE  \E j \in Nodes : j > k /\ node[j].status = "in_progress"
                                    /\ node'[j].status = "rejected"
  <2> DEFINE j == req[p].node
             t == req[p].target
             row == req[p].row
  <2>1. /\ j \in Nodes /\ t \in Nodes /\ t < j /\ row \in Row
        /\ node[j].status = "in_progress"
    BY <1>2, AtWorkSnapshot DEF CommitReject, Commit, Unchanged, Operators, AtWork
  <2>2. Rejected(row).status = "rejected" /\ t # j
    BY <2>1 DEF Rejected, Row, Nodes
  <2>3. node'[j].status = "rejected" /\ \A i \in Nodes : i # j /\ i # t => node'[i] = node[i]
    BY <1>2, <2>1, <2>2 DEF CommitReject, Typed, TypeOK
  <2>4. k = t
    BY <2>1, <2>3
  <2> QED BY <2>1, <2>3, <2>4 DEF Nodes
<1>3. ASSUME NEW p \in Operators, NEW op \in AtWork, NEW by, CommitPark(p, op, by) PROVE FALSE
  <2>1. req[p].node \in Nodes /\ node[req[p].node].status = "in_progress"
    BY <1>3, AtWorkSnapshot DEF CommitPark, Commit, Unchanged
  <2> QED BY <1>3, <2>1 DEF CommitPark, Typed, TypeOK
<1>4. ASSUME NEW p \in People, CommitManual(p) \/ CommitInterrupt(p) PROVE FALSE
  BY <1>3, <1>4 DEF CommitManual, CommitInterrupt, AtWork, Operators
<1>5. CommitTimedOut => FALSE
  BY <1>3 DEF CommitTimedOut, AtWork, Operators
<1>6. ASSUME NEW p \in People, CommitClaim(p) PROVE FALSE
  BY <1>6 DEF CommitClaim, ClaimMatches, Commit, InFlight, Typed, TypeOK, Operators, Request
<1>7. ASSUME NEW p \in People,
             \/ CommitResolveComplete(p)
             \/ \E agent \in Agents \cup {None} : CommitReExecute(p, agent)
      PROVE  FALSE
  <2>1. req[p].node \in Nodes /\ node[req[p].node].status = "manual_intervention"
    BY <1>7 DEF CommitResolveComplete, CommitReExecute, Commit, InFlight, Operators,
                Typed, TypeOK, Request, Snapshots, SnapshotOK, Unchanged
  <2> QED BY <1>7, <2>1 DEF CommitResolveComplete, CommitReExecute, Typed, TypeOK
<1>8. ASSUME NEW p \in People, CommitSkip(p) PROVE FALSE
  <2>1. /\ req[p].node \in Nodes /\ req[p].row \in Row
        /\ node[req[p].node].status = req[p].row.status
    BY <1>8 DEF CommitSkip, Commit, InFlight, Operators, Typed, TypeOK, Request,
                Snapshots, SnapshotOK, Unchanged
  <2> QED BY <1>8, <2>1 DEF CommitSkip, Typed, TypeOK, Row
<1>9. ASSUME NodesReleased \/ \E j \in Nodes : TakenFromAgent(j) PROVE FALSE
  BY <1>9 DEF NodesReleased, TakenFromAgent, Typed, TypeOK
<1> QED BY <1>1, <1>2, <1>4, <1>5, <1>6, <1>7, <1>8, <1>9, QuietStepKeepsNodes,
           StatusKept, StepCases
        DEF DeleteTask, CancelTaskNodes

\* Accepted work is reopened only by a rejection, or because its predecessor
\* is done again: no claim, timeout, hand-over, skip or cancellation does it.
THEOREM OnlyRollbacksReopen == Spec => ReopenedByRollback
<1>1. Typed /\ [Next]_vars
      => [\A k \in Nodes :
            node[k].status = "completed" /\ node'[k].status # "completed"
            => \/ \E j \in Nodes : j > k /\ node[j].status = "in_progress"
                                         /\ node'[j].status = "rejected"
               \/ k > 1 /\ node[k - 1].status = "in_progress"
                        /\ node'[k - 1].status = "completed"]_vars
  BY WhoReopens
<1> QED BY <1>1, InitTyped, NextTyped, PTL DEF Spec, ReopenedByRollback

-----------------------------------------------------------------------------
(* The rollback budget.                                                    *)

LEMMA TemplateFixed == [Next]_vars => template' = template
<1> SUFFICES ASSUME [Next]_vars PROVE template' = template
  OBVIOUS
<1>1. ASSUME NEW p \in People, NEW k \in Nodes, PersonReads(p, k) PROVE template' = template
  BY <1>1 DEF PersonReads, CheckClaim, CheckComplete, ReadApprove, ReadReject, ReadManual,
              ReadInterrupt, ReadResolve, ReadSkip, Start
<1>2. ASSUME NEW p \in People, PersonStep(p) PROVE template' = template
  <2>1. ASSUME \/ CommitClaim(p) \/ CommitApprove(p) \/ CommitReject(p) \/ CommitManual(p)
               \/ CommitInterrupt(p) \/ CommitResolveComplete(p)
               \/ \E agent \in Agents \cup {None} : CommitReExecute(p, agent)
               \/ CommitSkip(p)
        PROVE  template' = template
    BY <2>1 DEF CommitClaim, CommitApprove, CommitReject, CommitManual, CommitInterrupt,
                CommitPark, CommitResolveComplete, CommitReExecute, CommitSkip
  <2>2. ASSUME \/ CommitEdit(p) \/ CommitCancel(p) \/ CancelTaskNodes(p)
               \/ ReadClaim(p) \/ ReadComplete(p) \/ ReadEdit(p) \/ ReadCancel(p)
        PROVE  template' = template
    BY <2>2 DEF CommitEdit, CommitCancel, CancelTaskNodes, ReadClaim, ReadComplete,
                Reread, ReadEdit, ReadCancel, Start
  <2> QED BY <1>2, <2>1, <2>2 DEF PersonStep
<1>3. ASSUME NEW k \in Nodes, JobStep(k) PROVE template' = template
  BY <1>3 DEF JobStep, ReadTimedOut, Start, ReleaseClaimTimeoutNodes,
              OfflineAgentFallback, TakenFromAgent, Elapse
<1>4. ASSUME \/ CommitTimedOut \/ ClearExpiredReservations \/ DeleteTask
             \/ \E a \in Agents : DeleteAgent(a)
             \/ \E p \in Operators : Abandon(p)
             \/ UNCHANGED vars
      PROVE  template' = template
  BY <1>4 DEF CommitTimedOut, CommitPark, ClearExpiredReservations, DeleteTask,
              DeleteAgent, Abandon, vars
<1> QED BY <1>1, <1>2, <1>3, <1>4 DEF Next

\* A node may be rejected once at least.
LEMMA CyclesPositive ==
  ASSUME TypeOK, NEW k \in Nodes
  PROVE  MaxCycles(k) \in Nat /\ 0 < MaxCycles(k)
<1>1. template[k].maxRejects \in Nat
  BY ConstantsAssumption DEF TypeOK, TemplateNode
<1> QED BY <1>1 DEF MaxCycles

Free == {"pending", "in_progress"}

\* The reject count of the first node grows only where it is compared with
\* the limit, and no write brings back a count from memory.
LEMMA BudgetKept ==
  ASSUME Typed, RowsAsRead, RollbackBudget, [Next]_vars
  PROVE  RollbackBudget'
<1>0. 1 \in Nodes /\ node[1] \in Row
  BY ConstantsAssumption DEF Nodes, Typed, TypeOK
<1>m. MaxCycles(1)' = MaxCycles(1) /\ MaxCycles(1) \in Nat /\ 0 < MaxCycles(1)
  BY <1>0, TemplateFixed, CyclesPositive DEF MaxCycles, Typed
<1>s. \/ node'[1].status \notin Free
      \/ node[1].status \in Free /\ node'[1].rejects = node[1].rejects
      \/ node'[1].rejects < MaxCycles(1)
      => RollbackBudget'
  BY <1>m DEF RollbackBudget, Free
<1> DEFINE Goal == \/ node'[1].status \notin Free
                   \/ node[1].status \in Free /\ node'[1].rejects = node[1].rejects
                   \/ node'[1].rejects < MaxCycles(1)
<1>1. ASSUME node'[1] = node[1] PROVE Goal
  BY <1>1
<1>2. ASSUME NEW p \in Operators, NEW op \in AtWork, NEW by,
             by = None \/ by = req[p].row.assignee, CommitPark(p, op, by)
      PROVE  Goal
  <2>1. req[p].node \in Nodes /\ req[p].row \in Row
    BY <1>2, AtWorkSnapshot DEF CommitPark, Commit
  <2>2. Parked(req[p].row, by).status \notin Free
    BY <2>1 DEF Parked, Row, Free
  <2> QED BY <1>2, <2>1, <2>2 DEF CommitPark, Typed, TypeOK
<1>3. ASSUME NEW p \in People, CommitManual(p) \/ CommitInterrupt(p) PROVE Goal
  <2> HIDE DEF Goal
  <2> QED BY <1>2, <1>3 DEF CommitManual, CommitInterrupt, AtWork, Operators
<1>4. ASSUME CommitTimedOut PROVE Goal
  <2> HIDE DEF Goal
  <2> QED BY <1>2, <1>4 DEF CommitTimedOut, AtWork, Operators
<1>5. ASSUME NEW p \in People, CommitClaim(p) PROVE Goal
  <2>1. req[p].node \in Nodes
    BY <1>5 DEF CommitClaim, Commit, InFlight, Typed, TypeOK, Request, Operators
  <2>2. CASE req[p].node = 1
    <3>1. node[1].status = "pending"
      BY <1>5, <2>2 DEF CommitClaim, ClaimMatches
    <3>2. node'[1] = IF p \in Agents THEN AgentClaimed(p, node[1]) ELSE HumanClaimed(p, node[1])
      BY <1>0, <1>5, <2>2 DEF CommitClaim, Typed, TypeOK
    <3>3. /\ AgentClaimed(p, node[1]).rejects = node[1].rejects
          /\ HumanClaimed(p, node[1]).rejects = node[1].rejects
      BY <1>0 DEF AgentClaimed, HumanClaimed, Row
    <3> QED BY <3>1, <3>2, <3>3 DEF Free
  <2>3. CASE req[p].node # 1
    BY <1>1, <1>0, <1>5, <2>1, <2>3 DEF CommitClaim, Typed, TypeOK
  <2> QED BY <2>2, <2>3
<1>6. ASSUME NEW p \in People, CommitApprove(p) PROVE Goal
  <2> DEFINE j == req[p].node
             row == req[p].row
  <2>1. j \in Nodes /\ row \in Row /\ 1 # j + 1
    BY <1>6, AtWorkSnapshot, ConstantsAssumption
       DEF CommitApprove, Commit, Operators, AtWork, Nodes
  <2>2. CASE 1 = j
    <3>1. node'[1].status = "completed"
      BY <1>0, <1>6, <2>1, <2>2 DEF CommitApprove, Completed, Row
    <3> QED BY <3>1 DEF Free
  <2>3. CASE 1 # j
    <3>1. node'[1] = node[1]
      BY <1>0, <1>6, <2>1, <2>3 DEF CommitApprove
    <3> QED BY <1>1, <3>1
  <2> QED BY <2>2, <2>3
<1>7. ASSUME NEW p \in People, CommitReject(p) PROVE Goal
  <2> DEFINE j == req[p].node
             t == req[p].target
             row == req[p].row
  <2>1. j \in Nodes /\ t \in Nodes /\ t < j
    BY <1>7, AtWorkSnapshot DEF CommitReject, Commit, Operators, AtWork
  <2>2. t # j /\ 1 # j
    BY <2>1, ConstantsAssumption DEF Nodes
  <2>3. CASE t = 1
    <3>1. node'[1] = RolledBack(1)
      BY <1>0, <1>7, <2>1, <2>2, <2>3 DEF CommitReject, Typed, TypeOK
    <3>2. RolledBack(1).status \notin Free \/ RolledBack(1).rejects < MaxCycles(1)
      <4> DEFINE r == [node[1] EXCEPT !.rejects = @ + 1, !.version = @ + 2,
                                      !.expires = "never", !.completedBy = None]
      <4>1. r.rejects \in Nat /\ r \in Row
        BY <1>0, Counting DEF Row
      <4>2. CASE r.rejects >= MaxCycles(1)
        <5>1. RolledBack(1) = [r EXCEPT !.status = "manual_intervention",
                                        !.assigneeType = "human", !.reserved = None]
          BY <4>2 DEF RolledBack
        <5> HIDE DEF r
        <5> QED BY <4>1, <5>1 DEF Row, Free
      <4>3. CASE ~ (r.rejects >= MaxCycles(1))
        <5>1. RolledBack(1) = [r EXCEPT !.status = "pending", !.assigneeType = "any_agent",
                                        !.assignee = None, !.reserved = node[1].assignee]
          BY <4>3 DEF RolledBack
        <5>2. r.rejects < MaxCycles(1)
          BY <1>m, <4>1, <4>3
        <5> HIDE DEF r
        <5> QED BY <4>1, <5>1, <5>2 DEF Row
      <4> QED BY <4>2, <4>3
    <3> QED BY <3>1, <3>2
  <2>4. CASE t # 1
    <3>1. node'[1] = node[1]
      BY <1>0, <1>7, <2>1, <2>2, <2>4 DEF CommitReject, Typed, TypeOK
    <3> QED BY <1>1, <3>1
  <2> QED BY <2>3, <2>4
<1>8. ASSUME NEW p \in People,
             \/ CommitResolveComplete(p)
             \/ \E agent \in Agents \cup {None} : CommitReExecute(p, agent)
      PROVE  Goal
  <2>1. req[p].node \in Nodes /\ req[p].row \in Row
    BY <1>8 DEF CommitResolveComplete, CommitReExecute, Commit, InFlight, Operators,
                Typed, TypeOK, Request, Snapshots, SnapshotOK
  <2>2. PICK row : /\ row.status \notin Free \/ row.rejects = 0
                   /\ node' = [node EXCEPT ![req[p].node] = row]
    BY <1>8, <2>1 DEF CommitResolveComplete, CommitReExecute, Completed, ReExecuted, Row, Free
  <2> QED BY <1>1, <1>0, <1>m, <2>1, <2>2 DEF Typed, TypeOK
<1>9. ASSUME NEW p \in People, CommitSkip(p) PROVE Goal
  <2>1. /\ req[p].node \in Nodes /\ req[p].row \in Row
        /\ node[req[p].node].status = req[p].row.status
        /\ node[req[p].node].rejects = req[p].row.rejects
    BY <1>9, Matched DEF CommitSkip, Commit, Unchanged, Operators, AsRead
  <2>2. CASE req[p].node = 1
    <3>1. /\ node'[1].status = req[p].row.status
          /\ node'[1].rejects = req[p].row.rejects
      BY <1>0, <1>9, <2>1, <2>2 DEF CommitSkip, Typed, TypeOK, Row
    <3> QED BY <2>1, <2>2, <3>1
  <2>3. CASE req[p].node # 1
    BY <1>1, <1>0, <1>9, <2>1, <2>3 DEF CommitSkip, Typed, TypeOK
  <2> QED BY <2>2, <2>3
<1>10. ASSUME NodesReleased PROVE Goal
  BY <1>0, <1>10 DEF NodesReleased, Row, Free
<1>11. ASSUME NEW j \in Nodes, TakenFromAgent(j) PROVE Goal
  BY <1>0, <1>11 DEF TakenFromAgent, Typed, TypeOK, Row, Free
<1>12. ASSUME StatusKeeper PROVE Goal
  <2>1. node'[1].status = node[1].status
    BY <1>0, <1>12, StatusKept
  <2>2. node'[1].rejects = node[1].rejects
    <3>1. CASE ClearExpiredReservations
      BY <1>0, <3>1 DEF ClearExpiredReservations, Row
    <3>2. ASSUME NEW j \in Nodes, Elapse(j) PROVE node'[1].rejects = node[1].rejects
      BY <1>0, <3>2 DEF Elapse, Row, Typed, TypeOK
    <3>3. ASSUME NEW a \in Agents, DeleteAgent(a) PROVE node'[1].rejects = node[1].rejects
      BY <1>0, <3>3 DEF DeleteAgent, Row
    <3> QED BY <1>12, <3>1, <3>2, <3>3 DEF StatusKeeper
  <2> QED BY <2>1, <2>2
<1>13. ASSUME QuietStep PROVE Goal
  BY <1>1, <1>13, QuietStepKeepsNodes
<1> HIDE DEF Goal
<1>14. Goal
  BY <1>3, <1>4, <1>5, <1>6, <1>7, <1>8, <1>9, <1>10, <1>11, <1>12, <1>13, StepCases
     DEF DeleteTask, CancelTaskNodes
<1> QED BY <1>14, <1>s DEF Goal

\* Agents cannot send the work back to the first node for ever: after
\* max_reject_cycles rollbacks it is with a human, whatever else is done to it
\* in between.
THEOREM BudgetHolds == Spec => []RollbackBudget
<1>1. Init => RollbackBudget
  <2> SUFFICES ASSUME Init PROVE RollbackBudget
    OBVIOUS
  <2>1. Typed /\ 1 \in Nodes
    BY InitTyped, ConstantsAssumption DEF Nodes
  <2>2. node[1].rejects = 0
    BY <2>1 DEF Init, NewRow
  <2> QED BY <2>1, <2>2, CyclesPositive DEF RollbackBudget, Typed
<1> QED BY <1>1, InitTyped, NextTyped, InitAsRead, NextAsRead, BudgetKept, PTL DEF Spec

-----------------------------------------------------------------------------
(* Reviews. The check for self-reviews is made by the read of a claim; that *)
(* it still holds while the review goes on rests on FrontOrdered: while the *)
(* review may be claimed, and while it goes on, everything before it is     *)
(* completed and stays so, hence keeps its assignees. The deletion of an    *)
(* agent undoes this: without its assignee the nearest standard node is     *)
(* passed over, and an earlier one counts.                                  *)

\* What is before a live node stays completed until that node is left.
LEMMA BeforeLiveStays ==
  ASSUME Typed, FrontOrdered, [Next]_vars, NEW k \in Nodes, Live(k),
         node[k].status # "in_progress" \/ Live(k)'
  PROVE  \A j \in 1 .. k - 1 : j \in Nodes /\ node[j].status = "completed"
                                           /\ node'[j].status = "completed"
<1>1. \A j \in 1 .. k - 1 : j \in Nodes /\ j < k /\ node[j].status = "completed"
  BY ConstantsAssumption DEF FrontOrdered, Nodes
<1>2. CASE Live(k)'
  BY <1>1, <1>2, NextFront DEF FrontOrdered
<1>3. ASSUME node[k].status # "in_progress", NEW j \in 1 .. k - 1,
             node'[j].status # "completed"
      PROVE  FALSE
  <2>1. j \in Nodes /\ j < k /\ node[j].status = "completed"
    BY <1>1, <1>3
  <2>2. ASSUME j > 1, node[j - 1].status = "in_progress" PROVE FALSE
    <3>1. j - 1 \in 1 .. k - 1
      BY <2>1, <2>2, ConstantsAssumption DEF Nodes
    <3> QED BY <1>1, <2>2, <3>1
  <2>3. ASSUME NEW m \in Nodes, m > j, node[m].status = "in_progress" PROVE FALSE
    <3>1. Live(m)
      BY <2>3, AtWorkIsLive
    <3>2. m < k => m \in 1 .. k - 1
      BY <2>3, ConstantsAssumption DEF Nodes
    <3>3. k < m => k \in 1 .. m - 1
      BY <2>3, ConstantsAssumption DEF Nodes
    <3>4. node[k].status # "completed"
      BY DEF Live
    <3>5. m < k \/ m = k \/ k < m
      BY ConstantsAssumption DEF Nodes
    <3> QED BY <1>1, <1>3, <2>3, <3>1, <3>2, <3>3, <3>4, <3>5 DEF FrontOrdered
  <2> QED BY <1>3, <2>1, <2>2, <2>3, WhoReopens
<1> QED BY <1>1, <1>2, <1>3

\* So the author that counts for a review stays the same.
LEMMA SameAuthor ==
  ASSUME Typed, RowsAsRead, FrontOrdered, [Next]_vars, agents' = Agents,
         NEW k \in Nodes, Live(k), node[k].status # "in_progress" \/ Live(k)',
         NEW a
  PROVE  WroteLastStandard(a, k)' = WroteLastStandard(a, k)
<1>1. ASSUME NEW j \in 1 .. k - 1 PROVE node'[j].assignee = node[j].assignee
  <2>1. j \in Nodes /\ node[j].status = "completed" /\ node'[j].status = "completed"
    BY BeforeLiveStays
  <2> QED BY <2>1, AssigneeKept
<1>2. template' = template
  BY TemplateFixed
<1>3. \A j \in 1 .. k - 1 : \A i \in j + 1 .. k - 1 : i \in 1 .. k - 1
  BY ConstantsAssumption DEF Nodes
<1> QED BY <1>1, <1>2, <1>3 DEF WroteLastStandard

\* A claim that can still win was checked, and the check still holds.
ClaimChecked(p) ==
  LET k == req[p].node IN
    /\ req[p].row.status # "in_progress"
    /\ node[k].version = req[p].row.version /\ node[k].status = "pending"
         => Live(k) /\ ~ SelfReview(p, k)

ClaimsChecked ==
  \A p \in Agents : HoldsRow(p) /\ req[p].op = "claim" => ClaimChecked(p)

\* Only the second read of a claim gives it a row.
LEMMA NewClaim ==
  ASSUME Typed, [Next]_vars, NEW p \in People, HoldsRow(p)', req'[p].op = "claim",
         req'[p] # req[p]
  PROVE  ReadClaim(p)
<1>0. /\ p \in Operators /\ p # Scheduler
      /\ req'[p] # None /\ req'[p].stage = "read"
  BY ConstantsAssumption DEF Operators, HoldsRow
<1>1. ASSUME NEW q \in Operators, Finish(q) PROVE FALSE
  BY <1>0, <1>1 DEF Finish, Typed, TypeOK
<1>2. ASSUME NEW q \in Operators, NEW op, NEW stage, NEW k, NEW row, NEW target,
             Start(q, op, stage, k, row, target), stage = "checked" \/ op # "claim"
      PROVE  FALSE
  <2>1. q = p
    BY <1>0, <1>2 DEF Start, Typed, TypeOK
  <2>2. req'[p] = [op |-> op, stage |-> stage, node |-> k, row |-> row, target |-> target]
    BY <1>0, <1>2, <2>1 DEF Start, Typed, TypeOK
  <2> QED BY <1>0, <1>2, <2>2
<1>3. ASSUME NEW q \in People, ReadComplete(q) PROVE FALSE
  <2>1. Reread(q) /\ req[q] \in Request /\ req[q].op = "complete"
    BY <1>3 DEF ReadComplete, InFlight, Operators, Typed, TypeOK
  <2>2. q = p
    BY <1>0, <2>1 DEF Reread, Typed, TypeOK
  <2>3. req'[p] = [req[p] EXCEPT !.stage = "read", !.row = node[req[p].node]]
    BY <1>0, <2>1, <2>2 DEF Reread, Typed, TypeOK
  <2>4. req'[p].op = "complete"
    BY <2>1, <2>2, <2>3 DEF Request
  <2> QED BY <2>4
<1>4. ASSUME NEW q \in People, NEW k \in Nodes, PersonReads(q, k) PROVE FALSE
  BY <1>2, <1>4 DEF PersonReads, CheckClaim, CheckComplete, ReadApprove, ReadReject, ReadManual,
                    ReadInterrupt, ReadResolve, ReadSkip, Operators
<1>5. ASSUME NEW q \in People, PersonStep(q) PROVE q = p /\ ReadClaim(q)
  <2>1. ASSUME \/ CommitClaim(q) \/ CommitApprove(q) \/ CommitReject(q) \/ CommitManual(q)
               \/ CommitInterrupt(q) \/ CommitResolveComplete(q)
               \/ \E agent \in Agents \cup {None} : CommitReExecute(q, agent)
               \/ CommitSkip(q) \/ CommitEdit(q) \/ CancelTaskNodes(q)
        PROVE  FALSE
    <3>1. Finish(q)
      BY <2>1 DEF CommitClaim, CommitApprove, CommitReject, CommitManual, CommitInterrupt,
                  CommitPark, CommitResolveComplete, CommitReExecute, CommitSkip, Commit,
                  CommitEdit, CancelTaskNodes
    <3> QED BY <1>1, <3>1 DEF Operators
  <2>2. ASSUME ReadEdit(q) \/ ReadCancel(q) PROVE FALSE
    BY <1>2, <2>2 DEF ReadEdit, ReadCancel, Operators
  <2>3. ASSUME ReadClaim(q) PROVE q = p
    BY <1>0, <2>3 DEF ReadClaim, Reread, Typed, TypeOK
  <2>4. ASSUME CommitCancel(q) PROVE FALSE
    <3>1. q = p
      BY <1>0, <2>4 DEF CommitCancel, Typed, TypeOK
    <3>2. req'[p] = [req[p] EXCEPT !.stage = "written"] /\ req[p] \in Request
      BY <1>0, <2>4, <3>1 DEF CommitCancel, InFlight, Typed, TypeOK
    <3> QED BY <1>0, <3>2 DEF Request
  <2> QED BY <1>3, <1>5, <2>1, <2>2, <2>3, <2>4 DEF PersonStep
<1>6. ASSUME NEW k \in Nodes, JobStep(k) PROVE FALSE
  <2>1. ~ ReadTimedOut(k)
    BY <1>2 DEF ReadTimedOut, Operators
  <2> QED BY <1>6, <2>1 DEF JobStep, ReleaseClaimTimeoutNodes, OfflineAgentFallback,
                            TakenFromAgent, Elapse
<1>7. ASSUME \/ ClearExpiredReservations \/ DeleteTask
             \/ \E a \in Agents : DeleteAgent(a)
             \/ UNCHANGED vars
      PROVE  FALSE
  BY <1>7 DEF ClearExpiredReservations, DeleteTask, DeleteAgent, vars
<1>8. ASSUME CommitTimedOut \/ \E q \in Operators : Abandon(q) PROVE FALSE
  BY <1>1, <1>8 DEF CommitTimedOut, CommitPark, Commit, Abandon, Operators
<1> QED BY <1>4, <1>5, <1>6, <1>7, <1>8 DEF Next

\* A claim stays checked until it is committed.
LEMMA NextClaimsChecked ==
  ASSUME Typed, RowsAsRead, FrontOrdered, ClaimsChecked, [Next]_vars, agents' = Agents
  PROVE  ClaimsChecked'
<1> SUFFICES ASSUME NEW p \in Agents, HoldsRow(p)', req'[p].op = "claim"
             PROVE  ClaimChecked(p)'
  BY DEF ClaimsChecked
<1>0. p \in People /\ p \in Operators /\ Typed'
  BY NextTyped DEF People, Operators
<1>1. CASE req'[p] = req[p]
  <2>1. HoldsRow(p) /\ req[p].op = "claim"
    BY <1>1 DEF HoldsRow
  <2>2. PICK k, row : k = req[p].node /\ row = req[p].row
    OBVIOUS
  <2>3. /\ k \in Nodes /\ node[k] \in Row /\ node'[k] \in Row /\ row \in Row
        /\ AsRead(k, row) /\ RowKept(k)
    BY <1>0, <2>1, <2>2, NextKeepsRows
       DEF Typed, TypeOK, Request, HoldsRow, RowsAsRead, AsRead
  <2>4. /\ row.status # "in_progress"
        /\ node[k].version = row.version /\ node[k].status = "pending"
             => Live(k) /\ ~ SelfReview(p, k)
    BY <2>1, <2>2 DEF ClaimsChecked, ClaimChecked
  <2>5. ASSUME node'[k].version = row.version, node'[k].status = "pending"
        PROVE  Live(k)' /\ ~ SelfReview(p, k)'
    <3>1. node[k].version = row.version /\ node'[k].version = node[k].version
      BY <2>3, <2>5 DEF AsRead, RowKept, Row
    <3>2. node[k].status = "pending"
      BY <2>3, <2>4, <2>5, <3>1 DEF AsRead, RowKept
    <3>3. Live(k) /\ ~ SelfReview(p, k)
      BY <2>4, <3>1, <3>2
    <3>4. k # 1 => k - 1 \in 1 .. k - 1
      BY <2>3, ConstantsAssumption DEF Nodes
    <3>5. k # 1 => node'[k - 1].status = "completed"
      BY <2>3, <3>2, <3>3, <3>4, BeforeLiveStays
    <3>6. WroteLastStandard(p, k)' = WroteLastStandard(p, k)
      BY <2>3, <3>2, <3>3, SameAuthor
    <3> QED BY <2>5, <3>3, <3>5, <3>6, TemplateFixed DEF Live, SelfReview
  <2>6. k = req'[p].node /\ row = req'[p].row
    BY <1>1, <2>2
  <2> QED BY <2>4, <2>5, <2>6 DEF ClaimChecked
<1>2. CASE req'[p] # req[p]
  <2>1. ReadClaim(p)
    BY <1>0, <1>2, NewClaim
  <2>2. PICK k : k = req[p].node
    OBVIOUS
  <2>3. /\ k \in Nodes /\ node[k].status # "in_progress" /\ node' = node
        /\ PredecessorDone(k) /\ ~ SelfReview(p, k) /\ req[p] \in Request
    BY <1>0, <2>1, <2>2 DEF ReadClaim, Reread, InFlight, Typed, TypeOK, Request
  <2>4. req'[p] = [req[p] EXCEPT !.stage = "read", !.row = node[k]]
    BY <1>0, <2>1, <2>2 DEF ReadClaim, Reread, Typed, TypeOK
  <2>5. k = req'[p].node /\ req'[p].row = node[k]
    BY <2>2, <2>3, <2>4 DEF Request
  <2>6. node[k].status = "pending" => Live(k)
    BY <2>3, AtWorkIsLive
  <2>7. SelfReview(p, k)' = SelfReview(p, k) /\ Live(k)' = Live(k)
    BY <2>3, TemplateFixed DEF SelfReview, WroteLastStandard, Live
  <2> QED BY <2>3, <2>5, <2>6, <2>7 DEF ClaimChecked
<1> QED BY <1>1, <1>2

\* So the review it starts is done by another than the author.
LEMMA NextReviewed ==
  ASSUME Typed, RowsAsRead, FrontOrdered, ClaimsChecked, ReviewedByAnother, [Next]_vars,
         agents' = Agents
  PROVE  ReviewedByAnother'
<1> SUFFICES ASSUME NEW k \in Nodes, NEW a \in Agents, node'[k].status = "in_progress",
                    node'[k].assignee = a, template'[k].nodeType = "review"
             PROVE  ~ WroteLastStandard(a, k)'
  BY DEF ReviewedByAnother
<1>0. Live(k)' /\ template' = template
  BY TemplateFixed DEF Live
<1>1. CASE node[k].status = "in_progress"
  <2>1. node[k].assignee = a
    BY <1>1, AssigneeKept
  <2>2. Live(k) /\ ~ WroteLastStandard(a, k)
    BY <1>0, <1>1, <2>1 DEF Live, ReviewedByAnother
  <2> QED BY <1>0, <2>2, SameAuthor
<1>2. CASE node[k].status # "in_progress"
  <2>1. PICK p \in People : CommitClaim(p) /\ req[p].node = k /\ node'[k].assignee = p
    BY <1>2, StartedByClaim
  <2>2. /\ a = p /\ HoldsRow(a) /\ req[a].op = "claim"
        /\ node[k].version = req[a].row.version /\ node[k].status = "pending"
    BY <2>1 DEF CommitClaim, Commit, InFlight, HoldsRow, ClaimMatches
  <2>3. Live(k) /\ ~ WroteLastStandard(a, k)
    BY <1>0, <2>1, <2>2 DEF ClaimsChecked, ClaimChecked, SelfReview
  <2> QED BY <1>2, <2>3, SameAuthor
<1> QED BY <1>1, <1>2

\* The first node has nothing before it that could be reviewed.
LEMMA InitReviewed == Init => ClaimsChecked /\ ReviewedByAnother
<1> SUFFICES ASSUME Init PROVE ClaimsChecked /\ ReviewedByAnother
  OBVIOUS
<1>1. ClaimsChecked
  BY DEF Init, ClaimsChecked, HoldsRow, Operators, People
<1>2. ASSUME NEW k \in Nodes, NEW a \in Agents, node[k].status = "in_progress",
             WroteLastStandard(a, k)
      PROVE  FALSE
  <2>1. k = 1
    BY <1>2 DEF Init, NewRow
  <2> QED BY <1>2, <2>1 DEF WroteLastStandard
<1> QED BY <1>1, <1>2 DEF ReviewedByAnother

\* As long as no agent is deleted, the agent that works on a review is not the
\* one that did the work under review, although the check is made by a read and
\* the claim is committed later, and although the work may have been rejected
\* and redone by others before.
THEOREM AuthorsDoNotReview == Spec => [](agents = Agents => ReviewedByAnother)
<1> DEFINE Inv == /\ Typed /\ RowsAsRead /\ FrontOrdered
                  /\ agents = Agents => ClaimsChecked /\ ReviewedByAnother
<1>1. Init => Inv
  BY InitTyped, InitAsRead, InitFront, InitReviewed
<1>2. Inv /\ [Next]_vars => Inv'
  <2> SUFFICES ASSUME Inv, [Next]_vars PROVE Inv'
    OBVIOUS
  <2>1. agents' = Agents => agents = Agents
    BY AgentsShrink DEF Typed, TypeOK
  <2>2. ASSUME agents' = Agents PROVE ClaimsChecked' /\ ReviewedByAnother'
    BY <2>1, <2>2, NextClaimsChecked, NextReviewed
  <2> QED BY <2>2, NextTyped, NextAsRead, NextFront
<1> HIDE DEF Inv
<1>3. Inv => (agents = Agents => ReviewedByAnother)
  BY DEF Inv
<1> QED BY <1>1, <1>2, <1>3, PTL DEF Spec

-----------------------------------------------------------------------------
(* What a step does to the statuses, whatever it does to the rest of the   *)
(* rows. All that follows about the pipeline rests on this list alone.     *)

Moves(k, from, to) ==
  /\ node[k].status = from
  /\ node'[k].status = to
  /\ \A j \in Nodes : j # k => node'[j].status = node[j].status

Approved(k) ==
  /\ node[k].status = "in_progress"
  /\ node'[k].status = "completed"
  /\ k + 1 \in Nodes => node'[k + 1].status = "pending"
  /\ k = NumNodes => task' = "completed"
  /\ \A j \in Nodes : j # k /\ j # k + 1 => node'[j].status = node[j].status

SentBack(k, t) ==
  /\ t < k
  /\ node[k].status = "in_progress"
  /\ node'[k].status = "rejected"
  /\ node'[t].status \in {"pending", "manual_intervention"}
  /\ \A j \in Nodes : j # k /\ j # t => node'[j].status = node[j].status

SameStatuses == \A k \in Nodes : node'[k].status = node[k].status

\* One row is rewritten.
LEMMA RewriteMoves ==
  ASSUME Typed, NEW k \in Nodes, NEW row, node' = [node EXCEPT ![k] = row]
  PROVE  Moves(k, node[k].status, row.status)
BY DEF Moves, Typed, TypeOK

\* A hand-over to a human, by a person or by the timeout job.
LEMMA ParkMoves ==
  ASSUME Typed, NEW q \in Operators, NEW op \in AtWork,
         NEW by, by = None \/ by = req[q].row.assignee, CommitPark(q, op, by)
  PROVE  \E k \in Nodes : Moves(k, "in_progress", "manual_intervention")
<1>1. /\ req[q].node \in Nodes /\ req[q].row \in Row
      /\ node[req[q].node].status = "in_progress"
  BY AtWorkSnapshot DEF CommitPark, Commit, Unchanged
<1>2. Parked(req[q].row, by).status = "manual_intervention"
  BY <1>1 DEF Parked, Row
<1> QED BY <1>1, <1>2, RewriteMoves DEF CommitPark

\* The requests that rewrite one row.
LEMMA PersonMoves ==
  ASSUME Typed, NEW p \in People
  PROVE  /\ CommitClaim(p) => \E k \in Nodes : Live(k) /\ Moves(k, "pending", "in_progress")
         /\ CommitManual(p) \/ CommitInterrupt(p)
              => \E k \in Nodes : Moves(k, "in_progress", "manual_intervention")
         /\ (\E agent \in Agents \cup {None} : CommitReExecute(p, agent))
              => \E k \in Nodes : Moves(k, "manual_intervention", "pending")
         /\ CommitResolveComplete(p)
              => \E k \in Nodes : Moves(k, "manual_intervention", "completed")
         /\ CommitSkip(p) => SameStatuses
<1>1. ASSUME CommitClaim(p)
      PROVE  \E k \in Nodes : Live(k) /\ Moves(k, "pending", "in_progress")
  <2> DEFINE k == req[p].node
             row == IF p \in Agents THEN AgentClaimed(p, node[k])
                                    ELSE HumanClaimed(p, node[k])
  <2>1. k \in Nodes /\ node[k] \in Row /\ node' = [node EXCEPT ![k] = row]
    BY <1>1 DEF CommitClaim, Commit, InFlight, Typed, TypeOK, Request, Operators
  <2>2. row.status = "in_progress"
    BY <2>1 DEF AgentClaimed, HumanClaimed, Row
  <2>3. Live(k) /\ node[k].status = "pending"
    BY <1>1, <2>1, AtWorkIsLive DEF CommitClaim, ClaimMatches
  <2> HIDE DEF k, row
  <2> QED BY <2>1, <2>2, <2>3, RewriteMoves
<1>2. ASSUME \/ CommitResolveComplete(p)
             \/ \E agent \in Agents \cup {None} : CommitReExecute(p, agent)
      PROVE  /\ req[p].node \in Nodes /\ req[p].row \in Row
             /\ node[req[p].node].status = "manual_intervention"
  BY <1>2 DEF CommitResolveComplete, CommitReExecute, Commit, InFlight, Operators,
              Typed, TypeOK, Request, Snapshots, SnapshotOK, Unchanged
<1>3. ASSUME NEW agent \in Agents \cup {None}, CommitReExecute(p, agent)
      PROVE  \E k \in Nodes : Moves(k, "manual_intervention", "pending")
  <2>1. ReExecuted(req[p].row, agent).status = "pending"
    BY <1>2, <1>3 DEF ReExecuted, Row
  <2> QED BY <1>2, <1>3, <2>1, RewriteMoves DEF CommitReExecute
<1>4. ASSUME CommitResolveComplete(p)
      PROVE  \E k \in Nodes : Moves(k, "manual_intervention", "completed")
  <2>1. Completed(req[p].row, p).status = "completed"
    BY <1>2, <1>4 DEF Completed, Row
  <2> QED BY <1>2, <1>4, <2>1, RewriteMoves DEF CommitResolveComplete
<1>5. ASSUME CommitSkip(p) PROVE SameStatuses
  <2>1. /\ req[p].node \in Nodes /\ req[p].row \in Row
        /\ node[req[p].node].status = req[p].row.status
    BY <1>5 DEF CommitSkip, Commit, InFlight, Operators, Typed, TypeOK, Request,
                Snapshots, SnapshotOK, Unchanged
  <2> QED BY <1>5, <2>1 DEF CommitSkip, Typed, TypeOK, Row, SameStatuses
<1>6. "manual" \in AtWork /\ "interrupt" \in AtWork /\ p \in Operators
  BY DEF AtWork, Operators
<1> QED BY <1>1, <1>3, <1>4, <1>5, <1>6, ParkMoves DEF CommitManual, CommitInterrupt

\* Of the live nodes there is one.
LEMMA OneLive ==
  ASSUME FrontOrdered, NEW j \in Nodes, NEW k \in Nodes, Live(j), Live(k)
  PROVE  j = k
<1>1. node[j].status # "completed" /\ node[k].status # "completed"
  BY DEF Live
<1>2. j < k => j \in 1 .. k - 1
  BY ConstantsAssumption DEF Nodes
<1>3. k < j => k \in 1 .. j - 1
  BY ConstantsAssumption DEF Nodes
<1>4. j < k \/ j = k \/ k < j
  BY DEF Nodes
<1> QED BY <1>1, <1>2, <1>3, <1>4 DEF FrontOrdered

\* An approval completes its node, and the next one waits.
LEMMA ApproveMoves ==
  ASSUME Typed, FrontOrdered, NEW p \in People, CommitApprove(p)
  PROVE  \E k \in Nodes : Approved(k)
<1> DEFINE k   == req[p].node
           row == req[p].row
<1>1. k \in Nodes /\ row \in Row /\ node[k].status = "in_progress" /\ k # k + 1
  BY AtWorkSnapshot DEF CommitApprove, Commit, Unchanged, Operators, AtWork, Nodes
<1>2. node'[k].status = "completed"
  BY <1>1 DEF CommitApprove, Completed, Row
<1>3. ASSUME k + 1 \in Nodes PROVE node'[k + 1].status = "pending"
  <2>1. node'[k + 1] = Activated(k, row)
    BY <1>1, <1>3 DEF CommitApprove
  <2>2. node[k + 1].status # "in_progress" /\ node[k + 1] \in Row
    BY <1>1, <1>3, AtWorkIsLive, OneLive DEF Typed, TypeOK
  <2> QED BY <2>1, <2>2 DEF Activated, Row
<1>4. \A j \in Nodes : j # k /\ j # k + 1 => node'[j].status = node[j].status
  BY DEF CommitApprove
<1>5. k = NumNodes => task' = "completed"
  BY DEF CommitApprove
<1> HIDE DEF k
<1> QED BY <1>1, <1>2, <1>3, <1>4, <1>5 DEF Approved

\* A rejection reopens its target.
LEMMA RejectMoves ==
  ASSUME Typed, NEW p \in People, CommitReject(p)
  PROVE  \E k, t \in Nodes : SentBack(k, t)
<1> DEFINE k   == req[p].node
           t   == req[p].target
           row == req[p].row
<1>1. /\ k \in Nodes /\ t \in Nodes /\ t < k
      /\ row \in Row /\ node[k].status = "in_progress"
  BY AtWorkSnapshot DEF CommitReject, Commit, Unchanged, Operators, AtWork
<1>2. node' = [node EXCEPT ![k] = Rejected(row), ![t] = RolledBack(t)]
  BY DEF CommitReject
<1>3. Rejected(row).status = "rejected"
  BY <1>1 DEF Rejected, Row
<1>4. RolledBack(t).status \in {"pending", "manual_intervention"}
  BY <1>1 DEF RolledBack, Typed, TypeOK, Row
<1>5. t # k
  BY <1>1 DEF Nodes
<1> HIDE DEF k, t, row
<1>6. SentBack(k, t)
  BY <1>1, <1>2, <1>3, <1>4, <1>5 DEF SentBack, Typed, TypeOK
<1> QED BY <1>1, <1>6

\* Deleted and cancelled tasks, and the jobs that take a node from its agent.
LEMMA JobMoves ==
  ASSUME Typed, FrontOrdered
  PROVE  /\ NodesReleased
              => SameStatuses \/ \E k \in Nodes : Moves(k, "in_progress", "pending")
         /\ \A k \in Nodes : TakenFromAgent(k)
              => Moves(k, "in_progress", "manual_intervention")
<1>1. ASSUME NodesReleased
      PROVE  SameStatuses \/ \E k \in Nodes : Moves(k, "in_progress", "pending")
  <2>1. \A j \in Nodes : node'[j].status = IF node[j].status = "in_progress"
                                             THEN "pending" ELSE node[j].status
    BY <1>1 DEF NodesReleased, Typed, TypeOK, Row
  <2>2. ASSUME NEW k \in Nodes, node[k].status = "in_progress"
        PROVE  Moves(k, "in_progress", "pending")
    <3>1. \A j \in Nodes : j # k => node[j].status # "in_progress"
      BY <2>2, AtWorkIsLive, OneLive
    <3> QED BY <2>1, <2>2, <3>1 DEF Moves
  <2> QED BY <2>1, <2>2 DEF SameStatuses
<1>2. ASSUME NEW k \in Nodes, TakenFromAgent(k)
      PROVE  Moves(k, "in_progress", "manual_intervention")
  BY <1>2 DEF TakenFromAgent, Moves, Typed, TypeOK, Row
<1> QED BY <1>1, <1>2

\* Every step of the workflow is one of these.
LEMMA StatusSteps ==
  ASSUME Typed, FrontOrdered, [Next]_vars
  PROVE  \/ SameStatuses
         \/ \E k \in Nodes : Live(k) /\ Moves(k, "pending", "in_progress")
         \/ \E k \in Nodes : Moves(k, "in_progress", "manual_intervention")
         \/ \E k \in Nodes : Moves(k, "in_progress", "pending")
         \/ \E k \in Nodes : Moves(k, "manual_intervention", "pending")
         \/ \E k \in Nodes : Moves(k, "manual_intervention", "completed")
         \/ \E k \in Nodes : Approved(k)
         \/ \E k, t \in Nodes : SentBack(k, t)
<1>1. CASE QuietStep \/ StatusKeeper
  BY <1>1, QuietStepKeepsNodes, StatusKept DEF SameStatuses
<1>2. CASE CommitTimedOut
  BY <1>2, ParkMoves DEF CommitTimedOut, Operators, AtWork
<1>3. CASE \/ DeleteTask \/ \E p \in People : CancelTaskNodes(p)
           \/ \E k \in Nodes : TakenFromAgent(k)
  BY <1>3, JobMoves DEF DeleteTask, CancelTaskNodes
<1> QED BY <1>1, <1>2, <1>3, PersonMoves, ApproveMoves, RejectMoves, StepCases

-----------------------------------------------------------------------------
(* Where the work is. What lies beyond the front was completed before a    *)
(* rejection went back over it, so before the front gets past it, it comes *)
(* to the node that was rejected then.                                     *)

FirstOpen(k) ==
  /\ k \in Nodes
  /\ node[k].status # "completed"
  /\ \A j \in 1 .. k - 1 : node[j].status = "completed"

\* Node k is followed by completed nodes, and those by a rejected one.
EndsInRejected(k) ==
  \E r \in Nodes : /\ k < r /\ node[r].status = "rejected"
                   /\ \A j \in k .. r - 1 : node[j].status = "completed"

BeyondIsRejected ==
  \A k \in Nodes :
    /\ node[k].status = "completed"
    /\ \E j \in 1 .. k - 1 : node[j].status # "completed"
    => EndsInRejected(k)

\* A non-empty set of natural numbers has a least one.
LEMMA Least ==
  ASSUME NEW T, T \subseteq Nat, T # {}
  PROVE  \E x \in T : \A y \in T : x <= y
<1> DEFINE R == OpToRel(<, Nat)
<1>1. IsWellFoundedOn(R, Nat)
  BY NatLessThanWellFounded
<1>2. \A x, y \in Nat : y < x => <<y, x>> \in R
  BY DEF OpToRel
<1> HIDE DEF R
<1>3. PICK x \in T : \A y \in T : ~ (<<y, x>> \in R)
  BY <1>1, WFMin
<1>4. ASSUME NEW y \in T PROVE x <= y
  <2>1. x \in Nat /\ y \in Nat
    OBVIOUS
  <2>2. ~ (y < x)
    BY <1>2, <1>3, <2>1
  <2> QED BY <2>1, <2>2
<1> QED BY <1>4

\* Either the work is done or some node is the first that is not.
LEMMA FirstOpenExists == AllDone \/ \E k \in Nodes : FirstOpen(k)
<1> SUFFICES ASSUME ~ AllDone PROVE \E k \in Nodes : FirstOpen(k)
  OBVIOUS
<1>1. Open # {} /\ Open \subseteq Nat
  BY DEF Open, AllDone, Nodes
<1>2. PICK k \in Open : \A j \in Open : k <= j
  BY <1>1, Least
<1>3. \A j \in 1 .. k - 1 : j \in Nodes /\ ~ (k <= j)
  BY ConstantsAssumption DEF Open, Nodes
<1> QED BY <1>2, <1>3 DEF FirstOpen, Open

\* That node is the front.
LEMMA FrontIs ==
  ASSUME NEW k, FirstOpen(k)
  PROVE  Front = k /\ Mode = ModeOf(node[k].status)
<1>1. k \in Nodes /\ k # NumNodes + 1
  BY ConstantsAssumption DEF FirstOpen, Nodes
<1>2. ASSUME NEW i \in Nodes, node[i].status # "completed",
             \A j \in 1 .. i - 1 : node[j].status = "completed"
      PROVE  i = k
  <2>1. i < k => i \in 1 .. k - 1
    BY <1>1, ConstantsAssumption DEF Nodes
  <2>2. k < i => k \in 1 .. i - 1
    BY <1>1, ConstantsAssumption DEF Nodes
  <2>3. i < k \/ i = k \/ k < i
    BY <1>1 DEF Nodes
  <2> QED BY <1>2, <2>1, <2>2, <2>3 DEF FirstOpen
<1>3. Front = k
  BY <1>1, <1>2 DEF Front, FirstOpen
<1> QED BY <1>1, <1>3 DEF Mode

\* When the work is done, the front is past the last node.
LEMMA FrontWhenDone ==
  ASSUME AllDone
  PROVE  Front = NumNodes + 1 /\ Mode = "done"
BY DEF AllDone, Front, Mode

\* The same after a step.
LEMMA NextFrontIs ==
  /\ \A k \in Nodes : FirstOpen(k)' => Front' = k /\ Mode' = ModeOf(node'[k].status)
  /\ AllDone' => Front' = NumNodes + 1 /\ Mode' = "done"
<1> DEFINE Is == /\ \A k \in Nodes : FirstOpen(k) => Front = k /\ Mode = ModeOf(node[k].status)
                 /\ AllDone => Front = NumNodes + 1 /\ Mode = "done"
<1>1. Is
  BY FrontIs, FrontWhenDone
<1> HIDE DEF Is
<1>2. Is'
  BY <1>1, PTL
<1> QED BY <1>2 DEF Is, ModeOf

\* The live node is the front.
LEMMA LiveIsFirstOpen ==
  ASSUME FrontOrdered, NEW k \in Nodes, Live(k)
  PROVE  FirstOpen(k)
BY DEF FrontOrdered, Live, FirstOpen

\* At first nothing is completed beyond an open node.
LEMMA InitBeyond == Init => BeyondIsRejected
<1> SUFFICES ASSUME Init, NEW k \in Nodes, node[k].status = "completed",
                    NEW j \in 1 .. k - 1
             PROVE  FALSE
  BY DEF BeyondIsRejected
<1>1. k = 1
  BY DEF Init, NewRow
<1> QED BY <1>1

\* Steps that complete and reopen no node, and reject none.
LEMMA BeyondKept ==
  ASSUME BeyondIsRejected,
         \A k \in Nodes : /\ (node'[k].status = "completed") = (node[k].status = "completed")
                          /\ (node'[k].status = "rejected") = (node[k].status = "rejected")
  PROVE  BeyondIsRejected'
<1> SUFFICES ASSUME NEW k \in Nodes, node'[k].status = "completed",
                    NEW j \in 1 .. k - 1, node'[j].status # "completed"
             PROVE  EndsInRejected(k)'
  BY DEF BeyondIsRejected
<1>1. j \in Nodes
  BY ConstantsAssumption DEF Nodes
<1>2. EndsInRejected(k)
  BY <1>1 DEF BeyondIsRejected
<1>3. \A r \in Nodes : \A i \in k .. r - 1 : i \in Nodes
  BY ConstantsAssumption DEF Nodes
<1> QED BY <1>2, <1>3 DEF EndsInRejected

\* Nothing gets completed beyond the front, and what a rejection leaves there
\* ends in the node it rejected.
LEMMA NextBeyond ==
  ASSUME Typed, FrontOrdered, BeyondIsRejected, [Next]_vars
  PROVE  BeyondIsRejected'
<1> DEFINE Stays(i) == /\ (node'[i].status = "completed") = (node[i].status = "completed")
                       /\ (node'[i].status = "rejected") = (node[i].status = "rejected")
<1>1. CASE SameStatuses
  BY <1>1, BeyondKept DEF SameStatuses
<1>2. ASSUME NEW k \in Nodes,
             \/ Moves(k, "pending", "in_progress")
             \/ Moves(k, "in_progress", "manual_intervention")
             \/ Moves(k, "in_progress", "pending")
             \/ Moves(k, "manual_intervention", "pending")
      PROVE  BeyondIsRejected'
  <2>1. \A i \in Nodes : Stays(i)
    BY <1>2 DEF Moves
  <2> QED BY <2>1, BeyondKept
<1>3. ASSUME NEW k \in Nodes, Moves(k, "manual_intervention", "completed") \/ Approved(k),
             NEW m \in Nodes, node'[m].status = "completed",
             NEW i \in 1 .. m - 1, node'[i].status # "completed"
      PROVE  EndsInRejected(m)'
  <2>1. FirstOpen(k)
    BY <1>3, AtWorkIsLive, LiveIsFirstOpen DEF Moves, Approved
  <2>2. i \in Nodes /\ i < m
    BY ConstantsAssumption DEF Nodes
  <2>3. node'[k].status = "completed" /\ i # k
    BY <1>3 DEF Moves, Approved
  <2>4. \A j \in 1 .. k - 1 : node'[j].status = "completed"
    <3>1. \A j \in 1 .. k - 1 : j \in Nodes /\ j # k /\ j # k + 1
      BY ConstantsAssumption DEF Nodes
    <3> QED BY <1>3, <2>1, <3>1 DEF Moves, Approved, FirstOpen
  <2>5. k < i /\ k \in 1 .. m - 1
    <3>1. i \notin 1 .. k - 1
      BY <1>3, <2>4
    <3> QED BY <2>2, <2>3, <3>1, ConstantsAssumption DEF Nodes
  <2>6. \A j \in Nodes : m <= j => j # k /\ j # k + 1
    BY <2>2, <2>5 DEF Nodes
  <2>7. \A j \in Nodes : m <= j => node'[j].status = node[j].status
    BY <1>3, <2>6 DEF Moves, Approved
  <2>8. node[m].status = "completed"
    BY <1>3, <2>7 DEF Nodes
  <2>9. EndsInRejected(m)
    BY <2>1, <2>5, <2>8 DEF BeyondIsRejected, FirstOpen
  <2>10. \A r \in Nodes : m < r => m <= r /\ \A j \in m .. r - 1 : j \in Nodes /\ m <= j
    BY ConstantsAssumption DEF Nodes
  <2> QED BY <2>7, <2>9, <2>10 DEF EndsInRejected
<1>4. ASSUME NEW k \in Nodes, NEW t \in Nodes, SentBack(k, t),
             NEW m \in Nodes, node'[m].status = "completed",
             NEW i \in 1 .. m - 1, node'[i].status # "completed"
      PROVE  EndsInRejected(m)'
  <2>1. FirstOpen(k) /\ t < k
    BY <1>4, AtWorkIsLive, LiveIsFirstOpen DEF SentBack
  <2>2. i \in Nodes /\ i < m /\ m # k /\ m # t
    BY <1>4, ConstantsAssumption DEF Nodes, SentBack
  <2>3. CASE m < k
    <3>1. i = t
      <4>1. i \in 1 .. k - 1 /\ i # k
        BY <2>2, <2>3, ConstantsAssumption DEF Nodes
      <4> QED BY <1>4, <2>1, <2>2, <4>1 DEF FirstOpen, SentBack
    <3>2. \A j \in m .. k - 1 : j \in Nodes /\ j \in 1 .. k - 1 /\ j # t /\ j # k
      BY <2>2, <2>3, <3>1, ConstantsAssumption DEF Nodes
    <3>3. \A j \in m .. k - 1 : node'[j].status = "completed"
      BY <1>4, <2>1, <3>2 DEF FirstOpen, SentBack
    <3> QED BY <1>4, <2>3, <3>3 DEF EndsInRejected, SentBack
  <2>4. CASE k < m
    <3>1. \A j \in Nodes : m <= j => j # k /\ j # t
      BY <2>1, <2>4 DEF Nodes
    <3>2. \A j \in Nodes : m <= j => node'[j].status = node[j].status
      BY <1>4, <3>1 DEF SentBack
    <3>3. node[m].status = "completed" /\ k \in 1 .. m - 1
      BY <1>4, <2>4, <3>2, ConstantsAssumption DEF Nodes
    <3>4. EndsInRejected(m)
      BY <2>1, <3>3 DEF BeyondIsRejected, FirstOpen
    <3>5. \A r \in Nodes : m < r => m <= r /\ \A j \in m .. r - 1 : j \in Nodes /\ m <= j
      BY ConstantsAssumption DEF Nodes
    <3> QED BY <3>2, <3>4, <3>5 DEF EndsInRejected
  <2>5. m < k \/ k < m
    BY <2>2 DEF Nodes
  <2> QED BY <2>3, <2>4, <2>5
<1> HIDE DEF Stays
<1>5. ASSUME \/ \E k \in Nodes : Moves(k, "manual_intervention", "completed") \/ Approved(k)
             \/ \E k, t \in Nodes : SentBack(k, t)
      PROVE  BeyondIsRejected'
  BY <1>3, <1>4, <1>5 DEF BeyondIsRejected
<1> QED BY <1>1, <1>2, <1>5, StatusSteps
-----------------------------------------------------------------------------
(* NodeWorkflow implements Pipeline.                                       *)

LEMMA InitImplements == Init => P!Init
<1> SUFFICES ASSUME Init PROVE P!Init
  OBVIOUS
<1>1. \A k \in Nodes : k # 1 => node[k].status = "pending"
  BY DEF Init, NewRow
<1>2. node[1].status \in {"in_progress", "completed", "pending"} /\ 1 \in Nodes
  BY ConstantsAssumption DEF Init, NewRow, FirstStatus, Nodes
<1>3. CASE node[1].status # "completed"
  <2>1. FirstOpen(1)
    BY <1>2, <1>3 DEF FirstOpen
  <2> QED BY <1>2, <1>3, <2>1, FrontIs DEF P!Init, ModeOf
<1>4. CASE node[1].status = "completed" /\ NumNodes = 1
  <2>1. AllDone
    BY <1>4 DEF AllDone, Nodes
  <2> QED BY <1>4, <2>1, FrontWhenDone DEF P!Init
<1>5. CASE node[1].status = "completed" /\ NumNodes # 1
  <2>1. 2 \in Nodes /\ node[2].status = "pending"
    BY <1>1, <1>5, ConstantsAssumption DEF Nodes
  <2>2. FirstOpen(2)
    BY <1>5, <2>1 DEF FirstOpen
  <2> QED BY <1>5, <2>1, <2>2, FrontIs DEF P!Init, ModeOf
<1> QED BY <1>3, <1>4, <1>5

\* The front stays where it is.
LEMMA FrontStays ==
  ASSUME NEW k \in Nodes, NEW from, NEW to, FirstOpen(k), Moves(k, from, to),
         to # "completed"
  PROVE  Front = k /\ Front' = k /\ Mode = ModeOf(from) /\ Mode' = ModeOf(to)
<1>1. \A j \in 1 .. k - 1 : j \in Nodes /\ j # k
  BY ConstantsAssumption DEF Nodes
<1>2. FirstOpen(k)'
  BY <1>1 DEF FirstOpen, Moves
<1>3. Front' = k /\ Mode' = ModeOf(node'[k].status)
  <2>1. (Front = k /\ Mode = ModeOf(node[k].status))'
    BY <1>2, NextFrontIs
  <2> QED BY <2>1 DEF ModeOf
<1> QED BY <1>3, FrontIs DEF Moves

\* A step that changes no status does not move the front.
LEMMA FrontKeptInPlace ==
  ASSUME SameStatuses
  PROVE  Front' = Front /\ Mode' = Mode
<1>1. CASE AllDone
  <2>1. AllDone'
    BY <1>1 DEF AllDone, SameStatuses
  <2>2. (Front = NumNodes + 1 /\ Mode = "done")'
    BY <2>1, NextFrontIs
  <2> QED BY <1>1, <2>2, FrontWhenDone
<1>2. ASSUME NEW k \in Nodes, FirstOpen(k) PROVE Front' = Front /\ Mode' = Mode
  <2>1. \A j \in 1 .. k - 1 : j \in Nodes
    BY ConstantsAssumption DEF Nodes
  <2>2. FirstOpen(k)'
    BY <1>2, <2>1 DEF FirstOpen, SameStatuses
  <2>3. (Front = k /\ Mode = ModeOf(node[k].status))'
    BY <2>2, NextFrontIs
  <2> QED BY <1>2, <2>3, FrontIs DEF SameStatuses, ModeOf
<1> QED BY <1>1, <1>2, FirstOpenExists

\* The work before k + 1 is done, and k + 1 waits or there is none.
LEMMA FrontMovesOn ==
  ASSUME NEW k \in Nodes, FirstOpen(k), node'[k].status = "completed",
         \A j \in Nodes : j < k => node'[j].status = node[j].status,
         k + 1 \in Nodes => node'[k + 1].status # "completed"
  PROVE  /\ Front' = k + 1
         /\ k + 1 \in Nodes => Mode' = ModeOf(node'[k + 1].status)
         /\ k = NumNodes => Mode' = "done"
<1>1. \A j \in 1 .. k : j \in Nodes /\ (j < k \/ j = k) /\ (j < k => j \in 1 .. k - 1)
  BY ConstantsAssumption DEF Nodes
<1>2. \A j \in 1 .. k : node'[j].status = "completed"
  BY <1>1 DEF FirstOpen
<1>3. CASE k = NumNodes
  <2>1. AllDone' /\ ~ (k + 1 \in Nodes)
    BY <1>2, <1>3, ConstantsAssumption DEF AllDone, Nodes
  <2>2. (Front = NumNodes + 1 /\ Mode = "done")'
    BY <2>1, NextFrontIs
  <2> QED BY <1>3, <2>1, <2>2
<1>4. CASE k # NumNodes
  <2>1. k + 1 \in Nodes /\ (k + 1) - 1 = k
    BY <1>4, ConstantsAssumption DEF Nodes
  <2>2. FirstOpen(k + 1)'
    BY <1>2, <2>1 DEF FirstOpen
  <2>3. (Front = k + 1 /\ Mode = ModeOf(node[k + 1].status))'
    BY <2>1, <2>2, NextFrontIs
  <2> QED BY <1>4, <2>1, <2>3 DEF ModeOf
<1> QED BY <1>3, <1>4

\* Every step of the workflow is a step of the pipeline, or none.
LEMMA NextImplements ==
  ASSUME Typed, FrontOrdered, BeyondIsRejected, [Next]_vars
  PROVE  [P!Next]_<<Front, Mode>>
<1>0. \A k \in Nodes : k \in Nat /\ k <= NumNodes /\ 1 <= k
  BY ConstantsAssumption DEF Nodes
<1>1. CASE SameStatuses
  BY <1>1, FrontKeptInPlace
<1>2. ASSUME NEW k \in Nodes, Live(k), Moves(k, "pending", "in_progress") PROVE P!Next
  BY <1>2, FrontStays, LiveIsFirstOpen DEF P!Next, P!Start, ModeOf
<1>3. ASSUME NEW k \in Nodes,
             \/ Moves(k, "in_progress", "manual_intervention")
             \/ Moves(k, "in_progress", "pending")
      PROVE  P!Next
  <2>1. FirstOpen(k)
    BY <1>3, AtWorkIsLive, LiveIsFirstOpen DEF Moves
  <2> QED BY <1>3, <2>1, FrontStays DEF P!Next, P!Withdraw, ModeOf
<1>4. ASSUME NEW k \in Nodes, Moves(k, "manual_intervention", "pending") PROVE P!Next
  <2>1. FirstOpen(k)
    BY <1>4, AtWorkIsLive, LiveIsFirstOpen DEF Moves
  <2> QED BY <1>4, <2>1, FrontStays DEF P!Next, P!Resume, ModeOf
<1>5. ASSUME NEW k \in Nodes, Approved(k) PROVE P!Next
  <2>1. FirstOpen(k)
    BY <1>5, AtWorkIsLive, LiveIsFirstOpen DEF Approved
  <2>2. \A j \in Nodes : j < k => j # k /\ j # k + 1
    BY <1>0
  <2>3. /\ Front' = k + 1
        /\ k + 1 \in Nodes => Mode' = ModeOf(node'[k + 1].status)
        /\ k = NumNodes => Mode' = "done"
    BY <1>5, <2>1, <2>2, FrontMovesOn DEF Approved
  <2>4. Front = k /\ Mode = "working"
    BY <1>5, <2>1, FrontIs DEF Approved, ModeOf
  <2>5. k = NumNodes \/ k + 1 \in Nodes
    BY <1>0, ConstantsAssumption DEF Nodes
  <2>6. k # NumNodes => Mode' = "waiting"
    BY <1>5, <2>3, <2>5 DEF Approved, ModeOf
  <2> QED BY <2>3, <2>4, <2>6 DEF P!Next, P!Finish
<1>6. ASSUME NEW k \in Nodes, NEW t \in Nodes, SentBack(k, t) PROVE P!Next
  <2>1. FirstOpen(k) /\ t < k
    BY <1>6, AtWorkIsLive, LiveIsFirstOpen DEF SentBack
  <2>2. Front = k /\ Mode = "working"
    BY <1>6, <2>1, FrontIs DEF SentBack, ModeOf
  <2>3. \A j \in 1 .. t - 1 : j \in Nodes /\ j \in 1 .. k - 1 /\ j # k /\ j # t
    BY <1>0, <2>1, ConstantsAssumption DEF Nodes
  <2>4. FirstOpen(t)'
    BY <1>6, <2>1, <2>3 DEF SentBack, FirstOpen
  <2>5. (Front = t /\ Mode = ModeOf(node[t].status))'
    BY <2>4, NextFrontIs
  <2>6. t \in 1 .. k - 1
    BY <1>0, <2>1
  <2> QED BY <1>6, <2>2, <2>5, <2>6 DEF SentBack, P!Next, P!Rollback, ModeOf
<1>7. ASSUME NEW k \in Nodes, Moves(k, "manual_intervention", "completed") PROVE P!Next
  <2>1. FirstOpen(k) /\ node'[k].status = "completed"
    BY <1>7, AtWorkIsLive, LiveIsFirstOpen DEF Moves
  <2>2. Front = k /\ Mode = "parked"
    BY <1>7, <2>1, FrontIs DEF Moves, ModeOf
  <2>3. \A j \in Nodes : j # k => node'[j].status = node[j].status
    BY <1>7 DEF Moves
  <2>4. k = NumNodes \/ (k + 1 \in Nodes /\ k < NumNodes)
    BY <1>0, ConstantsAssumption DEF Nodes
  <2>5. CASE k = NumNodes
    <3>1. ~ (k + 1 \in Nodes)
      BY <2>5, ConstantsAssumption DEF Nodes
    <3>2. Front' = k + 1 /\ Mode' = "done"
      BY <1>0, <2>1, <2>3, <2>5, <3>1, FrontMovesOn
    <3> QED BY <2>2, <2>5, <3>2 DEF P!Next, P!Override
  <2>6. CASE k + 1 \in Nodes /\ node[k + 1].status # "completed"
    <3>1. k + 1 # k /\ k < NumNodes
      BY <1>0, <2>6, ConstantsAssumption DEF Nodes
    <3>2. node'[k + 1].status = node[k + 1].status
      BY <2>3, <2>6, <3>1
    <3>3. Front' = k + 1 /\ Mode' = ModeOf(node[k + 1].status)
      <4>1. \A j \in Nodes : j < k => node'[j].status = node[j].status
        BY <1>0, <2>3
      <4> QED BY <2>1, <2>6, <3>2, <4>1, FrontMovesOn
    <3>4. Mode' = "waiting" \/ Mode' = "stuck"
      <4>1. ~ Live(k + 1)
        <5>1. Live(k)
          BY <1>7, AtWorkIsLive DEF Moves
        <5> QED BY <2>6, <3>1, <5>1, OneLive
      <4> QED BY <2>6, <3>3, <4>1 DEF Live, ModeOf
    <3>5. k + 1 \in k + 1 .. NumNodes /\ k # NumNodes
      BY <1>0, <2>6, <3>1, ConstantsAssumption
    <3> QED BY <2>2, <3>3, <3>4, <3>5 DEF P!Next, P!Override
  <2>7. CASE k + 1 \in Nodes /\ node[k + 1].status = "completed"
    <3>1. k \in 1 .. (k + 1) - 1
      BY <1>0
    <3>2. EndsInRejected(k + 1)
      BY <2>1, <2>7, <3>1 DEF BeyondIsRejected, FirstOpen
    <3>3. PICK r \in Nodes : /\ k + 1 < r /\ node[r].status = "rejected"
                             /\ \A j \in k + 1 .. r - 1 : node[j].status = "completed"
      BY <3>2 DEF EndsInRejected
    <3>4. ASSUME NEW j \in 1 .. r - 1 PROVE node'[j].status = "completed"
      <4>1. j \in Nodes /\ (j \in 1 .. k - 1 \/ j = k \/ j \in k + 1 .. r - 1)
        BY <1>0, <3>3, ConstantsAssumption DEF Nodes
      <4> QED BY <2>1, <2>3, <3>3, <4>1 DEF FirstOpen
    <3>5. node'[r].status = "rejected"
      BY <1>0, <2>3, <3>3
    <3>6. FirstOpen(r)'
      BY <3>4, <3>5 DEF FirstOpen
    <3>7. (Front = r /\ Mode = ModeOf(node[r].status))'
      BY <3>6, NextFrontIs
    <3>8. Mode' = "stuck" /\ Front' = r
      BY <3>5, <3>7 DEF ModeOf
    <3>9. r \in k + 1 .. NumNodes
      BY <1>0, <3>3, ConstantsAssumption
    <3> QED BY <2>2, <3>8, <3>9 DEF P!Next, P!Override
  <2> QED BY <2>4, <2>5, <2>6, <2>7
<1> QED BY <1>1, <1>2, <1>3, <1>4, <1>5, <1>6, <1>7, StatusSteps

\* The requests, jobs and edits, however they overlap, do no more to a workflow
\* of any length than the pipeline of one place of work allows.
THEOREM Refinement == Spec => ImplementsPipeline
<1> DEFINE Inv == Typed /\ FrontOrdered /\ BeyondIsRejected
<1>1. Init => Inv
  BY InitTyped, InitFront, InitBeyond
<1>2. Inv /\ [Next]_vars => Inv'
  BY NextTyped, NextFront, NextBeyond
<1>3. Inv /\ [Next]_vars => [P!Next]_<<Front, Mode>>
  BY NextImplements
<1> HIDE DEF Inv
<1> QED BY <1>1, <1>2, <1>3, InitImplements, PTL DEF Spec, ImplementsPipeline, P!Spec, P!vars

-----------------------------------------------------------------------------
(* The board.                                                              *)

LEMMA CurrentNodeIs ==
  ASSUME NEW k, FirstOpen(k)
  PROVE  CurrentNode = k
<1>1. k \in Open /\ \A j \in Open : k <= j
  BY ConstantsAssumption DEF Open, FirstOpen, Nodes
<1>2. \A i \in Open : (\A j \in Open : i <= j) => i = k
  BY <1>1 DEF Open, Nodes
<1> QED BY <1>1, <1>2 DEF CurrentNode

\* The card of an active task is in the column of the node where the work is,
\* though the board looks for the first open node, and a card under manual
\* intervention has a node that members are told of, unless nothing is left
\* to do before a rejected node.
THEOREM BoardIsRight == Spec => []BoardTellsWork
<1>1. ASSUME FrontOrdered, task = "active", NEW k \in Nodes,
             node[k].status \in {"in_progress", "manual_intervention"}
      PROVE  GetBoardData = node[k].status
  <2>1. FirstOpen(k)
    BY <1>1, LiveIsFirstOpen DEF Live
  <2> QED BY <1>1, <2>1, CurrentNodeIs DEF GetBoardData, MapNodeStatusToColumn
<1>2. ASSUME FrontOrdered, task = "active", GetBoardData = "manual_intervention"
      PROVE  ListManualInterventionNodes # {} \/ NoWorkLeft
  <2>1. CASE AllDone
    BY <2>1 DEF AllDone, NoWorkLeft, Live
  <2>2. ASSUME NEW k \in Nodes, FirstOpen(k)
        PROVE  ListManualInterventionNodes # {} \/ NoWorkLeft
    <3>1. MapNodeStatusToColumn(node[k].status) = "manual_intervention"
      BY <1>2, <2>2, CurrentNodeIs DEF GetBoardData
    <3>2. CASE node[k].status = "manual_intervention"
      BY <3>2 DEF ListManualInterventionNodes
    <3>3. ASSUME node[k].status = "rejected", NEW m \in Nodes, Live(m) PROVE FALSE
      <4>1. FirstOpen(m)
        BY <1>2, <3>3, LiveIsFirstOpen
      <4>2. m = k
        BY <2>2, <4>1, CurrentNodeIs
      <4> QED BY <3>3, <4>2 DEF Live
    <3> QED BY <3>1, <3>2, <3>3 DEF MapNodeStatusToColumn, NoWorkLeft
  <2> QED BY <2>1, <2>2, FirstOpenExists
<1>3. FrontOrdered => BoardTellsWork
  BY <1>1, <1>2 DEF BoardTellsWork
<1> QED BY <1>3, FrontIsOrdered, PTL

-----------------------------------------------------------------------------
(* The end of the work. A live node is left by going on to the next, back  *)
(* to a target, or to a human, and what comes after is live because all    *)
(* before a live node is completed.                                        *)

\* A node that waits, or is at work, is live when all before it is completed.
LEMMA LiveAfter ==
  ASSUME NEW k \in Nodes,
         node'[k].status \in {"pending", "in_progress", "manual_intervention"},
         \A j \in Nodes : j < k => node'[j].status = "completed"
  PROVE  ~ NoWorkLeft'
<1>1. k # 1 => k - 1 \in Nodes /\ k - 1 < k
  BY ConstantsAssumption DEF Nodes
<1>2. Live(k)'
  BY <1>1 DEF Live
<1> QED BY <1>2 DEF NoWorkLeft

\* All before a live node is completed.
LEMMA BeforeLive ==
  ASSUME FrontOrdered, NEW k \in Nodes, Live(k), NEW j \in Nodes, j < k
  PROVE  node[j].status = "completed"
<1>1. j \in 1 .. k - 1
  BY ConstantsAssumption DEF Nodes
<1> QED BY <1>1 DEF FrontOrdered

\* Only the resolution of a node with complete leaves a task without work and
\* without completing it, whatever the number of requests in flight.
LEMMA NextEndsWork ==
  ASSUME Typed, FrontOrdered, [Next]_vars, NoWorkLeft'
  PROVE  \/ NoWorkLeft
         \/ task' = "completed"
         \/ \E k \in Nodes : /\ node[k].status = "manual_intervention"
                             /\ node'[k].status = "completed"
<1>1. CASE SameStatuses
  <2>1. \A k \in Nodes : k = 1 \/ k - 1 \in Nodes
    BY ConstantsAssumption DEF Nodes
  <2>2. \A k \in Nodes : Live(k)' <=> Live(k)
    BY <1>1, <2>1 DEF SameStatuses, Live
  <2> QED BY <2>2 DEF NoWorkLeft
<1>2. ASSUME NEW k \in Nodes, NEW from, NEW to, Live(k), Moves(k, from, to),
             to \in {"pending", "in_progress", "manual_intervention"}
      PROVE  FALSE
  <2>1. \A j \in Nodes : j < k => node'[j].status = "completed"
    BY <1>2, BeforeLive DEF Moves, Nodes
  <2> QED BY <1>2, <2>1, LiveAfter DEF Moves
<1>3. ASSUME NEW k \in Nodes, NEW from, NEW to, Moves(k, from, to),
             from \in {"in_progress", "manual_intervention"},
             to \in {"pending", "in_progress", "manual_intervention"}
      PROVE  FALSE
  BY <1>2, <1>3 DEF Live, Moves
<1>4. CASE \E k \in Nodes : Moves(k, "manual_intervention", "completed")
  BY <1>4 DEF Moves
<1>5. ASSUME NEW k \in Nodes, Approved(k) PROVE task' = "completed"
  <2>1. ASSUME k # NumNodes PROVE FALSE
    <3>1. k + 1 \in Nodes
      BY <2>1, ConstantsAssumption DEF Nodes
    <3>2. node'[k].status = "completed" /\ Live(k)
      BY <1>5 DEF Approved, Live
    <3>3. ASSUME NEW j \in Nodes, j < k + 1 PROVE node'[j].status = "completed"
      <4>1. CASE j = k
        BY <3>2, <4>1
      <4>2. CASE j # k
        <5>1. j < k /\ j # k + 1
          BY <3>3, <4>2 DEF Nodes
        <5> QED BY <1>5, <3>2, <4>2, <5>1, BeforeLive DEF Approved
      <4> QED BY <4>1, <4>2
    <3>4. node'[k + 1].status = "pending"
      BY <1>5, <3>1 DEF Approved
    <3> DEFINE n == k + 1
    <3> HIDE DEF n
    <3>5. n \in Nodes /\ node'[n].status = "pending"
      BY <3>1, <3>4 DEF n
    <3>6. \A j \in Nodes : j < n => node'[j].status = "completed"
      BY <3>3 DEF n
    <3> QED BY <3>5, <3>6, LiveAfter
  <2> QED BY <1>5, <2>1 DEF Approved
<1>6. ASSUME NEW k \in Nodes, NEW t \in Nodes, SentBack(k, t) PROVE FALSE
  <2>1. Live(k)
    BY <1>6 DEF SentBack, Live
  <2>2. \A j \in Nodes : j < t => node'[j].status = "completed"
    BY <1>6, <2>1, BeforeLive DEF SentBack, Nodes
  <2> QED BY <1>6, <2>2, LiveAfter DEF SentBack
<1>7. CASE \E k \in Nodes : Live(k) /\ Moves(k, "pending", "in_progress")
  BY <1>2, <1>7
<1>8. CASE \E k \in Nodes : \/ Moves(k, "in_progress", "manual_intervention")
                            \/ Moves(k, "in_progress", "pending")
                            \/ Moves(k, "manual_intervention", "pending")
  BY <1>3, <1>8
<1> QED BY <1>1, <1>4, <1>5, <1>6, <1>7, <1>8, StatusSteps

\* No rejection, hand-over, timeout, skip, interruption or cancellation leaves
\* a task with nothing to take up, however the requests overlap: approving the
\* last node does, and resolving a node with complete.
THEOREM WorkEndsAsStated == Spec => WorkEndsByResolveOnly
<1>1. Typed /\ FrontOrdered /\ [Next]_vars
      => [NoWorkLeft' => \/ NoWorkLeft
                         \/ task' = "completed"
                         \/ \E k \in Nodes : /\ node[k].status = "manual_intervention"
                                             /\ node'[k].status = "completed"]_vars
  BY NextEndsWork
<1> QED BY <1>1, InitTyped, NextTyped, InitFront, NextFront, PTL DEF Spec, WorkEndsByResolveOnly

-----------------------------------------------------------------------------
(* Reviews that are done. A review that was done by another agent may get  *)
(* the author's assignee back to front: the node under review is rejected  *)
(* and redone by the reviewer. Then the review is done again as well, or   *)
(* the work ends before a rejected node.                                   *)

\* No live node is left: the front was rejected and nobody comes back to it.
Stuck == \E r \in Nodes : FirstOpen(r) /\ node[r].status = "rejected"

SelfReviewed(k) ==
  /\ template[k].nodeType = "review"
  /\ k > 1 /\ template[k - 1].nodeType = "standard"
  /\ node[k].assignee \in Agents
  /\ node[k].assignee = node[k - 1].assignee

Begun == {"in_progress", "manual_intervention", "completed"}

ReviewsDone ==
  \A k \in Nodes :
    SelfReviewed(k) /\ node[k].status \in Begun
    => /\ node[k].status = "completed"
       /\ Stuck \/ \E j \in 1 .. k - 1 : node[j].status # "completed"

\* Unless an agent is deleted, nobody but a claim, a rollback or a new attempt
\* changes the assignee.
LEMMA AssigneeOfMoved ==
  ASSUME Typed, RowsAsRead, [Next]_vars, agents' = Agents, NEW k \in Nodes,
         node'[k].status \in {"manual_intervention", "completed"}
  PROVE  node'[k].assignee = node[k].assignee
<1>0. node[k] \in Row /\ agents = Agents
  BY AgentsShrink DEF Typed, TypeOK
<1>1. CASE node'[k].status = node[k].status
  BY <1>1, AssigneeKept
<1>2. ASSUME NEW p \in Operators, NEW op \in AtWork \cup {"resolve"}, InFlight(p, op, "read"),
             Unchanged(req[p].node, req[p].row)
      PROVE  node[req[p].node].assignee = req[p].row.assignee
  BY <1>0, <1>2, Matched DEF Unchanged, AsRead
<1>3. ASSUME NEW p \in Operators, NEW op \in AtWork, NEW by,
             by = None \/ by = req[p].row.assignee, CommitPark(p, op, by)
      PROVE  node'[k].assignee = node[k].assignee
  <2>1. /\ req[p].node \in Nodes /\ req[p].row \in Row
        /\ node[req[p].node].assignee = req[p].row.assignee
    BY <1>2, <1>3, AtWorkSnapshot DEF CommitPark, Commit
  <2>2. Parked(req[p].row, by).assignee = req[p].row.assignee
    BY <2>1 DEF Parked, Row
  <2> QED BY <1>3, <2>1, <2>2 DEF CommitPark, Typed, TypeOK
<1>4. ASSUME NEW p \in People, CommitManual(p) \/ CommitInterrupt(p)
      PROVE  node'[k].assignee = node[k].assignee
  BY <1>3, <1>4 DEF CommitManual, CommitInterrupt, AtWork, Operators
<1>5. ASSUME CommitTimedOut PROVE node'[k].assignee = node[k].assignee
  BY <1>3, <1>5 DEF CommitTimedOut, AtWork, Operators
<1>6. ASSUME NEW p \in People, CommitApprove(p) PROVE node'[k].assignee = node[k].assignee
  <2> DEFINE j == req[p].node
             row == req[p].row
  <2>1. /\ j \in Nodes /\ row \in Row /\ j # j + 1 /\ node[j].assignee = row.assignee
    <3>1. j \in Nodes /\ row \in Row /\ node[j].assignee = row.assignee
      BY <1>2, <1>6, AtWorkSnapshot DEF CommitApprove, Commit, Operators, AtWork
    <3> QED BY <3>1 DEF Nodes
  <2>2. CASE k = j
    <3>1. node'[k].assignee = row.assignee
      BY <1>6, <2>1, <2>2 DEF CommitApprove, Completed, Row
    <3> QED BY <2>1, <2>2, <3>1
  <2>3. CASE k = j + 1
    <3>1. node'[k] = Activated(j, row) /\ node[j + 1] \in Row
      BY <1>0, <1>6, <2>1, <2>3 DEF CommitApprove
    <3>2. Activated(j, row).assignee = node[j + 1].assignee
      BY <3>1 DEF Activated, Row
    <3> QED BY <2>3, <3>1, <3>2
  <2>4. CASE k # j /\ k # j + 1
    BY <1>6, <2>4 DEF CommitApprove
  <2> QED BY <2>2, <2>3, <2>4
<1>7. ASSUME NEW p \in People, CommitReject(p) PROVE node'[k].assignee = node[k].assignee
  <2> DEFINE j == req[p].node
             t == req[p].target
             row == req[p].row
  <2>1. j \in Nodes /\ t \in Nodes /\ t # j /\ row \in Row
    <3>1. j \in Nodes /\ t \in Nodes /\ t < j /\ row \in Row
      BY <1>7, AtWorkSnapshot DEF CommitReject, Commit, Operators, AtWork
    <3> QED BY <3>1 DEF Nodes
  <2>2. /\ node'[j] = Rejected(row) /\ node'[t] = RolledBack(t)
        /\ \A i \in Nodes : i # j /\ i # t => node'[i] = node[i]
    BY <1>7, <2>1 DEF CommitReject, Typed, TypeOK
  <2>3. Rejected(row).status = "rejected"
    BY <2>1 DEF Rejected, Row
  <2>4. CASE k = t
    <3>1. \/ RolledBack(k).status = "pending"
          \/ RolledBack(k).assignee = node[k].assignee
      BY <1>0 DEF RolledBack, Row
    <3> QED BY <2>2, <2>4, <3>1
  <2> QED BY <2>1, <2>2, <2>3, <2>4
<1>8. ASSUME NEW p \in People, CommitResolveComplete(p)
      PROVE  node'[k].assignee = node[k].assignee
  <2>1. /\ req[p].node \in Nodes /\ req[p].row \in Row
        /\ node[req[p].node].assignee = req[p].row.assignee
    BY <1>2, <1>8, Matched DEF CommitResolveComplete, Commit, Operators
  <2>2. Completed(req[p].row, p).assignee = req[p].row.assignee
    BY <2>1 DEF Completed, Row
  <2> QED BY <1>8, <2>1, <2>2 DEF CommitResolveComplete, Typed, TypeOK
<1>9. ASSUME NEW p \in People, NEW agent \in Agents \cup {None}, CommitReExecute(p, agent)
      PROVE  node'[k] = node[k]
  <2>1. req[p].node \in Nodes /\ req[p].row \in Row
    BY <1>9, Matched DEF CommitReExecute, Commit, Operators
  <2>2. ReExecuted(req[p].row, agent).status = "pending"
    BY <2>1 DEF ReExecuted, Row
  <2> QED BY <1>9, <2>1, <2>2 DEF CommitReExecute, Typed, TypeOK
<1>10. ASSUME NEW p \in People, CommitClaim(p) PROVE node'[k] = node[k]
  <2>1. req[p].node \in Nodes /\ node[req[p].node] \in Row
    BY <1>10 DEF CommitClaim, Commit, InFlight, Typed, TypeOK, Operators, Request
  <2>2. k # req[p].node
    BY <1>10, <2>1 DEF CommitClaim, AgentClaimed, HumanClaimed, Typed, TypeOK, Row
  <2> QED BY <1>10, <2>1, <2>2 DEF CommitClaim, Typed, TypeOK
<1>11. ASSUME NEW p \in People, CommitSkip(p) PROVE node'[k].status = node[k].status
  BY <1>11, PersonMoves DEF SameStatuses
<1>12. ASSUME StatusKeeper PROVE node'[k].status = node[k].status
  BY <1>12, StatusKept
<1>13. ASSUME NodesReleased PROVE node'[k] = node[k]
  BY <1>0, <1>13 DEF NodesReleased, Row
<1>14. ASSUME NEW j \in Nodes, TakenFromAgent(j) PROVE node'[k].assignee = node[k].assignee
  BY <1>0, <1>14 DEF TakenFromAgent, Typed, TypeOK, Row
<1> QED BY <1>1, <1>4, <1>5, <1>6, <1>7, <1>8, <1>9, <1>10, <1>11, <1>12, <1>13, <1>14,
           QuietStepKeepsNodes, StepCases
        DEF DeleteTask, CancelTaskNodes

\* Once stuck, always stuck.
LEMMA StuckStays ==
  ASSUME Typed, FrontOrdered, Stuck, [Next]_vars
  PROVE  SameStatuses /\ Stuck' /\ \A k \in Nodes : ~ Live(k)
<1>1. PICK r \in Nodes : FirstOpen(r) /\ node[r].status = "rejected"
  BY DEF Stuck
<1>2. ASSUME NEW k \in Nodes, Live(k) PROVE FALSE
  <2>1. FirstOpen(k)
    BY <1>2, LiveIsFirstOpen
  <2>2. k = r
    BY <1>1, <2>1, CurrentNodeIs
  <2> QED BY <1>1, <1>2, <2>2 DEF Live
<1>3. SameStatuses
  BY <1>2, StatusSteps, AtWorkIsLive DEF Moves, Approved, SentBack
<1>4. \A j \in 1 .. r - 1 : j \in Nodes
  BY ConstantsAssumption DEF Nodes
<1>5. FirstOpen(r)'
  BY <1>1, <1>3, <1>4 DEF SameStatuses, FirstOpen
<1> QED BY <1>1, <1>2, <1>3, <1>5 DEF SameStatuses, Stuck

\* An assignee that comes to equal the author's is that of a review to be done
\* again, or of a workflow that has stopped.
LEMMA NextReviewsDone ==
  ASSUME Typed, RowsAsRead, FrontOrdered, BeyondIsRejected, ReviewsDone, [Next]_vars,
         ReviewedByAnother', agents' = Agents
  PROVE  ReviewsDone'
<1> SUFFICES ASSUME NEW k \in Nodes, SelfReviewed(k)', node'[k].status \in Begun
             PROVE  /\ node'[k].status = "completed"
                    /\ Stuck' \/ \E j \in 1 .. k - 1 : node'[j].status # "completed"
  BY DEF ReviewsDone
<1> DEFINE Done(i)  == node[i].status = "completed"
           DoneN(i) == node'[i].status = "completed"
<1>0. /\ k \in Nat /\ k - 1 \in 1 .. k - 1 /\ (k - 1) + 1 = k
      /\ \A j \in 1 .. k - 1 : j \in Nodes /\ j < k /\ j # k /\ j # k + 1
      /\ \A j \in Nodes : j < k => j \in 1 .. k - 1
  BY ConstantsAssumption DEF SelfReviewed, Nodes
<1>1. /\ template' = template /\ template[k].nodeType = "review"
      /\ k > 1 /\ template[k - 1].nodeType = "standard"
      /\ node'[k].assignee \in Agents
      /\ node'[k].assignee = node'[k - 1].assignee
  BY TemplateFixed DEF SelfReviewed
<1>2. node'[k].status # "in_progress"
  <2>1. SUFFICES ASSUME node'[k].status = "in_progress" PROVE FALSE
    OBVIOUS
  <2>2. \A i \in (k - 1) + 1 .. k - 1 : FALSE
    BY <1>0
  <2>3. PICK a \in Agents : a = node'[k].assignee /\ a = node'[k - 1].assignee
    BY <1>1
  <2>4. WroteLastStandard(a, k)'
    BY <1>0, <1>1, <2>2, <2>3 DEF WroteLastStandard
  <2> QED BY <1>1, <2>1, <2>3, <2>4 DEF ReviewedByAnother
<1>3. ASSUME ~ Stuck, node[k].status \in Begun,
             \A j \in 1 .. k - 1 : Done(j) /\ DoneN(j)
      PROVE  FALSE
  <2>1. node'[k].assignee = node[k].assignee
    BY <1>2, AssigneeOfMoved DEF Begun
  <2>2. k - 1 \in Nodes /\ Done(k - 1) /\ DoneN(k - 1)
    BY <1>0, <1>3
  <2>3. node'[k - 1].assignee = node[k - 1].assignee
    BY <2>2, AssigneeKept
  <2>4. SelfReviewed(k)
    BY <1>1, <2>1, <2>3 DEF SelfReviewed
  <2> QED BY <1>3, <2>4 DEF ReviewsDone
<1>4. CASE Stuck
  <2>1. SameStatuses /\ Stuck' /\ ~ Live(k)
    BY <1>4, StuckStays
  <2> QED BY <2>1 DEF SameStatuses, Live, Begun
<1>5. ASSUME ~ Stuck, \A i \in Nodes : DoneN(i) = Done(i), node[k].status \in Begun
      PROVE  DoneN(k) /\ \E j \in 1 .. k - 1 : ~ DoneN(j)
  <2>1. \E j \in 1 .. k - 1 : ~ DoneN(j)
    BY <1>0, <1>3, <1>5
  <2>2. ~ Live(k)'
    BY <2>1, NextFront DEF FrontOrdered
  <2> QED BY <2>1, <2>2 DEF Live, Begun
<1>6. ASSUME ~ Stuck, NEW j \in Nodes, Moves(j, "manual_intervention", "completed") \/ Approved(j)
      PROVE  DoneN(k) /\ (Stuck' \/ \E i \in 1 .. k - 1 : ~ DoneN(i))
  <2>1. FirstOpen(j) /\ Live(j) /\ node[j].status \in Begun
    BY <1>6, AtWorkIsLive, LiveIsFirstOpen DEF Moves, Approved, Begun
  <2>2. \A i \in Nodes : i < j => DoneN(i) = Done(i)
    <3>1. \A i \in Nodes : i < j => i # j /\ i # j + 1
      BY DEF Nodes
    <3> QED BY <1>6, <3>1 DEF Moves, Approved
  <2>3. k # j
    BY <1>0, <1>3, <1>6, <2>1, <2>2 DEF FirstOpen
  <2>4. node'[k].status = node[k].status
    BY <1>6, <2>3 DEF Moves, Approved, Begun
  <2>5. DoneN(k) /\ Done(k)
    <3>1. ~ Live(k)
      BY <2>1, <2>3, OneLive
    <3> QED BY <2>4, <3>1 DEF Live, Begun
  <2>6. ASSUME \A i \in 1 .. k - 1 : DoneN(i) PROVE Stuck'
    <3>1. j < k
      <4>1. SUFFICES ASSUME k < j PROVE FALSE
        BY <2>3 DEF Nodes
      <4>2. \A i \in 1 .. k - 1 : i < j
        BY <1>0, <4>1 DEF Nodes
      <4> QED BY <1>0, <1>3, <1>6, <2>2, <2>5, <2>6, <4>2 DEF Begun
    <3>2. ~ Approved(j)
      <4>1. SUFFICES ASSUME Approved(j) PROVE FALSE
        OBVIOUS
      <4>2. j + 1 \in Nodes /\ (j + 1 = k \/ j + 1 \in 1 .. k - 1)
        BY <3>1, ConstantsAssumption DEF Nodes
      <4> QED BY <2>5, <2>6, <4>1, <4>2 DEF Approved
    <3>3. EndsInRejected(k)
      BY <1>0, <2>1, <2>5, <3>1 DEF BeyondIsRejected, FirstOpen
    <3>4. PICK r \in Nodes : /\ k < r /\ node[r].status = "rejected"
                             /\ \A i \in k .. r - 1 : Done(i)
      BY <3>3 DEF EndsInRejected
    <3>5. /\ r # j
          /\ \A i \in 1 .. r - 1 : i \in Nodes /\ (i \in 1 .. k - 1 \/ (i \in k .. r - 1 /\ i # j))
      BY <1>0, <3>1, <3>4, ConstantsAssumption DEF Nodes
    <3>6. node'[r].status = "rejected" /\ \A i \in 1 .. r - 1 : DoneN(i)
      BY <1>6, <2>6, <3>2, <3>4, <3>5 DEF Moves
    <3>7. FirstOpen(r)' /\ node'[r].status = "rejected"
      BY <3>6 DEF FirstOpen
    <3> QED BY <3>7 DEF Stuck
  <2> QED BY <2>5, <2>6
<1>7. ASSUME ~ Stuck, NEW j \in Nodes, NEW t \in Nodes, SentBack(j, t)
      PROVE  DoneN(k) /\ \E i \in 1 .. k - 1 : ~ DoneN(i)
  <2>1. FirstOpen(j) /\ Live(j) /\ t < j /\ k # j
    BY <1>7, AtWorkIsLive, LiveIsFirstOpen DEF SentBack, Begun
  <2>2. \A i \in Nodes : i < t => Done(i) /\ DoneN(i)
    <3>1. \A i \in Nodes : i < t => i \in 1 .. j - 1 /\ i # j /\ i # t
      BY <2>1 DEF Nodes
    <3> QED BY <1>7, <2>1, <3>1 DEF SentBack, FirstOpen
  <2>3. k # t
    <3>1. SUFFICES ASSUME k = t PROVE FALSE
      OBVIOUS
    <3>2. t \in 1 .. j - 1
      BY <2>1 DEF Nodes
    <3>3. node[k].status \in Begun
      BY <2>1, <3>1, <3>2 DEF FirstOpen, Begun
    <3> QED BY <1>0, <1>3, <1>7, <2>2, <3>1, <3>3
  <2>4. node'[k].status = node[k].status
    BY <1>7, <2>1, <2>3 DEF SentBack
  <2>5. DoneN(k) /\ Done(k)
    <3>1. ~ Live(k)
      BY <2>1, OneLive
    <3> QED BY <2>4, <3>1 DEF Live, Begun
  <2>6. t < k
    <3>1. SUFFICES ASSUME k < t PROVE FALSE
      BY <2>3 DEF Nodes
    <3>2. \A i \in 1 .. k - 1 : i < t
      BY <1>0, <3>1 DEF Nodes
    <3> QED BY <1>0, <1>3, <1>7, <2>2, <2>5, <3>2 DEF Begun
  <2> QED BY <1>0, <1>7, <2>5, <2>6 DEF SentBack
<1>8. ASSUME ~ Stuck, SameStatuses
      PROVE  DoneN(k) /\ \E j \in 1 .. k - 1 : ~ DoneN(j)
  BY <1>5, <1>8 DEF SameStatuses
<1>9. ASSUME ~ Stuck, NEW j \in Nodes, Live(j), Moves(j, "pending", "in_progress")
      PROVE  DoneN(k) /\ \E i \in 1 .. k - 1 : ~ DoneN(i)
  BY <1>2, <1>5, <1>9 DEF Moves
<1>10. ASSUME ~ Stuck, NEW j \in Nodes,
              \/ Moves(j, "in_progress", "manual_intervention")
              \/ Moves(j, "in_progress", "pending")
              \/ Moves(j, "manual_intervention", "pending")
       PROVE  DoneN(k) /\ \E i \in 1 .. k - 1 : ~ DoneN(i)
  BY <1>5, <1>10 DEF Moves, Begun
<1> HIDE DEF Done, DoneN
<1>11. CASE ~ Stuck
  <2>1. DoneN(k) /\ (Stuck' \/ \E j \in 1 .. k - 1 : ~ DoneN(j))
    BY <1>6, <1>7, <1>8, <1>9, <1>10, <1>11, StatusSteps
  <2> QED BY <2>1 DEF DoneN
<1> QED BY <1>4, <1>11

\* No review is begun at first, unless it is the first node.
LEMMA InitReviewsDone == Init => ReviewsDone
<1> SUFFICES ASSUME Init, NEW k \in Nodes, SelfReviewed(k), node[k].status \in Begun
             PROVE  FALSE
  BY DEF ReviewsDone
<1>1. k = 1
  BY DEF Init, NewRow, Begun
<1> QED BY <1>1 DEF SelfReviewed

\* Unless an edit closed the task or an agent was deleted, the check for
\* self-reviews that members see finds none in a completed task that the check
\* of Claim is to prevent, though it looks at other rows, and later: a review
\* whose author has changed since is done again, or the task is not completed.
THEOREM DoneWorkIsReviewed ==
  ASSUME "completed" \notin EditStatuses
  PROVE  Spec => [](agents = Agents => DoneWorkWasReviewed)
<1> DEFINE Inv == /\ Typed /\ RowsAsRead /\ FrontOrdered /\ BeyondIsRejected
                  /\ agents = Agents => ClaimsChecked /\ ReviewedByAnother /\ ReviewsDone
<1>1. Init => Inv
  BY InitTyped, InitAsRead, InitFront, InitBeyond, InitReviewed, InitReviewsDone
<1>2. Inv /\ [Next]_vars => Inv'
  <2> SUFFICES ASSUME Inv, [Next]_vars PROVE Inv'
    OBVIOUS
  <2>1. agents' = Agents => agents = Agents
    BY AgentsShrink DEF Typed, TypeOK
  <2>2. ASSUME agents' = Agents PROVE (ClaimsChecked /\ ReviewedByAnother /\ ReviewsDone)'
    <3>1. ClaimsChecked' /\ ReviewedByAnother'
      BY <2>1, <2>2, NextClaimsChecked, NextReviewed
    <3> QED BY <2>1, <2>2, <3>1, NextReviewsDone
  <2> QED BY <2>2, NextTyped, NextAsRead, NextFront, NextBeyond
<1>3. Inv /\ CompletedTaskIsDone => (agents = Agents => DoneWorkWasReviewed)
  <2> SUFFICES ASSUME Inv, CompletedTaskIsDone, agents = Agents, task = "completed",
                      NEW k \in Nodes, CheckSelfReview(k), node[k].assignee \in Agents,
                      template[k - 1].nodeType = "standard"
               PROVE  FALSE
    BY DEF DoneWorkWasReviewed, GetReviewNodeReviewer
  <2>1. \A j \in Nodes : node[j].status = "completed"
    BY DEF CompletedTaskIsDone
  <2>2. SelfReviewed(k)
    BY DEF SelfReviewed, CheckSelfReview, GetReviewNodeReviewer, GetReviewNodeAuthor
  <2>3. ~ Stuck /\ \A j \in 1 .. k - 1 : j \in Nodes
    BY <2>1, ConstantsAssumption DEF Stuck, FirstOpen, Nodes
  <2> QED BY <2>1, <2>2, <2>3 DEF ReviewsDone, Begun
<1> HIDE DEF Inv
<1> QED BY <1>1, <1>2, <1>3, CompletionIsFinal, PTL DEF Spec
=============================================================================
