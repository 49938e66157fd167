---------------------------- MODULE NodeWorkflow ----------------------------
(***************************************************************************)
(* The nodes of one task: the state machine of service/node.go and         *)
(* store/node.go over the task_nodes table, with the task status, the      *)
(* background jobs that move nodes, and the requests in flight.            *)
(*                                                                         *)
(* A request reads rows without a lock, checks them, and only then writes. *)
(* Its write names the version it read (optimistic lock). So every         *)
(* operation has a read step and a commit step, and any step of another    *)
(* request may fall between the two. ClaimNode and CompleteNode read twice: *)
(* once in the handler, once more in the service.                          *)
(*                                                                         *)
(* A transaction, or one SQL statement, is one step. Node k is the k-th    *)
(* row of the task in sort_order.                                          *)
(***************************************************************************)
EXTENDS Integers, FiniteSets

CONSTANTS
  Agents, Members,   \* who may send requests: agents, human members
  Scheduler,         \* the periodic jobs, as one more sender
  None,              \* SQL NULL, and "no request in flight"
  NumNodes,          \* length of the workflow
  Templates,         \* the workflow templates a task may be created from
  EditStatuses,      \* the statuses an edit of the task may carry
  MaxVersion,        \* bound: no write once some row has reached it
  MaxInFlight,       \* bound: requests in flight at the same time
  MaxDeletions       \* bound: agents deleted

Nodes     == 1 .. NumNodes
People    == Agents \cup Members
Operators == People \cup {Scheduler}

NodeStatus   == {"pending", "in_progress", "completed", "rejected",
                 "manual_intervention"}
AssigneeType == {"any_agent", "specific_agent", "human", "auto"}
TaskStatus   == {"active", "completed", "cancelled"}

\* What CreateTask copies from a template node.
TemplateNode == [nodeType     : {"standard", "review", "manual"},
                 assigneeType : AssigneeType,
                 assignee     : People \cup {None},
                 maxRejects   : Nat,
                 dependsOn    : SUBSET Nodes]

\* One row of task_nodes. reservation_expires_at is kept as what it is
\* compared with: NULL ("never"), still to come ("future") or over ("past").
Row == [status       : NodeStatus,
        assigneeType : AssigneeType,
        assignee     : People \cup {None},
        reserved     : People \cup {None},
        expires      : {"never", "future", "past"},
        rejects      : Nat,
        completedBy  : People \cup {None},
        version      : Nat]

\* What a request in flight holds in local variables: the row it read,
\* and for a rejection the node to roll back to.
Request == [op     : {"claim", "complete", "approve", "reject", "manual",
                      "interrupt", "timeout", "resolve", "skip", "edit",
                      "cancel"},
            stage  : {"checked", "read", "written"},
            node   : Nodes,
            row    : Row \cup {None},
            target : Nodes]

ASSUME ConstantsAssumption ==
  /\ NumNodes \in Nat \ {0}
  /\ Templates \subseteq [Nodes -> TemplateNode]
  /\ EditStatuses \subseteq TaskStatus
  /\ MaxVersion \in Nat
  /\ MaxInFlight \in Nat
  /\ MaxDeletions \in Nat
  /\ Agents \cap Members = {}
  /\ Scheduler \notin People
  /\ None \notin Operators
  /\ None \notin Request
  /\ None \notin Row

VARIABLES
  task,      \* tasks.status
  template,  \* the template the task was created from; never changes
  agents,    \* the agents that exist
  node,      \* the rows of task_nodes
  req        \* per operator, the request it has in flight

vars == <<task, template, agents, node, req>>

-----------------------------------------------------------------------------
(* Creation of the task: the first node starts by itself.                  *)

FirstStatus(t) ==
  CASE t.assigneeType = "specific_agent" /\ t.assignee # None -> "in_progress"
    [] t.assigneeType = "human" -> "completed"
    [] t.assigneeType = "auto"  -> "in_progress"
    [] OTHER -> "pending"

NewRow(k, t) ==
  [status       |-> IF k = 1 THEN FirstStatus(t) ELSE "pending",
   assigneeType |-> t.assigneeType,
   assignee     |-> t.assignee,
   reserved     |-> t.assignee,
   expires      |-> "never",
   rejects      |-> 0,
   completedBy  |-> None,
   version      |-> 1]

Init ==
  /\ task = "active"
  /\ template \in Templates
  /\ agents = Agents
  /\ node = [k \in Nodes |-> NewRow(k, template[k])]
  /\ req = [p \in Operators |-> None]

-----------------------------------------------------------------------------
(* What the operations ask of the rows.                                    *)

PredecessorDone(k)  == \A j \in Nodes : j + 1 = k => node[j].status = "completed"
DependenciesDone(k) == \A d \in template[k].dependsOn : node[d].status = "completed"

\* GetPrevStandardNodeAssignee of node k is a.
WroteLastStandard(a, k) ==
  \E j \in 1 .. k - 1 :
     /\ template[j].nodeType = "standard"
     /\ node[j].assignee = a
     /\ \A i \in j + 1 .. k - 1 :
          template[i].nodeType = "standard" => node[i].assignee = None

\* mutant: the author check is left out
SelfReviewUnchecked(a, k) == FALSE

SelfReview(a, k) == template[k].nodeType = "review" /\ WroteLastStandard(a, k)

\* The continuation right of another agent, while it lasts.
HeldForOther(a, k) == node[k].reserved \notin {None, a} /\ node[k].expires = "future"

\* mutant: the update is keyed by the id alone
UnchangedById(k, row) == TRUE

\* An update keyed by the version and the status that were read.
Unchanged(k, row) == node[k].version = row.version /\ node[k].status = row.status

MaxCycles(k) == IF template[k].maxRejects > 0 THEN template[k].maxRejects ELSE 5

-----------------------------------------------------------------------------
(* Requests in flight.                                                     *)

Start(p, op, stage, k, row, target) ==
  /\ req[p] = None
  /\ p \in Agents => p \in agents
  /\ Cardinality({q \in Operators : req[q] # None}) < MaxInFlight
  /\ req' = [req EXCEPT ![p] = [op |-> op, stage |-> stage, node |-> k,
                                row |-> row, target |-> target]]
  /\ UNCHANGED <<task, template, agents, node>>

\* The service's own read, after the handler's check.
Reread(p) ==
  /\ req' = [req EXCEPT ![p].stage = "read", ![p].row = node[req[p].node]]
  /\ UNCHANGED <<task, template, agents, node>>

InFlight(p, op, stage) == req[p] # None /\ req[p].op = op /\ req[p].stage = stage

Finish(p) == req' = [req EXCEPT ![p] = None]

\* The bound on versions.
Room == \A k \in Nodes : node[k].version < MaxVersion

\* The write that ends request op of p.
Commit(p, op) == InFlight(p, op, "read") /\ Room /\ Finish(p)

\* The request ends without a further write: an early return, an update that
\* matched no row, a rolled-back transaction, a crash of the server.
Abandon(p) ==
  /\ req[p] # None
  /\ Finish(p)
  /\ UNCHANGED <<task, template, agents, node>>

-----------------------------------------------------------------------------
(* Claim.                                                                  *)

CheckClaim(p, k) ==
  /\ p \in People
  /\ (p \in Members) <=> (node[k].assigneeType = "human")
  /\ Start(p, "claim", "checked", k, None, k)

\* A node in progress is returned as it is to its own agent; for any other
\* agent ReclaimTaskNode compares reserved_for_agent_id with NULL and matches
\* no row. Both end the request (Abandon).
ReadClaim(p) ==
  /\ InFlight(p, "claim", "checked")
  /\ task = "active"
  /\ LET k == req[p].node IN
       /\ PredecessorDone(k)
       /\ DependenciesDone(k)
       /\ p \in Agents => /\ p \in agents
                          /\ ~ SelfReview(p, k)
                          /\ ~ HeldForOther(p, k)
                          /\ node[k].status # "in_progress"
  /\ Reread(p)

\* mutant: the claim is keyed by the id alone
ClaimMatchesById(p, k, row) == PredecessorDone(k) /\ DependenciesDone(k)

\* mutant: the reservation is left to the check made by the read
ClaimMatchesUnreserved(p, k, row) ==
  /\ node[k].status = "pending"
  /\ node[k].version = row.version
  /\ p \in Members => node[k].assigneeType = "human"
  /\ PredecessorDone(k)
  /\ DependenciesDone(k)

ClaimMatches(p, k, row) ==
  /\ node[k].status = "pending"
  /\ node[k].version = row.version
  /\ IF p \in Agents THEN node[k].reserved \in {None, p}
                     ELSE node[k].assigneeType = "human"
  /\ PredecessorDone(k)
  /\ DependenciesDone(k)

AgentClaimed(p, r) ==
  [r EXCEPT !.status = "in_progress", !.assigneeType = "specific_agent",
            !.assignee = p, !.reserved = p, !.version = @ + 1]

HumanClaimed(p, r) ==
  [r EXCEPT !.status = "in_progress", !.assigneeType = "human",
            !.assignee = p, !.version = @ + 1]

CommitClaim(p) ==
  /\ Commit(p, "claim")
  /\ LET k == req[p].node IN
       /\ ClaimMatches(p, k, req[p].row)
       /\ node' = [node EXCEPT ![k] = IF p \in Agents THEN AgentClaimed(p, @)
                                                      ELSE HumanClaimed(p, @)]
  /\ UNCHANGED <<task, template, agents>>

-----------------------------------------------------------------------------
(* Completion and approval.                                                *)

CheckComplete(p, k) ==
  /\ p \in Agents
  /\ node[k].assignee = p
  /\ node[k].status = "in_progress"
  /\ template[k].nodeType = "standard"
  /\ Start(p, "complete", "checked", k, None, k)

ReadComplete(p) ==
  /\ InFlight(p, "complete", "checked")
  /\ node[req[p].node].status = "in_progress"
  /\ Reread(p)

ReadApprove(p, k) ==
  /\ p \in People
  /\ node[k].status = "in_progress"
  /\ Start(p, "approve", "read", k, node[k], k)

\* The continuation right goes to whoever did node k, except from a standard
\* node to the review that follows it.
PassesRight(k, row) ==
  /\ row.assignee # None
  /\ ~ (template[k].nodeType = "standard" /\ template[k + 1].nodeType = "review")

Completed(row, by) ==
  [row EXCEPT !.status = "completed", !.expires = "never", !.completedBy = by,
              !.version = @ + 1]

\* mutant: the continuation right is given without a time limit
ActivatedForEver(k, row) ==
  [node[k + 1] EXCEPT !.status = "pending", !.expires = "never",
                      !.completedBy = None, !.version = @ + 1,
                      !.reserved = IF PassesRight(k, row) THEN row.assignee ELSE @]

\* mutant: a next node that was completed before a rollback stays so
ActivatedOnce(k, row) ==
  IF node[k + 1].status = "completed" THEN node[k + 1] ELSE ActivatedForEver(k, row)

Activated(k, row) ==
  LET next  == node[k + 1]
      right == IF PassesRight(k, row) THEN row.assignee ELSE next.reserved
  IN  IF next.status # "in_progress"
        THEN [next EXCEPT !.status      = "pending",
                          !.reserved    = right,
                          !.expires     = IF right # None THEN "future" ELSE "never",
                          !.completedBy = None,
                          !.version     = @ + 1]
      ELSE IF PassesRight(k, row)
        THEN [next EXCEPT !.reserved = right, !.expires = "future",
                          !.completedBy = None, !.version = @ + 1]
      ELSE next

CommitApprove(p) ==
  /\ Commit(p, "complete") \/ Commit(p, "approve")
  /\ LET k   == req[p].node
         row == req[p].row
         by  == IF p \in Agents THEN p ELSE None
     IN  /\ Unchanged(k, row)
         /\ k = NumNodes => \A j \in Nodes \ {k} : node[j].status = "completed"
         /\ node' = [j \in Nodes |-> CASE j = k     -> Completed(row, by)
                                       [] j = k + 1 -> Activated(k, row)
                                       [] OTHER     -> node[j]]
         /\ task' = IF k = NumNodes THEN "completed" ELSE task
  /\ UNCHANGED <<template, agents>>

-----------------------------------------------------------------------------
(* Rejection: node k is rejected, the target is to be done again.          *)

ReadReject(p, k, target) ==
  /\ p \in People
  /\ node[k].status = "in_progress"
  /\ target < k
  /\ template[target].nodeType # "manual"
  /\ node[target].assigneeType # "human"
  /\ Start(p, "reject", "read", k, node[k], target)

\* mutant: the rejecting node stays in progress
RejectedStillRunning(row) == [row EXCEPT !.rejects = @ + 1, !.version = @ + 1]

Rejected(row) ==
  [row EXCEPT !.status = "rejected", !.rejects = @ + 1, !.expires = "never",
              !.completedBy = None, !.version = @ + 1]

\* mutant: one rollback too many
RolledBackOnceMore(t) ==
  LET r == [node[t] EXCEPT !.rejects = @ + 1, !.version = @ + 2,
                           !.expires = "never", !.completedBy = None]
  IN  IF r.rejects > MaxCycles(t)
        THEN [r EXCEPT !.status = "manual_intervention",
                       !.assigneeType = "human", !.reserved = None]
        ELSE [r EXCEPT !.status = "pending", !.assigneeType = "any_agent",
                       !.assignee = None, !.reserved = node[t].assignee]

RolledBack(t) ==
  LET r == [node[t] EXCEPT !.rejects = @ + 1, !.version = @ + 2,
                           !.expires = "never", !.completedBy = None]
  IN  IF r.rejects >= MaxCycles(t)
        THEN [r EXCEPT !.status = "manual_intervention",
                       !.assigneeType = "human", !.reserved = None]
        ELSE [r EXCEPT !.status = "pending", !.assigneeType = "any_agent",
                       !.assignee = None, !.reserved = node[t].assignee]

CommitReject(p) ==
  /\ Commit(p, "reject")
  /\ LET k == req[p].node
         t == req[p].target
     IN  /\ Unchanged(k, req[p].row)
         /\ node' = [node EXCEPT ![k] = Rejected(req[p].row), ![t] = RolledBack(t)]
  /\ UNCHANGED <<task, template, agents>>

-----------------------------------------------------------------------------
(* Hand-over to a human. ManualIntervention, InterruptTask and the timeout *)
(* job read the node in progress and then move the row they read.          *)

Parked(row, by) ==
  [row EXCEPT !.status = "manual_intervention", !.assigneeType = "human",
              !.reserved = None, !.expires = "never", !.completedBy = by,
              !.version = @ + 1]

ReadManual(p, k) ==
  /\ p \in People
  /\ node[k].status = "in_progress"
  /\ Start(p, "manual", "read", k, node[k], k)

\* InterruptTask moves every node in progress; FrontOrdered says it is one.
ReadInterrupt(p, k) ==
  /\ p \in People
  /\ node[k].status = "in_progress"
  /\ Start(p, "interrupt", "read", k, node[k], k)

\* GetTimedOutNodes lists the rows; whether the time is up is left open.
ReadTimedOut(k) ==
  /\ node[k].status = "in_progress"
  /\ template[k].nodeType # "manual"
  /\ node[k].assigneeType # "human"
  /\ Start(Scheduler, "timeout", "read", k, node[k], k)

CommitPark(p, op, by) ==
  /\ Commit(p, op)
  /\ LET k == req[p].node IN
       /\ Unchanged(k, req[p].row)
       /\ node' = [node EXCEPT ![k] = Parked(req[p].row, by)]
  /\ UNCHANGED <<task, template, agents>>

CommitManual(p)    == CommitPark(p, "manual", req[p].row.assignee)
CommitInterrupt(p) == CommitPark(p, "interrupt", None)
CommitTimedOut     == CommitPark(Scheduler, "timeout", None)

-----------------------------------------------------------------------------
(* A member resolves a node in manual intervention.                        *)

ReadResolve(p, k) ==
  /\ p \in Members
  /\ node[k].status = "manual_intervention"
  /\ Start(p, "resolve", "read", k, node[k], k)

\* Only the node itself: neither the next node nor the task is touched.
CommitResolveComplete(p) ==
  /\ Commit(p, "resolve")
  /\ LET k == req[p].node IN
       /\ Unchanged(k, req[p].row)
       /\ node' = [node EXCEPT ![k] = Completed(req[p].row, p)]
  /\ UNCHANGED <<task, template, agents>>

\* mutant: the reject count is stepped back instead of reset
ReExecutedStepBack(row, agent) ==
  [row EXCEPT !.status = "pending", !.assigneeType = "any_agent",
              !.assignee = IF agent # None THEN agent ELSE @,
              !.completedBy = IF agent # None THEN agent ELSE row.assignee,
              !.reserved = None, !.expires = "never", !.rejects = @ - 1,
              !.version = @ + 1]

ReExecuted(row, agent) ==
  [row EXCEPT !.status = "pending", !.assigneeType = "any_agent",
              !.assignee = IF agent # None THEN agent ELSE @,
              !.completedBy = IF agent # None THEN agent ELSE row.assignee,
              !.reserved = None, !.expires = "never", !.rejects = 0,
              !.version = @ + 1]

CommitReExecute(p, agent) ==
  /\ Commit(p, "resolve")
  /\ LET k == req[p].node IN
       /\ Unchanged(k, req[p].row)
       /\ node' = [node EXCEPT ![k] = ReExecuted(req[p].row, agent)]
  /\ UNCHANGED <<task, template, agents>>

-----------------------------------------------------------------------------
(* The holder of a continuation right gives it up.                         *)

ReadSkip(p, k) ==
  /\ p \in Agents
  /\ node[k].reserved = p
  /\ Start(p, "skip", "read", k, node[k], k)

CommitSkip(p) ==
  /\ Commit(p, "skip")
  /\ LET k == req[p].node IN
       /\ Unchanged(k, req[p].row)
       /\ node' = [node EXCEPT ![k] = [req[p].row EXCEPT
            !.reserved = None, !.expires = "never",
            !.completedBy = req[p].row.assignee, !.version = @ + 1]]
  /\ UNCHANGED <<task, template, agents>>

-----------------------------------------------------------------------------
(* Background jobs that are one statement, and the passing of time.        *)

Elapse(k) ==
  /\ node[k].expires = "future"
  /\ node' = [node EXCEPT ![k].expires = "past"]
  /\ UNCHANGED <<task, template, agents, req>>

\* The version is not incremented.
ClearExpiredReservations ==
  LET expired == {k \in Nodes : /\ node[k].status = "pending"
                                /\ node[k].reserved # None
                                /\ node[k].expires = "past"}
  IN  /\ expired # {}
      /\ node' = [k \in Nodes |->
                    IF k \in expired
                      THEN [node[k] EXCEPT !.reserved = None, !.expires = "never"]
                      ELSE node[k]]
      /\ UNCHANGED <<task, template, agents, req>>

\* Reservation and assignee stay on the row.
TakenFromAgent(k) ==
  /\ Room
  /\ node[k].status = "in_progress"
  /\ node[k].assigneeType # "human"
  /\ node' = [node EXCEPT ![k].status = "manual_intervention",
                          ![k].assigneeType = "human",
                          ![k].version = @ + 1]
  /\ UNCHANGED <<task, template, agents, req>>

ReleaseClaimTimeoutNodes(k) ==
  /\ template[k].nodeType # "manual"
  /\ TakenFromAgent(k)

OfflineAgentFallback(k) ==
  /\ node[k].assignee \in Agents
  /\ TakenFromAgent(k)

-----------------------------------------------------------------------------
(* Operations on the task.                                                 *)

\* mutant: every node that was started is reset
AllNodesReleased ==
  node' = [k \in Nodes |-> IF node[k].status # "pending"
                             THEN [node[k] EXCEPT !.status = "pending",
                                                  !.assignee = None]
                             ELSE node[k]]

\* In-progress nodes go back to pending, without a new version.
NodesReleased ==
  node' = [k \in Nodes |-> IF node[k].status = "in_progress"
                             THEN [node[k] EXCEPT !.status = "pending",
                                                  !.assignee = None]
                             ELSE node[k]]

DeleteTask ==
  /\ task' = "cancelled"
  /\ NodesReleased
  /\ UNCHANGED <<template, agents, req>>

\* UpdateTask refuses a closed task, then writes the status it was given.
ReadEdit(p) ==
  /\ p \in Members
  /\ task = "active"
  /\ Start(p, "edit", "read", 1, None, 1)

CommitEdit(p) ==
  /\ InFlight(p, "edit", "read")
  /\ task' \in EditStatuses
  /\ Finish(p)
  /\ UNCHANGED <<template, agents, node>>

ReadCancel(p) ==
  /\ p \in Members
  /\ task = "active"
  /\ Start(p, "cancel", "read", 1, None, 1)

CommitCancel(p) ==
  /\ InFlight(p, "cancel", "read")
  /\ task' = "cancelled"
  /\ req' = [req EXCEPT ![p].stage = "written"]
  /\ UNCHANGED <<template, agents, node>>

CancelTaskNodes(p) ==
  /\ InFlight(p, "cancel", "written")
  /\ NodesReleased
  /\ Finish(p)
  /\ UNCHANGED <<task, template, agents>>

-----------------------------------------------------------------------------
(* An agent is deleted. Every row that names it anywhere loses its         *)
(* assignee, its reservation and completed_by, whoever they name; the      *)
(* version stays. Requests the agent has in flight go on.                  *)

Names(row, a) == a \in {row.assignee, row.reserved, row.completedBy}

DeleteAgent(a) ==
  /\ a \in agents
  /\ Cardinality(Agents \ agents) < MaxDeletions
  /\ agents' = agents \ {a}
  /\ node' = [k \in Nodes |->
                IF Names(node[k], a)
                  THEN [node[k] EXCEPT !.assignee = None, !.reserved = None,
                                       !.completedBy = None]
                  ELSE node[k]]
  /\ UNCHANGED <<task, template, req>>

-----------------------------------------------------------------------------
PersonStep(p) ==
  \/ CommitClaim(p)
  \/ CommitApprove(p)
  \/ CommitReject(p)
  \/ CommitManual(p)
  \/ CommitInterrupt(p)
  \/ CommitResolveComplete(p)
  \/ \E agent \in Agents \cup {None} : CommitReExecute(p, agent)
  \/ CommitSkip(p)
  \/ CommitEdit(p)
  \/ CommitCancel(p)
  \/ CancelTaskNodes(p)
  \/ ReadClaim(p)
  \/ ReadComplete(p)
  \/ ReadEdit(p)
  \/ ReadCancel(p)

PersonReads(p, k) ==
  \/ CheckClaim(p, k)
  \/ CheckComplete(p, k)
  \/ ReadApprove(p, k)
  \/ \E target \in Nodes : ReadReject(p, k, target)
  \/ ReadManual(p, k)
  \/ ReadInterrupt(p, k)
  \/ ReadResolve(p, k)
  \/ ReadSkip(p, k)

JobStep(k) ==
  \/ ReadTimedOut(k)
  \/ ReleaseClaimTimeoutNodes(k)
  \/ OfflineAgentFallback(k)
  \/ Elapse(k)

Next ==
  \/ \E p \in People : PersonStep(p)
  \/ \E p \in People, k \in Nodes : PersonReads(p, k)
  \/ \E k \in Nodes : JobStep(k)
  \/ CommitTimedOut
  \/ ClearExpiredReservations
  \/ DeleteTask
  \/ \E a \in Agents : DeleteAgent(a)
  \/ \E p \in Operators : Abandon(p)

Spec == Init /\ [][Next]_vars

\* Time passes, and the reservation cleanup runs every 30 seconds.
FairSpec ==
  /\ Spec
  /\ \A k \in Nodes : WF_vars(Elapse(k))
  /\ WF_vars(ClearExpiredReservations)
-----------------------------------------------------------------------------
(* Properties.                                                             *)

TypeOK ==
  /\ task \in TaskStatus
  /\ template \in Templates
  /\ agents \subseteq Agents
  /\ node \in [Nodes -> Row]
  /\ req \in [Operators -> Request \cup {None}]

\* Somebody works on node k, or may take it up.
Live(k) ==
  \/ node[k].status \in {"in_progress", "manual_intervention"}
  \/ node[k].status = "pending" /\ (k = 1 \/ node[k - 1].status = "completed")

\* Work happens at one place: everything before a live node is completed, so
\* there is one live node at most, whatever was rejected, resolved, timed out
\* or interrupted, and however the requests overlapped.
FrontOrdered ==
  \A k \in Nodes : Live(k) => \A j \in 1 .. k - 1 : node[j].status = "completed"

\* The agent that works on a review is not the one that did the standard node
\* under review: the check of Claim still holds while the review is going on.
ReviewedByAnother ==
  \A k \in Nodes : \A a \in Agents :
     /\ node[k].status = "in_progress"
     /\ node[k].assignee = a
     /\ template[k].nodeType = "review"
     => ~ WroteLastStandard(a, k)

\* A task marked completed by the approval of its last node has no node left
\* open, and none is reopened afterwards.
CompletedTaskIsDone ==
  task = "completed" => \A k \in Nodes : node[k].status = "completed"

\* The first node is rolled back fewer than max_reject_cycles times between
\* two decisions of a human: agents cannot loop on it for ever.
RollbackBudget ==
  node[1].status \in {"pending", "in_progress"} => node[1].rejects < MaxCycles(1)

\* Two requests never both win a node: a node in progress does not pass from
\* one assignee to another.
AssigneeStable ==
  [][\A k \in Nodes :
       /\ node[k].status = "in_progress" /\ node'[k].status = "in_progress"
       /\ None \notin {node[k].assignee, node'[k].assignee}
       => node'[k].assignee = node[k].assignee]_vars

\* Nobody starts a node that is reserved for another agent, unless the
\* reservation has run out.
ReservationHonoured ==
  [][\A k \in Nodes : \A a \in Agents :
       /\ node[k].status # "in_progress"
       /\ node'[k].status = "in_progress" /\ node'[k].assignee = a
       => node[k].reserved \in {None, a} \/ node[k].expires = "past"]_vars

\* Accepted work is reopened only by a rejection: either the node is the
\* target of one, or it is done again because its predecessor was.
ReopenedByRollback ==
  [][\A k \in Nodes :
       node[k].status = "completed" /\ node'[k].status # "completed"
       => \/ \E j \in Nodes : j > k /\ node[j].status = "in_progress"
                                    /\ node'[j].status = "rejected"
          \/ k > 1 /\ node[k - 1].status = "in_progress"
                   /\ node'[k - 1].status = "completed"]_vars

\* A decision falls on the work it was taken about: whoever approves, rejects,
\* hands over or interrupts a node does so to the assignee the node had when
\* the decision was read, however often it changed hands in between; and the
\* timeout job takes a node only from the agent it read. (That agent may have
\* been deleted.)
DecisionOnWorkRead ==
  [][\A p \in Operators :
       /\ req[p] # None /\ req'[p] = None /\ node' # node
       /\ req[p].op \in {"complete", "approve", "reject", "manual", "interrupt", "timeout"}
       => node[req[p].node].assignee \in {req[p].row.assignee, None}]_vars

\* What an approval has written about the right to continue on node k: an end
\* to it, or, if the end is gone again, somebody whom neither the template
\* (CreateTask reserves without an end) nor a rollback (which counts, and
\* reserves without an end) has put there.
HandedOver(k) ==
  \/ node[k].expires # "never"
  \/ node[k].reserved # template[k].assignee /\ node[k].rejects = 0

\* When an approval hands node k on, the right to continue ends: the node is
\* free for every agent some time later, or has moved on. A node that was
\* reserved when the task was created keeps that reservation for ever, unless
\* the approval of the node before it sets an end: not if that one was a
\* human's first node, or was resolved. (A closed task keeps its reservations.)
HandOverLapses ==
  \A k \in Nodes :
    (task = "active" /\ node[k].status = "pending" /\ PredecessorDone(k) /\ HandedOver(k))
      ~> \/ node[k].reserved = None
         \/ node[k].status # "pending"
         \/ task # "active"
=============================================================================
