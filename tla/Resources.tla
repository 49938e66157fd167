----------------------------- MODULE Resources ------------------------------
(***************************************************************************)
(* The rows of the workspaces and what they say of each other.  A row goes *)
(* with the row it belongs to, by foreign key.  The columns that merely    *)
(* name another row have no foreign key any more: whether what they name   *)
(* is there, and in the same workspace, is up to the handlers, which look  *)
(* first and write later, and to the deletions, which null what they know  *)
(* of.  What else a row holds is the matter of Records.                    *)
(*                                                                         *)
(* A template and a task have one node: the nodes of a task pass agents'   *)
(* ids on among themselves, and one stands for all.  Who is claimed when   *)
(* is the matter of NodeWorkflow; here a node is the ids it holds.         *)
(***************************************************************************)
EXTENDS Naturals, FiniteSets

CONSTANTS
  Workspaces,  \* there from the start
  Agents, Templates, Projects, Skills, Servers, Memories,  \* of a workspace
  Tasks, Credentials,  \* of a project
  Comments,    \* of a task
  Handlers,    \* requests that may be under way at once
  MaxWork,     \* bound: rows ever created
  None         \* NULL

Rows == Agents \cup Templates \cup Projects \cup Skills \cup Servers
          \cup Memories \cup Tasks \cup Credentials \cup Comments

\* Ids are unique, whatever they are of.
ASSUME ResourcesAssumption ==
  /\ MaxWork \in Nat
  /\ None \notin Workspaces \cup Rows
  /\ LET kinds == <<Workspaces, Agents, Templates, Projects, Skills, Servers, Memories, Tasks,
                    Credentials, Comments>>
     IN \A i, j \in 1..10 : i # j => kinds[i] \cap kinds[j] = {}

VARIABLES
  live,      \* the rows that are there, and the workspaces
  parent,    \* what each row belongs, or belonged, to; None before it is created
  tmplNode,  \* the node of a template
  node,      \* the node of a task
  about,     \* the node a comment is about, by its task
  source,    \* the task a memory is from
  links,     \* agent_skills and agent_mcp_servers
  lists,     \* project_members and project_reviewers: the agents
  usage,     \* token_usage
  req,       \* what a handler is doing
  going,     \* how many statements of the deletion of an agent, or a project, have run
  locked     \* the rows that they have written: others' until it commits

\* What the properties remember.
VARIABLES
  free,      \* tasks and memories written with an id that nobody looked at, or behind a deletion
  late       \* agents that a request wrote behind their deletion, or had in hand at its end

rowVars  == <<live, parent>>
nameVars == <<tmplNode, node, about, source>>
pairVars == <<links, lists, usage>>
txVars   == <<going, locked>>
vars == <<rowVars, nameVars, pairVars, req, free, late, txVars>>

Id == Agents \cup {None}
\* A node without an assignee is the same whatever its type.
TemplateNode ==
  [type : {"specific_agent"}, assignee : Agents] \cup [type : {"any_agent"}, assignee : Id]
TaskNode == [assignee : Id, reserved : Id, by : Id]
NoTemplateNode == [type |-> "any_agent", assignee |-> None]
NoTaskNode == [assignee |-> None, reserved |-> None, by |-> None]
Lists == {"members", "reviewers"}

Idle == [op |-> "idle"]
Request ==
  [op : {"create", "replace"}, row : Templates, in : Workspaces, node : TemplateNode]
    \cup [op : {"list", "insert"}, row : Tasks, in : Projects, from : Templates,
          node : TemplateNode]
    \cup [op : {"claim", "pass"}, row : Tasks, who : Id, node : TaskNode, fresh : BOOLEAN]
    \cup [op : {"comment"}, row : Comments, in : Tasks, about : Tasks]
    \cup [op : {"link"}, who : Agents, to : Skills \cup Servers]
    \cup [op : {"report"}, who : Agents, row : Tasks]

\* Pairs are of rows that are there.
TypeOK ==
  /\ live \subseteq Rows \cup Workspaces
  /\ parent \in [Rows -> Workspaces \cup Projects \cup Tasks \cup {None}]
  /\ tmplNode \in [Templates -> TemplateNode]
  /\ node \in [Tasks -> TaskNode]
  /\ about \in [Comments -> Tasks \cup {None}]
  /\ source \in [Memories -> Tasks \cup {None}]
  /\ links \subseteq (Agents \cap live) \X ((Skills \cup Servers) \cap live)
  /\ lists \subseteq Lists \X (Projects \cap live) \X (Agents \cap live)
  /\ usage \subseteq (Tasks \cap live) \X (Agents \cap live)
  /\ req \in [Handlers -> Request \cup {Idle}]
  /\ free \subseteq Tasks \cup Memories
  /\ late \subseteq Agents
  /\ going \in [Agents \cup Projects -> 0..2]
  /\ locked \in [Agents \cup Projects -> SUBSET (Templates \cup Tasks \cup Memories)]

Init ==
  /\ live = Workspaces
  /\ parent = [r \in Rows |-> None]
  /\ tmplNode = [m \in Templates |-> NoTemplateNode]
  /\ node = [t \in Tasks |-> NoTaskNode]
  /\ about = [c \in Comments |-> None]
  /\ source = [m \in Memories |-> None]
  /\ links = {}
  /\ lists = {}
  /\ usage = {}
  /\ req = [h \in Handlers |-> Idle]
  /\ free = {}
  /\ late = {}
  /\ going = [x \in Agents \cup Projects |-> 0]
  /\ locked = [x \in Agents \cup Projects |-> {}]

-----------------------------------------------------------------------------
\* Rows.

\* Ids are new: no row, and no request for a row, has had the id before.
Taken ==
  {x \in DOMAIN parent : parent[x] # None}
    \cup {req[h].row : h \in {g \in Handlers :
                                req[g].op \in {"create", "list", "insert", "comment"}}}
New(r) == r \notin Taken /\ Cardinality(Taken) < MaxWork

\* An INSERT fails its foreign key when what the row belongs to is not there.
Insert(r, p) ==
  /\ p \in live
  /\ parent' = [parent EXCEPT ![r] = p]
  /\ live' = live \cup {r}

Up(x) == IF x \in DOMAIN parent THEN parent[x] ELSE None
Below(r) == {x \in DOMAIN parent : r \in {Up(x), Up(Up(x)), Up(Up(Up(x)))}}

\* A row goes with all that belongs to it, and with the pairs it is in.
Goes(r) ==
  /\ live' = live \ ({r} \cup Below(r))
  /\ links' = {p \in links : p[1] \in live' /\ p[2] \in live'}
  /\ lists' = {p \in lists : p[2] \in live' /\ p[3] \in live'}
  /\ usage' = {p \in usage : p[1] \in live' /\ p[2] \in live'}
  /\ UNCHANGED <<parent, req, free>>

\* A deletion that has more than one statement is a transaction, at READ COMMITTED: until
\* it commits others find what they found before, and to write what it has written they wait.
Locked(y) == y \in live /\ \E x \in DOMAIN locked : y \in locked[x]

\* One that has one statement.
Delete(r) ==
  /\ r \in live
  /\ \A y \in {r} \cup Below(r) : ~Locked(y)
  /\ Goes(r)
  /\ UNCHANGED txVars

\* The workspace of a task that is there.
WorkspaceOf(t) == parent[parent[t]]

\* What the handlers look at.
checkAgentWorkspace(a, w) == a \in live /\ parent[a] = w

checkProjectWorkspace(p, w) == p \in live /\ parent[p] = w
checkWorkflowTemplateWorkspace(m, w) == m \in live /\ parent[m] = w
checkSkillWorkspace(s, w)   == s \in live /\ parent[s] = w
checkMcpServerWorkspace(s, w) == s \in live /\ parent[s] = w
\* An agent at the node of a task, or at the task: both are of its workspace.
AgentAtTask(a, t) == t \in live /\ checkAgentWorkspace(a, WorkspaceOf(t))

Opens(h, r) == req' = [req EXCEPT ![h] = r]
Answers(h)  == req' = [req EXCEPT ![h] = Idle]

-----------------------------------------------------------------------------
\* Rows that name nothing when they are created.

CreateRow(r, p) ==
  /\ New(r)
  /\ Insert(r, p)
  /\ UNCHANGED <<nameVars, pairVars, req, free, late, txVars>>

CreateAgent(a, w)         == CreateRow(a, w)
CreateProject(p, w)       == CreateRow(p, w)
CreateSkill(s, w)         == CreateRow(s, w)
CreateMcpServer(s, w)     == CreateRow(s, w)
CreateGitCredential(c, p) == CreateRow(c, p)
\* A workflow of the market is imported without its nodes.
ImportWorkflow(m, w)      == CreateRow(m, w)

\* The task of a memory is whatever the request says.
CreateMemory(m, w, t) ==
  /\ New(m)
  /\ Insert(m, w)
  /\ source' = [source EXCEPT ![m] = t]
  /\ free' = IF t = None \/ (t \in live /\ WorkspaceOf(t) = w /\ going[parent[t]] = 0)
             THEN free ELSE free \cup {m}
  /\ UNCHANGED <<tmplNode, node, about, pairVars, req, late, txVars>>

-----------------------------------------------------------------------------
\* Templates.

\* Those whose deletion has run n statements, and will not find what is written now.
Missed(ids, n) == {a \in ids \cap Agents : going[a] >= n}

\* The agent of a node is looked for when the node is for one agent only.
checkAssignee(n, w) ==
  n.type = "specific_agent" => checkAgentWorkspace(n.assignee, w)

CreateWorkflowTemplate(h, m, w, n) ==
  /\ New(m)
  /\ w \in live
  /\ checkAssignee(n, w)
  /\ Opens(h, [op |-> "create", row |-> m, in |-> w, node |-> n])
  /\ UNCHANGED <<rowVars, nameVars, pairVars, free, late, txVars>>

InsertTemplate(h) ==
  /\ req[h].op = "create"
  /\ LET r == req[h] IN
       \/ /\ Insert(r.row, r.in)
          /\ tmplNode' = [tmplNode EXCEPT ![r.row] = r.node]
          /\ late' = late \cup Missed({r.node.assignee}, 1)
       \/ r.in \notin live /\ UNCHANGED <<rowVars, tmplNode, late>>
  /\ Answers(h)
  /\ UNCHANGED <<node, about, source, pairVars, free, txVars>>

UpdateWorkflowTemplate(h, m, w, n) ==
  /\ checkWorkflowTemplateWorkspace(m, w)
  /\ checkAssignee(n, w)
  /\ Opens(h, [op |-> "replace", row |-> m, in |-> w, node |-> n])
  /\ UNCHANGED <<rowVars, nameVars, pairVars, free, late, txVars>>

\* The old nodes are deleted and the new ones inserted.
ReplaceTemplateNodes(h) ==
  /\ req[h].op = "replace"
  /\ LET r == req[h] IN
       /\ ~Locked(r.row)
       /\ IF r.row \in live
          THEN /\ tmplNode' = [tmplNode EXCEPT ![r.row] = r.node]
               /\ late' = late \cup Missed({r.node.assignee}, 1)
          ELSE UNCHANGED <<tmplNode, late>>
  /\ Answers(h)
  /\ UNCHANGED <<rowVars, node, about, source, pairVars, free, txVars>>

-----------------------------------------------------------------------------
\* Tasks and their nodes.

CreateTask(h, t, p, m, w) ==
  /\ New(t)
  /\ checkProjectWorkspace(p, w)
  /\ checkWorkflowTemplateWorkspace(m, w)
  /\ Opens(h, [op |-> "list", row |-> t, in |-> p, from |-> m, node |-> NoTemplateNode])
  /\ UNCHANGED <<rowVars, nameVars, pairVars, free, late, txVars>>

\* A template that has gone since has no nodes.
ListTemplateNodes(h) ==
  /\ req[h].op = "list"
  /\ LET m == req[h].from IN
       req' = [req EXCEPT ![h].op = "insert",
                          ![h].node = IF m \in live THEN tmplNode[m] ELSE NoTemplateNode]
  /\ UNCHANGED <<rowVars, nameVars, pairVars, free, late, txVars>>

\* The agent of the template's node is the task's, and the node is reserved for it.
InsertTask(h) ==
  /\ req[h].op = "insert"
  /\ LET r == req[h]
         a == r.node.assignee IN
       \/ /\ Insert(r.row, r.in)
          /\ node' = [node EXCEPT ![r.row] = [assignee |-> a, reserved |-> a, by |-> None]]
          /\ free' = IF a # None /\ r.node.type = "any_agent"
                     THEN free \cup {r.row} ELSE free
          /\ late' = late \cup Missed({a}, 2)
       \/ r.in \notin live /\ UNCHANGED <<rowVars, node, free, late>>
  /\ Answers(h)
  /\ UNCHANGED <<tmplNode, about, source, pairVars, txVars>>

\* CheckAgentProjectAccess.
IsMember(a, t) == <<"members", parent[t], a>> \in lists

Claim(h, a, t) ==
  /\ AgentAtTask(a, t)
  /\ IsMember(a, t)
  /\ node[t].reserved \in {None, a}
  /\ Opens(h, [op |-> "claim", row |-> t, who |-> a, node |-> node[t], fresh |-> TRUE])
  /\ UNCHANGED <<rowVars, nameVars, pairVars, free, late, txVars>>

\* A write of the node that raises its version: whoever read it before has lost.
WriteNode(h, t, n) ==
  /\ node' = [node EXCEPT ![t] = n]
  /\ req' = [g \in Handlers |->
               IF g = h THEN Idle
               ELSE IF req[g].op \in {"claim", "pass"} /\ req[g].row = t
               THEN [req[g] EXCEPT !.fresh = FALSE]
               ELSE req[g]]
  /\ late' = late \cup Missed({n.assignee, n.reserved, n.by}, 2)

\* The row is written if it is there and has the version that was read.
Writable(h) == req[h].row \in live /\ req[h].fresh

ClaimTaskNode(h) ==
  /\ req[h].op = "claim"
  /\ ~Locked(req[h].row)
  /\ LET r == req[h] IN
       IF Writable(h) /\ node[r.row].reserved \in {None, r.who}
       THEN WriteNode(h, r.row, [node[r.row] EXCEPT !.assignee = r.who, !.reserved = r.who])
       ELSE Answers(h) /\ UNCHANGED <<node, late>>
  /\ UNCHANGED <<rowVars, tmplNode, about, source, pairVars, free, txVars>>

\* Complete, approve, reject, interrupt, resolve, time out.  The ids written are
\* among those that were read, but for that of an agent that approves.
ReadNode(h, a, t) ==
  /\ t \in live
  /\ a # None => AgentAtTask(a, t)
  /\ Opens(h, [op |-> "pass", row |-> t, who |-> a, node |-> node[t], fresh |-> TRUE])
  /\ UNCHANGED <<rowVars, nameVars, pairVars, free, late, txVars>>

UpdateTaskNode(h) ==
  /\ req[h].op = "pass"
  /\ ~Locked(req[h].row)
  /\ LET r == req[h]
         n == r.node IN
       IF Writable(h)
       THEN \E a \in {None, n.assignee}, v \in {None, n.reserved, n.assignee},
               b \in {None, n.by, n.assignee, r.who} :
              WriteNode(h, r.row, [assignee |-> a, reserved |-> v, by |-> b])
       ELSE Answers(h) /\ UNCHANGED <<node, late>>
  /\ UNCHANGED <<rowVars, tmplNode, about, source, pairVars, free, txVars>>

\* The assignee reports what the node has cost.
ReportTokenUsage(h, a, t) ==
  /\ AgentAtTask(a, t)
  /\ node[t].assignee = a
  /\ Opens(h, [op |-> "report", who |-> a, row |-> t])
  /\ UNCHANGED <<rowVars, nameVars, pairVars, free, late, txVars>>

CreateTokenUsage(h) ==
  /\ req[h].op = "report"
  /\ LET r == req[h] IN
       usage' = IF {r.row, r.who} \subseteq live THEN usage \cup {<<r.row, r.who>>} ELSE usage
  /\ Answers(h)
  /\ UNCHANGED <<rowVars, nameVars, links, lists, free, late, txVars>>

\* The node a comment is about must be one of the task's.
validateCommentNode(t, n) == n \in live /\ n = t

CreateComment(h, c, t, n) ==
  /\ New(c)
  /\ t \in live
  /\ validateCommentNode(t, n)
  /\ Opens(h, [op |-> "comment", row |-> c, in |-> t, about |-> n])
  /\ UNCHANGED <<rowVars, nameVars, pairVars, free, late, txVars>>

InsertComment(h) ==
  /\ req[h].op = "comment"
  /\ LET r == req[h] IN
       \/ /\ Insert(r.row, r.in)
          /\ about' = [about EXCEPT ![r.row] = r.about]
       \/ r.in \notin live /\ UNCHANGED <<rowVars, about>>
  /\ Answers(h)
  /\ UNCHANGED <<tmplNode, node, source, pairVars, free, late, txVars>>

-----------------------------------------------------------------------------
\* Pairs.

\* Both are looked for in the workspace of the request.
AddSkill(h, a, s) ==
  /\ checkAgentWorkspace(a, parent[a])
  /\ checkSkillWorkspace(s, parent[a])
  /\ Opens(h, [op |-> "link", who |-> a, to |-> s])
  /\ UNCHANGED <<rowVars, nameVars, pairVars, free, late, txVars>>

AddMcpServer(h, a, s) ==
  /\ checkAgentWorkspace(a, parent[a])
  /\ checkMcpServerWorkspace(s, parent[a])
  /\ Opens(h, [op |-> "link", who |-> a, to |-> s])
  /\ UNCHANGED <<rowVars, nameVars, pairVars, free, late, txVars>>

\* Mutant: these foreign keys were dropped with the others.
LinkedUnkeyed(a, s) == links \cup {<<a, s>>}
Linked(a, s) == IF {a, s} \subseteq live THEN links \cup {<<a, s>>} ELSE links

InsertLink(h) ==
  /\ req[h].op = "link"
  /\ links' = Linked(req[h].who, req[h].to)
  /\ Answers(h)
  /\ UNCHANGED <<rowVars, nameVars, lists, usage, free, late, txVars>>

RemoveLink(a, s) ==
  /\ <<a, s>> \in links
  /\ links' = links \ {<<a, s>>}
  /\ UNCHANGED <<rowVars, nameVars, lists, usage, req, free, late, txVars>>

RemoveSkill(a, s)     == RemoveLink(a, s)
RemoveMcpServer(a, s) == RemoveLink(a, s)

\* Nobody looks whose the agent is: one of another workspace can do nothing with it.
AddToList(l, p, a) ==
  /\ {p, a} \subseteq live
  /\ lists' = lists \cup {<<l, p, a>>}
  /\ UNCHANGED <<rowVars, nameVars, links, usage, req, free, late, txVars>>

RemoveFromList(l, p, a) ==
  /\ <<l, p, a>> \in lists
  /\ lists' = lists \ {<<l, p, a>>}
  /\ UNCHANGED <<rowVars, nameVars, links, usage, req, free, late, txVars>>

AddProjectMember(p, a)      == AddToList("members", p, a)
AddProjectReviewer(p, a)    == AddToList("reviewers", p, a)
RemoveProjectMember(p, a)   == RemoveFromList("members", p, a)
RemoveProjectReviewer(p, a) == RemoveFromList("reviewers", p, a)

-----------------------------------------------------------------------------
\* Deletions null the columns they know to name what they delete.

\* The agents a request will write.
InHand(r) ==
  IF r.op \in {"create", "replace", "insert"} THEN {r.node.assignee}
  ELSE IF r.op \in {"claim", "pass"}
  THEN {r.who, r.node.assignee, r.node.reserved, r.node.by}
  ELSE {}

\* What the deletions look for.
TemplatesNaming(a) == {m \in Templates : tmplNode[m].assignee = a}
\* Mutant: only nodes the agent works at are looked for.
TasksAssigned(a)   == {t \in Tasks : node[t].assignee = a}
TasksNaming(a)     == {t \in Tasks : a \in {node[t].assignee, node[t].reserved, node[t].by}}
MemoriesFrom(p)    == {m \in Memories : source[m] \in live /\ parent[source[m]] = p}

\* A statement writes the rows it finds: others see nothing of it yet.
Statement(x, rows) ==
  /\ \A y \in rows : ~Locked(y)
  /\ going' = [going EXCEPT ![x] = @ + 1]
  /\ locked' = [locked EXCEPT ![x] = @ \cup rows]
  /\ UNCHANGED <<rowVars, nameVars, pairVars, req, free>>

Ends(x) ==
  /\ going' = [going EXCEPT ![x] = 0]
  /\ locked' = [locked EXCEPT ![x] = {}]

\* The templates' nodes, the nodes of tasks, and the agent.  One deletion of it at a time.
DeleteAgent(a) ==
  /\ a \in live
  /\ going[a] = 0
  /\ Statement(a, TemplatesNaming(a))
  /\ late' = late \ {a}

ClearTaskNodes(a) ==
  /\ going[a] = 1
  /\ Statement(a, TasksNaming(a))
  /\ UNCHANGED late

\* A node that names the agent in one column loses all three.
CommitAgent(a) ==
  /\ going[a] = 2
  /\ Goes(a)
  /\ tmplNode' = [m \in Templates |-> IF m \in locked[a] THEN NoTemplateNode ELSE tmplNode[m]]
  /\ node' = [t \in Tasks |-> IF t \in locked[a] THEN NoTaskNode ELSE node[t]]
  /\ late' = IF \E h \in Handlers : a \in InHand(req[h]) THEN late \cup {a} ELSE late
  /\ Ends(a)
  /\ UNCHANGED <<about, source>>

\* The memories, and the project.
DeleteProject(p) ==
  /\ p \in live
  /\ going[p] = 0
  /\ Statement(p, MemoriesFrom(p))
  /\ UNCHANGED late

CommitProject(p) ==
  /\ going[p] = 1
  /\ \A y \in Below(p) : ~Locked(y)
  /\ Goes(p)
  /\ source' = [m \in Memories |-> IF m \in locked[p] THEN None ELSE source[m]]
  /\ Ends(p)
  /\ UNCHANGED <<tmplNode, node, about, late>>

\* A statement fails, or two deletions wait for each other.
Rollback(x) ==
  /\ going[x] # 0
  /\ Ends(x)
  /\ UNCHANGED <<rowVars, nameVars, pairVars, req, free, late>>

DeleteRow(r) == Delete(r) /\ UNCHANGED <<nameVars, late>>

DeleteWorkspace(w)        == DeleteRow(w)
DeleteWorkflowTemplate(m) == DeleteRow(m)
DeleteSkill(s)            == DeleteRow(s)
DeleteMcpServer(s)        == DeleteRow(s)
DeleteMemory(m)           == DeleteRow(m)

-----------------------------------------------------------------------------
Creates ==
  \/ \E w \in Workspaces :
       \/ \E a \in Agents : CreateAgent(a, w)
       \/ \E p \in Projects : CreateProject(p, w)
       \/ \E s \in Skills : CreateSkill(s, w)
       \/ \E s \in Servers : CreateMcpServer(s, w)
       \/ \E m \in Templates : ImportWorkflow(m, w)
       \/ \E m \in Memories, t \in Tasks \cup {None} : CreateMemory(m, w, t)
  \/ \E c \in Credentials, p \in Projects : CreateGitCredential(c, p)

Deletes ==
  \/ \E a \in Agents : DeleteAgent(a) \/ ClearTaskNodes(a) \/ CommitAgent(a) \/ Rollback(a)
  \/ \E p \in Projects : DeleteProject(p) \/ CommitProject(p) \/ Rollback(p)
  \/ \E w \in Workspaces : DeleteWorkspace(w)
  \/ \E m \in Templates : DeleteWorkflowTemplate(m)
  \/ \E s \in Skills : DeleteSkill(s)
  \/ \E s \in Servers : DeleteMcpServer(s)
  \/ \E m \in Memories : DeleteMemory(m)

Links ==
  \E a \in Agents :
    \/ \E s \in Skills : RemoveSkill(a, s)
    \/ \E s \in Servers : RemoveMcpServer(a, s)
    \/ \E p \in Projects : \/ AddProjectMember(p, a)
                           \/ AddProjectReviewer(p, a)
                           \/ RemoveProjectMember(p, a)
                           \/ RemoveProjectReviewer(p, a)

Requests(h) ==
  \/ \E m \in Templates, w \in Workspaces, n \in TemplateNode :
       \/ CreateWorkflowTemplate(h, m, w, n)
       \/ UpdateWorkflowTemplate(h, m, w, n)
  \/ \E t \in Tasks :
       \/ \E p \in Projects, m \in Templates, w \in Workspaces : CreateTask(h, t, p, m, w)
       \/ \E a \in Agents : Claim(h, a, t) \/ ReportTokenUsage(h, a, t)
       \/ \E a \in Id : ReadNode(h, a, t)
       \/ \E c \in Comments, n \in Tasks : CreateComment(h, c, t, n)
  \/ \E a \in Agents :
       \/ \E s \in Skills : AddSkill(h, a, s)
       \/ \E s \in Servers : AddMcpServer(h, a, s)

Writes(h) ==
  \/ InsertTemplate(h)
  \/ ReplaceTemplateNodes(h)
  \/ ListTemplateNodes(h)
  \/ InsertTask(h)
  \/ ClaimTaskNode(h)
  \/ UpdateTaskNode(h)
  \/ CreateTokenUsage(h)
  \/ InsertComment(h)
  \/ InsertLink(h)

Next ==
  \/ Creates
  \/ Deletes
  \/ Links
  \/ \E h \in Handlers : IF req[h] = Idle THEN Requests(h) ELSE Writes(h)

Spec == Init /\ [][Next]_vars

-----------------------------------------------------------------------------
\* Properties.

\* A template's node is for one agent only, which was looked for.
checkedNode(m) == tmplNode[m].type = "specific_agent"

Of(t) == {node[t].assignee, node[t].reserved, node[t].by} \ {None}

\* What a row names in a column that was looked at is of the row's own workspace,
\* whatever was deleted, replaced or passed on between the look and the write.
Inside ==
  /\ \A m \in Templates \cap live :
       checkedNode(m) => parent[tmplNode[m].assignee] = parent[m]
  /\ \A t \in (Tasks \cap live) \ free : \A a \in Of(t) : parent[a] = WorkspaceOf(t)
  /\ \A l \in links : parent[l[1]] = parent[l[2]]
  /\ \A u \in usage : parent[u[2]] = WorkspaceOf(u[1])
  /\ \A c \in Comments \cap live : about[c] = parent[c]
  /\ \A m \in (Memories \cap live) \ free :
       source[m] # None => WorkspaceOf(source[m]) = parent[m]

\* An agent that is gone is named by no node that its workspace looks at, unless a request
\* wrote it behind the statement of its deletion that clears such nodes, or had its id in hand
\* when it was gone.  A memory names no task that is gone, if it was written while the task's
\* project was not being deleted.
GoneIsForgotten ==
  /\ \A a \in Agents :
       parent[a] # None /\ a \notin live \cup late =>
         /\ \A m \in Templates \cap live : checkedNode(m) => tmplNode[m].assignee # a
         /\ \A t \in (Tasks \cap live) \ free : a \notin Of(t)
  /\ \A m \in (Memories \cap live) \ free : source[m] \in live \cup {None}

\* What a row names is of its own workspace, and is there for as long as the row is: nothing
\* that was looked up, and was deleted or never fitted, stays named, but for what is written
\* behind a deletion's back.
NamesHold == Inside /\ GoneIsForgotten
=============================================================================
