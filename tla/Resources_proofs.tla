-------------------------- MODULE Resources_proofs --------------------------
(***************************************************************************)
(* Theorems about Resources, for any number of workspaces, of rows of each *)
(* kind and of requests under way; and about Records, for any number of    *)
(* requests that edit.                                                     *)
(***************************************************************************)
EXTENDS Resources, Records, TLAPS

-----------------------------------------------------------------------------
(* Types.                                                                  *)

\* Ids tell what they are of.
LEMMA KindsApart ==
  /\ None \notin Workspaces \cup Rows
  /\ Workspaces \cap Rows = {}
  /\ (Agents \cup Templates \cup Projects \cup Skills \cup Servers \cup Memories)
       \cap (Tasks \cup Credentials \cup Comments) = {}
  /\ Comments \cap (Tasks \cup Credentials) = {}
  /\ Agents \cap (Templates \cup Projects \cup Skills \cup Servers \cup Memories) = {}
  /\ Projects \cap (Templates \cup Skills \cup Servers \cup Memories) = {}
<1> DEFINE kinds == <<Workspaces, Agents, Templates, Projects, Skills, Servers, Memories, Tasks,
                      Credentials, Comments>>
<1>1. \A i, j \in 1..10 : i # j => kinds[i] \cap kinds[j] = {}
  BY ResourcesAssumption
<1>2. /\ kinds[1] = Workspaces /\ kinds[2] = Agents /\ kinds[3] = Templates
      /\ kinds[4] = Projects /\ kinds[5] = Skills /\ kinds[6] = Servers
      /\ kinds[7] = Memories /\ kinds[8] = Tasks /\ kinds[9] = Credentials
      /\ kinds[10] = Comments
  OBVIOUS
<1> HIDE DEF kinds
<1>3. ASSUME NEW i \in 1..10, NEW j \in 1..10, i # j, NEW x
      PROVE  ~(x \in kinds[i] /\ x \in kinds[j])
  <2>1. kinds[i] \cap kinds[j] = {}
    BY <1>1, <1>3
  <2> QED BY <2>1
<1>4. \A x : /\ x \in Workspaces => x \notin Rows
             /\ x \in Comments => x \notin Tasks \cup Credentials
  BY <1>2, <1>3 DEF Rows
<1>5. \A x : x \in Agents => x \notin Templates \cup Projects \cup Skills \cup Servers \cup Memories
  BY <1>2, <1>3
<1>6. \A x : x \in Projects => x \notin Templates \cup Skills \cup Servers \cup Memories
  BY <1>2, <1>3
<1>7. \A x : x \in Tasks \cup Credentials \cup Comments =>
        x \notin Agents \cup Templates \cup Projects \cup Skills \cup Servers \cup Memories
  BY <1>2, <1>3
<1>8. None \notin Workspaces \cup Rows
  BY ResourcesAssumption
<1> QED BY <1>4, <1>5, <1>6, <1>7, <1>8

\* What is asked of a handler, by what it is at.
TemplateRequest == [op : {"create", "replace"}, row : Templates, in : Workspaces,
                    node : TemplateNode]
TaskRequest     == [op : {"list", "insert"}, row : Tasks, in : Projects, from : Templates,
                    node : TemplateNode]
NodeRequest     == [op : {"claim", "pass"}, row : Tasks, who : Id, node : TaskNode,
                    fresh : BOOLEAN]
CommentRequest  == [op : {"comment"}, row : Comments, in : Tasks, about : Tasks]
LinkRequest     == [op : {"link"}, who : Agents, to : Skills \cup Servers]
ReportRequest   == [op : {"report"}, who : Agents, row : Tasks]

\* Every request is of one of these kinds, told by its op.
LEMMA Requested ==
  ASSUME NEW r \in Request
  PROVE  /\ r.op \in {"create", "replace"} => r \in TemplateRequest
         /\ r.op \in {"list", "insert"} => r \in TaskRequest
         /\ r.op \in {"claim", "pass"} => r \in NodeRequest
         /\ r.op = "comment" => r \in CommentRequest
         /\ r.op = "link" => r \in LinkRequest
         /\ r.op = "report" => r \in ReportRequest
         /\ r.op \in {"create", "replace", "list", "insert", "claim", "pass", "comment",
                      "link", "report"}
         /\ r # Idle
BY DEF Request, TemplateRequest, TaskRequest, NodeRequest, CommentRequest, LinkRequest,
       ReportRequest, Idle

\* And all of those kinds are requests.
LEMMA RequestsAre ==
  /\ TemplateRequest \subseteq Request
  /\ TaskRequest \subseteq Request
  /\ NodeRequest \subseteq Request
  /\ CommentRequest \subseteq Request
  /\ LinkRequest \subseteq Request
  /\ ReportRequest \subseteq Request
BY DEF Request, TemplateRequest, TaskRequest, NodeRequest, CommentRequest, LinkRequest,
       ReportRequest

\* An INSERT leaves the rows of their types.
LEMMA InsertTyped ==
  ASSUME TypeOK, NEW r \in Rows, NEW p \in Workspaces \cup Projects \cup Tasks, Insert(r, p)
  PROVE  /\ live' \subseteq Rows \cup Workspaces
         /\ parent' \in [Rows -> Workspaces \cup Projects \cup Tasks \cup {None}]
         /\ live \subseteq live'
BY DEF TypeOK, Insert

\* Pairs of rows that stay are pairs of rows that are there.
LEMMA PairsTyped ==
  ASSUME TypeOK, live \subseteq live', UNCHANGED pairVars
  PROVE  /\ links' \subseteq (Agents \cap live') \X ((Skills \cup Servers) \cap live')
         /\ lists' \subseteq Lists \X (Projects \cap live') \X (Agents \cap live')
         /\ usage' \subseteq (Tasks \cap live') \X (Agents \cap live')
<1> USE DEF TypeOK, pairVars
<1>1. links' \subseteq (Agents \cap live') \X ((Skills \cup Servers) \cap live')
  OBVIOUS
<1>2. lists' \subseteq Lists \X (Projects \cap live') \X (Agents \cap live')
  OBVIOUS
<1>3. usage' \subseteq (Tasks \cap live') \X (Agents \cap live')
  OBVIOUS
<1> QED BY <1>1, <1>2, <1>3

\* A handler that takes a request up has a request.
LEMMA OpensTyped ==
  ASSUME TypeOK, NEW h \in Handlers, NEW r \in Request, Opens(h, r)
  PROVE  req' \in [Handlers -> Request \cup {Idle}]
BY DEF TypeOK, Opens

\* A handler that answers is idle.
LEMMA AnswersTyped ==
  ASSUME TypeOK, NEW h \in Handlers, Answers(h)
  PROVE  req' \in [Handlers -> Request \cup {Idle}]
BY DEF TypeOK, Answers

\* A request that has lost is one still, of the same row and for the same agent.
Lost(q, r) ==
  /\ {q, r} \subseteq NodeRequest
  /\ r.op = q.op /\ r.row = q.row /\ r.who = q.who /\ r.node = q.node

\* To mark a request stale is to have it lose, and no more.
LEMMA LostIs ==
  ASSUME NEW q \in NodeRequest
  PROVE  Lost(q, [q EXCEPT !.fresh = FALSE])
BY DEF Lost, NodeRequest

\* A write to a task's node rewrites that node, and has whoever else read it lose.
LEMMA WriteNodeIs ==
  ASSUME TypeOK, NEW h \in Handlers, NEW t \in Tasks, NEW n \in TaskNode, WriteNode(h, t, n)
  PROVE  /\ node' \in [Tasks -> TaskNode]
         /\ node'[t] = n
         /\ \A u \in Tasks : u # t => node'[u] = node[u]
         /\ req' \in [Handlers -> Request \cup {Idle}]
         /\ req'[h] = Idle
         /\ \A g \in Handlers : g # h => req'[g] = req[g] \/ Lost(req[g], req'[g])
         /\ late \subseteq late' /\ late' \subseteq Agents
<1>1. /\ node' \in [Tasks -> TaskNode]
      /\ node'[t] = n
      /\ \A u \in Tasks : u # t => node'[u] = node[u]
  BY DEF TypeOK, WriteNode
<1>2. req'[h] = Idle
  BY DEF WriteNode
<1>3. ASSUME NEW g \in Handlers, g # h
      PROVE  req'[g] = req[g] \/ Lost(req[g], req'[g])
  <2>1. CASE req[g].op \in {"claim", "pass"} /\ req[g].row = t
    <3>1. req[g] \in Request \cup {Idle}
      BY DEF TypeOK
    <3>2. req[g] # Idle
      BY <2>1 DEF Idle
    <3>3. req[g] \in NodeRequest
      BY <2>1, <3>1, <3>2, Requested
    <3>4. req'[g] = [req[g] EXCEPT !.fresh = FALSE]
      BY <1>3, <2>1 DEF WriteNode
    <3> QED BY <3>3, <3>4, LostIs
  <2>2. CASE ~(req[g].op \in {"claim", "pass"} /\ req[g].row = t)
    BY <1>3, <2>2 DEF WriteNode
  <2> QED BY <2>1, <2>2
<1>4. ASSUME NEW g \in Handlers PROVE req'[g] \in Request \cup {Idle}
  <2>1. req[g] \in Request \cup {Idle}
    BY DEF TypeOK
  <2> QED BY <1>2, <1>3, <2>1, RequestsAre DEF Lost
<1>5. req' \in [Handlers -> Request \cup {Idle}]
  <2>1. DOMAIN req' = Handlers /\ req' = [g \in Handlers |-> req'[g]]
    BY DEF WriteNode
  <2> QED BY <1>4, <2>1
<1>6. late \subseteq late' /\ late' \subseteq Agents
  BY DEF WriteNode, Missed, TypeOK
<1> QED BY <1>1, <1>2, <1>3, <1>5, <1>6

\* A request is for its operation.
LEMMA AtRequest ==
  ASSUME TypeOK, NEW h \in Handlers, req[h] # Idle
  PROVE  req[h] \in Request
BY DEF TypeOK

\* Rows are created of their types.
LEMMA CreatesTyped == TypeOK /\ Creates => TypeOK'
<1>1. ASSUME TypeOK, NEW r \in Rows, NEW p \in Workspaces \cup Projects, CreateRow(r, p)
      PROVE  TypeOK'
  BY <1>1, InsertTyped, PairsTyped DEF CreateRow, TypeOK, nameVars, txVars
<1>2. ASSUME TypeOK, NEW m \in Memories, NEW w \in Workspaces, NEW t \in Tasks \cup {None},
             CreateMemory(m, w, t)
      PROVE  TypeOK'
  <2>1. source' \in [Memories -> Tasks \cup {None}] /\ free' \subseteq Tasks \cup Memories
    BY <1>2 DEF CreateMemory, TypeOK
  <2>2. m \in Rows
    BY DEF Rows
  <2> QED BY <1>2, <2>1, <2>2, InsertTyped, PairsTyped DEF CreateMemory, TypeOK, txVars
<1> QED BY <1>1, <1>2 DEF Creates, CreateAgent, CreateProject, CreateSkill, CreateMcpServer,
           CreateGitCredential, ImportWorkflow, Rows

\* A deletion takes the pairs of what it takes with it.
LEMMA GoesTyped ==
  ASSUME TypeOK, NEW r, Goes(r)
  PROVE  /\ live' \subseteq live
         /\ parent' = parent /\ req' = req /\ free' = free
         /\ links' \subseteq (Agents \cap live') \X ((Skills \cup Servers) \cap live')
         /\ lists' \subseteq Lists \X (Projects \cap live') \X (Agents \cap live')
         /\ usage' \subseteq (Tasks \cap live') \X (Agents \cap live')
<1> USE DEF TypeOK, Goes
<1>1. links' \subseteq (Agents \cap live') \X ((Skills \cup Servers) \cap live')
  OBVIOUS
<1>2. lists' \subseteq Lists \X (Projects \cap live') \X (Agents \cap live')
  OBVIOUS
<1>3. usage' \subseteq (Tasks \cap live') \X (Agents \cap live')
  OBVIOUS
<1>4. live' \subseteq live /\ parent' = parent /\ req' = req /\ free' = free
  OBVIOUS
<1> QED BY <1>1, <1>2, <1>3, <1>4

\* A statement counts, and locks rows.
LEMMA StatementTyped ==
  ASSUME TypeOK, NEW x \in Agents \cup Projects, going[x] \in {0, 1},
         NEW rows \in SUBSET (Templates \cup Tasks \cup Memories), Statement(x, rows)
  PROVE  /\ going' \in [Agents \cup Projects -> 0..2]
         /\ locked' \in [Agents \cup Projects -> SUBSET (Templates \cup Tasks \cup Memories)]
<1>1. going[x] + 1 \in 0..2
  OBVIOUS
<1>2. going' \in [Agents \cup Projects -> 0..2]
  BY <1>1 DEF TypeOK, Statement
<1>3. locked' \in [Agents \cup Projects -> SUBSET (Templates \cup Tasks \cup Memories)]
  BY DEF TypeOK, Statement
<1> QED BY <1>2, <1>3

\* The end of a transaction forgets both.
LEMMA EndsTyped ==
  ASSUME TypeOK, NEW x \in Agents \cup Projects, Ends(x)
  PROVE  /\ going' \in [Agents \cup Projects -> 0..2]
         /\ locked' \in [Agents \cup Projects -> SUBSET (Templates \cup Tasks \cup Memories)]
BY DEF TypeOK, Ends

\* No deletion leaves a pair, or a name, of the wrong type.
LEMMA DeletesTyped == TypeOK /\ Deletes => TypeOK'
<1>1. ASSUME TypeOK, NEW x \in Agents \cup Projects, going[x] \in {0, 1},
             NEW rows \in SUBSET (Templates \cup Tasks \cup Memories), Statement(x, rows),
             late' \subseteq Agents
      PROVE  TypeOK'
  <2>1. /\ going' \in [Agents \cup Projects -> 0..2]
        /\ locked' \in [Agents \cup Projects -> SUBSET (Templates \cup Tasks \cup Memories)]
    BY <1>1, StatementTyped
  <2> QED BY <1>1, <2>1 DEF Statement, TypeOK, rowVars, nameVars, pairVars
<1>2. ASSUME TypeOK, NEW a \in Agents, DeleteAgent(a) \/ ClearTaskNodes(a) PROVE TypeOK'
  <2>1. /\ TemplatesNaming(a) \in SUBSET (Templates \cup Tasks \cup Memories)
        /\ TasksNaming(a) \in SUBSET (Templates \cup Tasks \cup Memories)
    BY DEF TemplatesNaming, TasksNaming
  <2>2. late' \subseteq Agents
    BY <1>2 DEF DeleteAgent, ClearTaskNodes, TypeOK
  <2> QED BY <1>1, <1>2, <2>1, <2>2 DEF DeleteAgent, ClearTaskNodes
<1>3. ASSUME TypeOK, NEW p \in Projects, DeleteProject(p) PROVE TypeOK'
  <2>1. MemoriesFrom(p) \in SUBSET (Templates \cup Tasks \cup Memories)
    BY DEF MemoriesFrom
  <2>2. late' \subseteq Agents
    BY <1>3 DEF DeleteProject, TypeOK
  <2> QED BY <1>1, <1>3, <2>1, <2>2 DEF DeleteProject
<1>4. ASSUME TypeOK, NEW a \in Agents, CommitAgent(a) PROVE TypeOK'
  <2>1. tmplNode' \in [Templates -> TemplateNode]
    <3>1. NoTemplateNode \in TemplateNode
      BY DEF NoTemplateNode, TemplateNode, Id
    <3> QED BY <1>4, <3>1 DEF CommitAgent, TypeOK
  <2>2. node' \in [Tasks -> TaskNode]
    <3>1. NoTaskNode \in TaskNode
      BY DEF NoTaskNode, TaskNode, Id
    <3> QED BY <1>4, <3>1 DEF CommitAgent, TypeOK
  <2>3. late' \subseteq Agents
    BY <1>4 DEF CommitAgent, TypeOK
  <2>4. /\ going' \in [Agents \cup Projects -> 0..2]
        /\ locked' \in [Agents \cup Projects -> SUBSET (Templates \cup Tasks \cup Memories)]
    BY <1>4, EndsTyped DEF CommitAgent
  <2> QED BY <1>4, <2>1, <2>2, <2>3, <2>4, GoesTyped DEF CommitAgent, TypeOK
<1>5. ASSUME TypeOK, NEW p \in Projects, CommitProject(p) PROVE TypeOK'
  <2>1. source' \in [Memories -> Tasks \cup {None}]
    BY <1>5 DEF CommitProject, TypeOK
  <2>2. /\ going' \in [Agents \cup Projects -> 0..2]
        /\ locked' \in [Agents \cup Projects -> SUBSET (Templates \cup Tasks \cup Memories)]
    BY <1>5, EndsTyped DEF CommitProject
  <2> QED BY <1>5, <2>1, <2>2, GoesTyped DEF CommitProject, TypeOK
<1>6. ASSUME TypeOK, NEW x \in Agents \cup Projects, Rollback(x) PROVE TypeOK'
  <2>1. /\ going' \in [Agents \cup Projects -> 0..2]
        /\ locked' \in [Agents \cup Projects -> SUBSET (Templates \cup Tasks \cup Memories)]
    BY <1>6, EndsTyped DEF Rollback
  <2> QED BY <1>6, <2>1 DEF Rollback, TypeOK, rowVars, nameVars, pairVars
<1>7. ASSUME TypeOK, NEW r, DeleteRow(r) PROVE TypeOK'
  BY <1>7, GoesTyped DEF DeleteRow, Delete, nameVars, txVars, TypeOK
<1> QED BY <1>2, <1>3, <1>4, <1>5, <1>6, <1>7 DEF Deletes, DeleteWorkspace,
           DeleteWorkflowTemplate, DeleteSkill, DeleteMcpServer, DeleteMemory

\* Nor does a pair that is added or removed.
LEMMA LinksTyped == TypeOK /\ Links => TypeOK'
<1> USE DEF TypeOK, rowVars, nameVars, txVars
<1>1. ASSUME TypeOK, NEW a, NEW s, RemoveLink(a, s) PROVE TypeOK'
  BY <1>1 DEF RemoveLink
<1>2. ASSUME TypeOK, NEW l \in Lists, NEW p \in Projects, NEW a \in Agents, AddToList(l, p, a)
      PROVE  TypeOK'
  BY <1>2 DEF AddToList
<1>3. ASSUME TypeOK, NEW l, NEW p, NEW a, RemoveFromList(l, p, a) PROVE TypeOK'
  BY <1>3 DEF RemoveFromList
<1> HIDE DEF TypeOK
<1> QED BY <1>1, <1>2, <1>3 DEF Links, RemoveSkill, RemoveMcpServer, AddProjectMember,
           AddProjectReviewer, RemoveProjectMember, RemoveProjectReviewer, Lists

\* What a request is when it begins.
LEMMA RequestsOpen ==
  ASSUME TypeOK, NEW h \in Handlers, Requests(h)
  PROVE  /\ \E r \in Request : Opens(h, r)
         /\ UNCHANGED <<rowVars, nameVars, pairVars, free, late, txVars>>
<1>1. NoTemplateNode \in TemplateNode
  BY DEF NoTemplateNode, TemplateNode, Id
<1>2. ASSUME NEW m \in Templates, NEW w \in Workspaces, NEW n \in TemplateNode,
             CreateWorkflowTemplate(h, m, w, n) \/ UpdateWorkflowTemplate(h, m, w, n)
      PROVE  \E r \in Request : Opens(h, r)
  <2>1. \A op \in {"create", "replace"} : [op |-> op, row |-> m, in |-> w, node |-> n] \in Request
    BY RequestsAre DEF TemplateRequest
  <2> QED BY <1>2, <2>1 DEF CreateWorkflowTemplate, UpdateWorkflowTemplate
<1>3. ASSUME NEW t \in Tasks, NEW p \in Projects, NEW m \in Templates, NEW w \in Workspaces,
             CreateTask(h, t, p, m, w)
      PROVE  \E r \in Request : Opens(h, r)
  <2>1. [op |-> "list", row |-> t, in |-> p, from |-> m, node |-> NoTemplateNode] \in Request
    BY <1>1, RequestsAre DEF TaskRequest
  <2> QED BY <1>3, <2>1 DEF CreateTask
<1>4. ASSUME NEW t \in Tasks, NEW a \in Id, Claim(h, a, t) \/ ReadNode(h, a, t)
      PROVE  \E r \in Request : Opens(h, r)
  <2>1. node[t] \in TaskNode
    BY DEF TypeOK
  <2>2. \A op \in {"claim", "pass"} :
          [op |-> op, row |-> t, who |-> a, node |-> node[t], fresh |-> TRUE] \in Request
    BY <2>1, RequestsAre DEF NodeRequest
  <2> QED BY <1>4, <2>2 DEF Claim, ReadNode
<1>5. ASSUME NEW t \in Tasks, NEW a \in Agents, ReportTokenUsage(h, a, t)
      PROVE  \E r \in Request : Opens(h, r)
  <2>1. [op |-> "report", who |-> a, row |-> t] \in Request
    BY RequestsAre DEF ReportRequest
  <2> QED BY <1>5, <2>1 DEF ReportTokenUsage
<1>6. ASSUME NEW t \in Tasks, NEW c \in Comments, NEW n \in Tasks, CreateComment(h, c, t, n)
      PROVE  \E r \in Request : Opens(h, r)
  <2>1. [op |-> "comment", row |-> c, in |-> t, about |-> n] \in Request
    BY RequestsAre DEF CommentRequest
  <2> QED BY <1>6, <2>1 DEF CreateComment
<1>7. ASSUME NEW a \in Agents, NEW s \in Skills \cup Servers,
             AddSkill(h, a, s) \/ AddMcpServer(h, a, s)
      PROVE  \E r \in Request : Opens(h, r)
  <2>1. [op |-> "link", who |-> a, to |-> s] \in Request
    BY RequestsAre DEF LinkRequest
  <2> QED BY <1>7, <2>1 DEF AddSkill, AddMcpServer
<1>8. \E r \in Request : Opens(h, r)
  BY <1>2, <1>3, <1>4, <1>5, <1>6, <1>7 DEF Requests, Id
<1>9. UNCHANGED <<rowVars, nameVars, pairVars, free, late, txVars>>
  BY DEF Requests, CreateWorkflowTemplate, UpdateWorkflowTemplate, CreateTask, Claim,
         ReadNode, ReportTokenUsage, CreateComment, AddSkill, AddMcpServer
<1> QED BY <1>8, <1>9

\* The rows are those there are, or one that a request has made is there too.
LEMMA MadeTyped ==
  ASSUME TypeOK, NEW r, r.row \in Rows, r.in \in Workspaces \cup Projects \cup Tasks,
         Insert(r.row, r.in) \/ UNCHANGED rowVars
  PROVE  /\ live' \subseteq Rows \cup Workspaces
         /\ parent' \in [Rows -> Workspaces \cup Projects \cup Tasks \cup {None}]
         /\ live \subseteq live'
BY InsertTyped DEF TypeOK, rowVars

\* Nor does the second half of a request, whatever was deleted since the first.
LEMMA WritesTyped ==
  ASSUME TypeOK, NEW h \in Handlers, req[h] # Idle, Writes(h)
  PROVE  TypeOK'
<1> PICK r \in Request : r = req[h]
  BY AtRequest
<1>1. CASE InsertTemplate(h)
  <2>1. r.row \in Templates /\ r.in \in Workspaces /\ r.node \in TemplateNode
    BY <1>1, Requested DEF InsertTemplate, TemplateRequest
  <2>2. tmplNode' \in [Templates -> TemplateNode]
    BY <1>1, <2>1 DEF InsertTemplate, TypeOK
  <2>3. Insert(r.row, r.in) \/ UNCHANGED rowVars
    BY <1>1 DEF InsertTemplate
  <2> QED BY <1>1, <2>1, <2>2, <2>3, MadeTyped, PairsTyped, AnswersTyped
          DEF InsertTemplate, TypeOK, Rows, Missed, txVars
<1>2. CASE ReplaceTemplateNodes(h)
  <2>1. r.node \in TemplateNode
    BY <1>2, Requested DEF ReplaceTemplateNodes, TemplateRequest
  <2>2. tmplNode' \in [Templates -> TemplateNode]
    BY <1>2, <2>1 DEF ReplaceTemplateNodes, TypeOK
  <2> QED BY <1>2, <2>2, AnswersTyped
          DEF ReplaceTemplateNodes, TypeOK, rowVars, pairVars, Missed, txVars
<1>3. CASE ListTemplateNodes(h)
  <2>1. r \in TaskRequest
    BY <1>3, Requested DEF ListTemplateNodes
  <2>2. PICK n \in TemplateNode : n = IF r.from \in live THEN tmplNode[r.from] ELSE NoTemplateNode
    BY <2>1 DEF TypeOK, TaskRequest, NoTemplateNode, TemplateNode, Id
  <2>3. [r EXCEPT !.op = "insert", !.node = n] \in TaskRequest
    BY <2>1, <2>2 DEF TaskRequest
  <2>4. req' = [req EXCEPT ![h] = [r EXCEPT !.op = "insert", !.node = n]]
    BY <1>3, <2>2 DEF ListTemplateNodes, TypeOK
  <2>5. req' \in [Handlers -> Request \cup {Idle}]
    BY <2>3, <2>4, RequestsAre DEF TypeOK
  <2> QED BY <1>3, <2>5 DEF ListTemplateNodes, TypeOK, rowVars, nameVars, pairVars, txVars
<1>4. CASE InsertTask(h)
  <2>1. r.row \in Tasks /\ r.in \in Projects /\ r.node.assignee \in Id
    BY <1>4, Requested DEF InsertTask, TaskRequest, TemplateNode, Id
  <2>2. [assignee |-> r.node.assignee, reserved |-> r.node.assignee, by |-> None] \in TaskNode
    BY <2>1 DEF TaskNode, Id
  <2>3. node' \in [Tasks -> TaskNode] /\ free' \subseteq Tasks \cup Memories
    BY <1>4, <2>1, <2>2 DEF InsertTask, TypeOK
  <2>4. Insert(r.row, r.in) \/ UNCHANGED rowVars
    BY <1>4 DEF InsertTask
  <2> QED BY <1>4, <2>1, <2>3, <2>4, MadeTyped, PairsTyped, AnswersTyped
          DEF InsertTask, TypeOK, Rows, Missed, txVars
<1>5. ASSUME NEW t \in Tasks, NEW n \in TaskNode,
             WriteNode(h, t, n) \/ (Answers(h) /\ UNCHANGED <<node, late>>),
             UNCHANGED <<rowVars, tmplNode, about, source, pairVars, free, txVars>>
      PROVE  TypeOK'
  <2>1. /\ node' \in [Tasks -> TaskNode] /\ req' \in [Handlers -> Request \cup {Idle}]
        /\ late' \subseteq Agents
    BY <1>5, WriteNodeIs, AnswersTyped DEF TypeOK
  <2> QED BY <1>5, <2>1 DEF TypeOK, rowVars, pairVars, txVars
<1>6. CASE ClaimTaskNode(h)
  <2>1. r.row \in Tasks /\ r.who \in Id
    BY <1>6, Requested DEF ClaimTaskNode, NodeRequest
  <2>2. /\ node[r.row] \in TaskNode
        /\ [node[r.row] EXCEPT !.assignee = r.who, !.reserved = r.who] \in TaskNode
    BY <2>1 DEF TypeOK, TaskNode
  <2> QED BY <1>5, <1>6, <2>1, <2>2 DEF ClaimTaskNode
<1>7. CASE UpdateTaskNode(h)
  <2>1. r.row \in Tasks /\ r.who \in Id /\ r.node \in TaskNode
    BY <1>7, Requested DEF UpdateTaskNode, NodeRequest
  <2>2. \A a \in {None, r.node.assignee}, v \in {None, r.node.reserved, r.node.assignee},
           b \in {None, r.node.by, r.node.assignee, r.who} :
          [assignee |-> a, reserved |-> v, by |-> b] \in TaskNode
    BY <2>1 DEF TaskNode, Id
  <2>3. node[r.row] \in TaskNode
    BY <2>1 DEF TypeOK
  <2>4. \E n \in TaskNode : WriteNode(h, r.row, n) \/ (Answers(h) /\ UNCHANGED <<node, late>>)
    BY <1>7, <2>2, <2>3 DEF UpdateTaskNode
  <2> QED BY <1>5, <1>7, <2>1, <2>4 DEF UpdateTaskNode
<1>8. CASE CreateTokenUsage(h)
  <2>1. r.row \in Tasks /\ r.who \in Agents
    BY <1>8, Requested DEF CreateTokenUsage, ReportRequest
  <2>2. usage' \subseteq (Tasks \cap live) \X (Agents \cap live)
    BY <1>8, <2>1 DEF CreateTokenUsage, TypeOK
  <2> QED BY <1>8, <2>2, AnswersTyped DEF CreateTokenUsage, TypeOK, rowVars, nameVars, txVars
<1>9. CASE InsertComment(h)
  <2>1. r.row \in Comments /\ r.in \in Tasks /\ r.about \in Tasks
    BY <1>9, Requested DEF InsertComment, CommentRequest
  <2>2. about' \in [Comments -> Tasks \cup {None}]
    BY <1>9, <2>1 DEF InsertComment, TypeOK
  <2>3. Insert(r.row, r.in) \/ UNCHANGED rowVars
    BY <1>9 DEF InsertComment
  <2> QED BY <1>9, <2>1, <2>2, <2>3, MadeTyped, PairsTyped, AnswersTyped
          DEF InsertComment, TypeOK, Rows, txVars
<1>10. CASE InsertLink(h)
  <2>1. r.who \in Agents /\ r.to \in Skills \cup Servers
    BY <1>10, Requested DEF InsertLink, LinkRequest
  <2>2. links' \subseteq (Agents \cap live) \X ((Skills \cup Servers) \cap live)
    BY <1>10, <2>1 DEF InsertLink, Linked, TypeOK
  <2> QED BY <1>10, <2>2, AnswersTyped DEF InsertLink, TypeOK, rowVars, nameVars, txVars
<1> QED BY <1>1, <1>2, <1>3, <1>4, <1>6, <1>7, <1>8, <1>9, <1>10 DEF Writes

\* At first there are the workspaces alone.
LEMMA InitTypes == Init => TypeOK
BY DEF Init, TypeOK, NoTemplateNode, TemplateNode, NoTaskNode, TaskNode, Id

\* So every step keeps the types.
LEMMA NextTypes == TypeOK /\ [Next]_vars => TypeOK'
<1> SUFFICES ASSUME TypeOK, [Next]_vars PROVE TypeOK'
  OBVIOUS
<1>1. CASE UNCHANGED vars
  BY <1>1 DEF vars, rowVars, nameVars, pairVars, txVars, TypeOK
<1>2. ASSUME NEW h \in Handlers, Requests(h) PROVE TypeOK'
  BY <1>2, RequestsOpen, OpensTyped DEF TypeOK, rowVars, nameVars, pairVars, txVars
<1>3. CASE Next
  BY <1>2, <1>3, CreatesTyped, DeletesTyped, LinksTyped, WritesTyped DEF Next
<1> QED BY <1>1, <1>3

\* What there is to know of a row has its type, and pairs are of rows that are there:
\* agent_skills, agent_mcp_servers, project_members, project_reviewers and token_usage
\* never hold a row that was deleted while a request was between its look and its write.
THEOREM TypeCorrect == Spec => []TypeOK
<1>1. Init => TypeOK
  BY InitTypes
<1>2. TypeOK /\ [Next]_vars => TypeOK'
  BY NextTypes
<1> QED BY <1>1, <1>2, PTL DEF Spec

-----------------------------------------------------------------------------
(* Rows.                                                                   *)

\* Where a row of each kind may belong.
Places(r) ==
  IF r \in Tasks \cup Credentials THEN Projects
  ELSE IF r \in Comments THEN Tasks
  ELSE Workspaces

\* What is there belongs to what is there.
Tree ==
  \A r \in Rows :
    /\ parent[r] \in Places(r) \cup {None}
    /\ r \in live => parent[r] \in live
    /\ parent[r] \in Rows => parent[parent[r]] # None

\* The ids of rows to come are with one request each.
Making == {"create", "list", "insert", "comment"}
Reserved ==
  \A h \in Handlers : req[h].op \in Making =>
    /\ parent[req[h].row] = None
    /\ \A g \in Handlers : req[g].op \in Making /\ req[g].row = req[h].row => g = h

\* What a step may do to the rows that there are.
Stays      == UNCHANGED rowVars
Adds(r, p) ==
  /\ r \in Rows /\ p \in live /\ p \in Places(r)
  /\ parent[r] = None
  /\ parent' = [parent EXCEPT ![r] = p]
  /\ live' = live \cup {r}
Removes(r) ==
  /\ r # None
  /\ parent' = parent
  /\ live' = live \ ({r} \cup Below(r))

\* Whatever it does, a row belongs where it did, and only a new one appears.
Steady ==
  /\ \A x \in Rows : parent[x] # None => parent'[x] = parent[x]
  /\ \A x \in live' \ live : x \in Rows /\ parent[x] = None

\* What is above a row, step by step.
LEMMA UpIs ==
  ASSUME TypeOK
  PROVE  /\ \A x \in Rows : Up(x) = parent[x]
         /\ \A x \in Workspaces \cup {None} : Up(x) = None
BY KindsApart DEF Up, TypeOK

\* Nothing is four levels below another row.
LEMMA Shallow ==
  ASSUME TypeOK, Tree, NEW x \in Rows
  PROVE  Up(Up(Up(Up(x)))) = None
<1>1. ASSUME NEW y \in Rows, Places(y) = Workspaces
      PROVE  Up(Up(y)) = None
  BY <1>1, UpIs DEF Tree
<1>2. ASSUME NEW y \in Rows, Places(y) = Projects
      PROVE  Up(Up(Up(y))) = None
  <2>1. parent[y] \in Projects \cup {None} /\ Up(y) = parent[y]
    BY <1>2, UpIs DEF Tree
  <2>2. \A p \in Projects : p \in Rows /\ Places(p) = Workspaces
    BY KindsApart DEF Places, Rows
  <2> QED BY <1>1, <2>1, <2>2, UpIs
<1>3. ASSUME NEW y \in Rows, Places(y) = Tasks
      PROVE  Up(Up(Up(Up(y)))) = None
  <2>1. parent[y] \in Tasks \cup {None} /\ Up(y) = parent[y]
    BY <1>3, UpIs DEF Tree
  <2>2. \A t \in Tasks : t \in Rows /\ Places(t) = Projects
    BY KindsApart DEF Places, Rows
  <2> QED BY <1>2, <2>1, <2>2, UpIs
<1> QED BY <1>1, <1>2, <1>3, UpIs DEF Places

\* Adding a row below one that is there, and removing all below one, keep the tree.
LEMMA TreeKept ==
  ASSUME TypeOK, Tree, Stays \/ (\E r, p : Adds(r, p)) \/ \E r : Removes(r)
  PROVE  Tree' /\ Steady
<1>1. CASE Stays
  BY <1>1 DEF Stays, Tree, Steady, Places, rowVars
<1>2. ASSUME NEW r, NEW p, Adds(r, p) PROVE Tree' /\ Steady
  <2>1. /\ r \in Rows /\ p \in live /\ p \in Places(r) /\ parent[r] = None
        /\ live' = live \cup {r}
        /\ parent'[r] = p
        /\ \A x \in Rows : x # r => parent'[x] = parent[x]
    BY <1>2 DEF Adds, TypeOK
  <2>2. Steady
    BY <2>1 DEF Steady
  <2>3. None \notin live
    BY KindsApart DEF TypeOK
  <2>4. r \notin live
    BY <2>1, <2>3 DEF Tree
  <2>5. ASSUME NEW x \in Rows
        PROVE  /\ parent'[x] \in Places(x) \cup {None}
               /\ x \in live' => parent'[x] \in live'
               /\ parent'[x] \in Rows => parent'[parent'[x]] # None
    <3>1. CASE x = r
      BY <2>1, <2>3, <2>4, <3>1 DEF Tree
    <3>2. CASE x # r
      BY <2>1, <3>2 DEF Tree
    <3> QED BY <3>1, <3>2
  <2> QED BY <2>2, <2>5 DEF Tree, Places
<1>3. ASSUME NEW r, Removes(r) PROVE Tree' /\ Steady
  <2>1. parent' = parent /\ live' = live \ ({r} \cup Below(r))
    BY <1>3 DEF Removes
  <2>2. r # None
    BY <1>3 DEF Removes
  <2>3. ASSUME NEW x \in Rows, x \in live'
        PROVE  parent[x] \in live'
    <3>1. parent[x] \in live /\ Up(x) = parent[x] /\ x \in DOMAIN parent
      BY <2>1, <2>3, UpIs DEF Tree, TypeOK
    <3>2. r # Up(x) /\ r # Up(Up(x)) /\ r # Up(Up(Up(x))) /\ r # Up(Up(Up(Up(x))))
      BY <2>1, <2>2, <2>3, <3>1, Shallow DEF Below
    <3>3. parent[x] \notin Below(r)
      BY <3>1, <3>2 DEF Below
    <3> QED BY <2>1, <3>1, <3>2, <3>3
  <2> QED BY <2>1, <2>3 DEF Tree, Steady, Places
<1> QED BY <1>1, <1>2, <1>3

\* What is written for a request was to be made by it.
LEMMA InsertAdds ==
  ASSUME TypeOK, NEW r \in Rows, NEW p \in Places(r), parent[r] = None, Insert(r, p)
  PROVE  Adds(r, p)
BY DEF Insert, Adds

\* A new id is nobody's yet.
LEMMA NewIs ==
  ASSUME TypeOK, NEW r \in Rows, New(r)
  PROVE  /\ parent[r] = None
         /\ \A h \in Handlers : req[h].op \in Making => req[h].row # r
BY DEF New, Taken, TypeOK, Making

\* Where the rows are put is where they may be.
LEMMA PlacesAre ==
  /\ \A r \in Agents \cup Templates \cup Projects \cup Skills \cup Servers \cup Memories :
       r \in Rows /\ Places(r) = Workspaces
  /\ \A r \in Tasks \cup Credentials : r \in Rows /\ Places(r) = Projects
  /\ \A r \in Comments : r \in Rows /\ Places(r) = Tasks
BY KindsApart DEF Places, Rows

\* What there is of rows when a creation ends.
LEMMA CreatesAdd ==
  ASSUME TypeOK, Creates
  PROVE  /\ \E r, p : Adds(r, p) /\ New(r) /\ r \notin Comments
         /\ UNCHANGED <<tmplNode, node, about, pairVars, req, late, txVars>>
         /\ free \subseteq free'
<1>1. ASSUME NEW r \in Rows, NEW p \in Places(r), CreateRow(r, p), r \notin Comments
      PROVE  /\ \E x, y : Adds(x, y) /\ New(x) /\ x \notin Comments
             /\ UNCHANGED <<tmplNode, node, about, pairVars, req, late, txVars>>
             /\ free \subseteq free'
  BY <1>1, InsertAdds, NewIs DEF CreateRow, nameVars
<1>2. ASSUME NEW m \in Memories, NEW w \in Workspaces, NEW t, CreateMemory(m, w, t)
      PROVE  /\ \E x, y : Adds(x, y) /\ New(x) /\ x \notin Comments
             /\ UNCHANGED <<tmplNode, node, about, pairVars, req, late, txVars>>
             /\ free \subseteq free'
  <2>1. m \in Rows /\ w \in Places(m) /\ m \notin Comments
    BY KindsApart, PlacesAre
  <2>2. free \subseteq free'
    BY <1>2 DEF CreateMemory
  <2> QED BY <1>2, <2>1, <2>2, InsertAdds, NewIs DEF CreateMemory
<1>3. CASE \E w \in Workspaces :
             \/ \E a \in Agents : CreateRow(a, w)
             \/ \E p \in Projects : CreateRow(p, w)
             \/ \E s \in Skills : CreateRow(s, w)
             \/ \E s \in Servers : CreateRow(s, w)
             \/ \E m \in Templates : CreateRow(m, w)
  <2>1. \A r \in Agents \cup Projects \cup Skills \cup Servers \cup Templates :
          r \in Rows /\ Places(r) = Workspaces /\ r \notin Comments
    BY KindsApart, PlacesAre
  <2> QED BY <1>1, <1>3, <2>1
<1>4. CASE \E c \in Credentials, p \in Projects : CreateRow(c, p)
  <2>1. \A r \in Credentials : r \in Rows /\ Places(r) = Projects /\ r \notin Comments
    BY KindsApart, PlacesAre
  <2> QED BY <1>1, <1>4, <2>1
<1> QED BY <1>2, <1>3, <1>4 DEF Creates, CreateAgent, CreateProject, CreateSkill,
           CreateMcpServer, CreateGitCredential, ImportWorkflow

\* And when a request ends.
LEMMA WritesAdd ==
  ASSUME TypeOK, Reserved, NEW h \in Handlers, req[h] # Idle, Writes(h)
  PROVE  Stays \/ (req[h].op \in Making /\ \E p : Adds(req[h].row, p))
<1> PICK r \in Request : r = req[h]
  BY AtRequest
<1>1. CASE InsertTemplate(h)
  <2>1. r.row \in Rows /\ r.in \in Places(r.row) /\ r.op \in Making
    BY <1>1, Requested, PlacesAre DEF InsertTemplate, TemplateRequest, Making
  <2> QED BY <1>1, <2>1, InsertAdds DEF InsertTemplate, Reserved, Stays
<1>2. CASE InsertTask(h)
  <2>1. r.row \in Rows /\ r.in \in Places(r.row) /\ r.op \in Making
    BY <1>2, Requested, PlacesAre DEF InsertTask, TaskRequest, Making
  <2> QED BY <1>2, <2>1, InsertAdds DEF InsertTask, Reserved, Stays
<1>3. CASE InsertComment(h)
  <2>1. r.row \in Rows /\ r.in \in Places(r.row) /\ r.op \in Making
    BY <1>3, Requested, PlacesAre DEF InsertComment, CommentRequest, Making
  <2> QED BY <1>3, <2>1, InsertAdds DEF InsertComment, Reserved, Stays
<1>4. CASE \/ ReplaceTemplateNodes(h) \/ ListTemplateNodes(h) \/ ClaimTaskNode(h)
           \/ UpdateTaskNode(h) \/ CreateTokenUsage(h) \/ InsertLink(h)
  BY <1>4 DEF Stays, ReplaceTemplateNodes, ListTemplateNodes, ClaimTaskNode,
              UpdateTaskNode, CreateTokenUsage, InsertLink
<1> QED BY <1>1, <1>2, <1>3, <1>4 DEF Writes

\* A step that others do not see.
Quietly == UNCHANGED <<rowVars, nameVars, pairVars, req, free>>

\* What a step of a deletion does to the rows, and for whom.
LEMMA DeletesAre ==
  ASSUME TypeOK, Deletes
  PROVE  \/ Quietly /\ \E a \in Agents : DeleteAgent(a)
         \/ Quietly /\ late' = late
         \/ \E a \in Agents : CommitAgent(a) /\ Removes(a)
         \/ \E p \in Projects : CommitProject(p) /\ Removes(p)
         \/ \E r \in (Rows \cup Workspaces) \ (Agents \cup Projects \cup Tasks) :
              DeleteRow(r) /\ Removes(r)
<1>1. None \notin Rows \cup Workspaces
  BY KindsApart
<1>2. ASSUME NEW a \in Agents, DeleteAgent(a) \/ ClearTaskNodes(a) \/ Rollback(a)
      PROVE  Quietly /\ (DeleteAgent(a) \/ late' = late)
  BY <1>2 DEF DeleteAgent, ClearTaskNodes, Rollback, Statement, Quietly
<1>3. ASSUME NEW p \in Projects, DeleteProject(p) \/ Rollback(p)
      PROVE  Quietly /\ late' = late
  BY <1>3 DEF DeleteProject, Rollback, Statement, Quietly
<1>4. ASSUME NEW a \in Agents, CommitAgent(a) PROVE Removes(a)
  BY <1>1, <1>4 DEF CommitAgent, Goes, Removes, Rows
<1>5. ASSUME NEW p \in Projects, CommitProject(p) PROVE Removes(p)
  BY <1>1, <1>5 DEF CommitProject, Goes, Removes, Rows
<1>6. ASSUME NEW r \in Rows \cup Workspaces, DeleteRow(r) PROVE Removes(r)
  BY <1>1, <1>6 DEF DeleteRow, Delete, Goes, Removes
<1>7. Workspaces \cup Templates \cup Skills \cup Servers \cup Memories
        \subseteq (Rows \cup Workspaces) \ (Agents \cup Projects \cup Tasks)
  BY KindsApart DEF Rows
<1>8. \/ \E a \in Agents : DeleteAgent(a) \/ ClearTaskNodes(a) \/ Rollback(a)
      \/ \E a \in Agents : CommitAgent(a)
      \/ \E p \in Projects : DeleteProject(p) \/ Rollback(p)
      \/ \E p \in Projects : CommitProject(p)
      \/ \E r \in Workspaces \cup Templates \cup Skills \cup Servers \cup Memories : DeleteRow(r)
  BY DEF Deletes, DeleteWorkspace, DeleteWorkflowTemplate, DeleteSkill, DeleteMcpServer,
         DeleteMemory
<1> QED BY <1>2, <1>3, <1>4, <1>5, <1>6, <1>7, <1>8

\* The end of an agent's deletion takes the agent.
LEMMA CommitsRemove ==
  ASSUME NEW a \in Agents, CommitAgent(a)
  PROVE  Removes(a)
BY KindsApart DEF CommitAgent, Goes, Removes, Rows

\* A deletion takes a row and all below it, when it ends.
LEMMA DeletesRemove ==
  ASSUME TypeOK, Deletes
  PROVE  /\ Stays \/ \E r : Removes(r)
         /\ parent' = parent /\ req' = req /\ free' = free
<1>1. ASSUME NEW r, Goes(r) PROVE parent' = parent /\ req' = req /\ free' = free
  BY <1>1 DEF Goes
<1> QED BY <1>1, DeletesAre DEF Quietly, Stays, rowVars, CommitAgent, CommitProject, DeleteRow,
           Delete

\* A pair that is added or removed leaves the rows and the requests as they are.
LEMMA LinksStay == Links => UNCHANGED <<rowVars, nameVars, req, free, late, txVars>>
BY DEF Links, RemoveSkill, RemoveMcpServer, RemoveLink, AddProjectMember, AddProjectReviewer,
       RemoveProjectMember, RemoveProjectReviewer, AddToList, RemoveFromList

\* So every step keeps the tree.
LEMMA NextTree ==
  ASSUME TypeOK, Tree, Reserved, Next
  PROVE  Tree' /\ Steady
<1>1. ASSUME NEW h \in Handlers, Requests(h) PROVE Stays
  BY <1>1, RequestsOpen DEF Stays
<1> QED BY <1>1, TreeKept, CreatesAdd, WritesAdd, DeletesRemove, LinksStay DEF Next, Stays

\* What a write leaves of the requests: its own has its answer, or the nodes it listed.
Listed(q, r) ==
  /\ {q, r} \subseteq TaskRequest
  /\ q.op = "list" /\ r.op = "insert" /\ r.row = q.row /\ r.in = q.in
  /\ r.node = IF q.from \in live THEN tmplNode[q.from] ELSE NoTemplateNode

\* A write answers its request or goes on with it, and the others stay or lose.
LEMMA WritesAnswer ==
  ASSUME TypeOK, NEW h \in Handlers, req[h] # Idle, Writes(h), NEW g \in Handlers
  PROVE  \/ req'[g] = Idle
         \/ g # h /\ req'[g] = req[g]
         \/ g # h /\ Lost(req[g], req'[g])
         \/ g = h /\ ListTemplateNodes(h) /\ Listed(req[g], req'[g])
<1> PICK r \in Request : r = req[h]
  BY AtRequest
<1>1. CASE Answers(h)
  BY <1>1 DEF Answers, TypeOK
<1>2. CASE ListTemplateNodes(h)
  <2>1. r \in TaskRequest /\ r.op = "list"
    BY <1>2, Requested DEF ListTemplateNodes
  <2>2. PICK n : n = IF r.from \in live THEN tmplNode[r.from] ELSE NoTemplateNode
    OBVIOUS
  <2>3. n \in TemplateNode
    BY <2>1, <2>2 DEF TypeOK, TaskRequest, NoTemplateNode, TemplateNode, Id
  <2>4. PICK q : q = [r EXCEPT !.op = "insert", !.node = n]
    OBVIOUS
  <2>5. /\ q \in TaskRequest /\ q.op = "insert" /\ q.row = r.row /\ q.in = r.in
        /\ q.node = n
    BY <2>1, <2>3, <2>4 DEF TaskRequest
  <2>6. req' = [req EXCEPT ![h] = q]
    BY <1>2, <2>2, <2>4 DEF ListTemplateNodes, TypeOK
  <2> QED BY <1>2, <2>1, <2>2, <2>5, <2>6 DEF Listed, TypeOK
<1>3. ASSUME NEW t \in Tasks, NEW n \in TaskNode, WriteNode(h, t, n)
      PROVE  req'[g] = Idle \/ (g # h /\ (req'[g] = req[g] \/ Lost(req[g], req'[g])))
  BY <1>3, WriteNodeIs
<1>4. CASE ClaimTaskNode(h)
  <2>1. r.row \in Tasks /\ r.who \in Id
    BY <1>4, Requested DEF ClaimTaskNode, NodeRequest
  <2>2. [node[r.row] EXCEPT !.assignee = r.who, !.reserved = r.who] \in TaskNode
    BY <2>1 DEF TypeOK, TaskNode
  <2> QED BY <1>1, <1>3, <1>4, <2>1, <2>2 DEF ClaimTaskNode
<1>5. CASE UpdateTaskNode(h)
  <2>1. r.row \in Tasks /\ r.who \in Id /\ r.node \in TaskNode
    BY <1>5, Requested DEF UpdateTaskNode, NodeRequest
  <2>2. \A a \in {None, r.node.assignee}, v \in {None, r.node.reserved, r.node.assignee},
           b \in {None, r.node.by, r.node.assignee, r.who} :
          [assignee |-> a, reserved |-> v, by |-> b] \in TaskNode
    BY <2>1 DEF TaskNode, Id
  <2>3. Answers(h) \/ \E n \in TaskNode : WriteNode(h, r.row, n)
    BY <1>5, <2>2 DEF UpdateTaskNode
  <2> QED BY <1>1, <1>3, <2>1, <2>3
<1>6. CASE \/ InsertTemplate(h) \/ ReplaceTemplateNodes(h) \/ InsertTask(h)
           \/ CreateTokenUsage(h) \/ InsertComment(h) \/ InsertLink(h)
  BY <1>1, <1>6 DEF InsertTemplate, ReplaceTemplateNodes, InsertTask, CreateTokenUsage,
                    InsertComment, InsertLink
<1> QED BY <1>2, <1>4, <1>5, <1>6 DEF Writes

\* What is being made is a row.
LEMMA MakingRows ==
  ASSUME TypeOK, NEW h \in Handlers, req[h].op \in Making
  PROVE  req[h].row \in Rows
<1>1. req[h] \in Request
  BY AtRequest DEF Idle, Making
<1> QED BY <1>1, Requested DEF Making, TemplateRequest, TaskRequest, CommentRequest, Rows

\* An id is reserved until its row is there, whatever others create.
LEMMA NextReserved ==
  ASSUME TypeOK, TypeOK', Reserved, Next
  PROVE  Reserved'
<1>1. CASE Creates
  <2>1. PICK r, p : Adds(r, p) /\ New(r)
    BY <1>1, CreatesAdd
  <2>2. r \in Rows /\ \A x \in Rows : x # r => parent'[x] = parent[x]
    BY <2>1 DEF Adds, TypeOK
  <2>3. req' = req /\ \A h \in Handlers : req[h].op \in Making => req[h].row # r
    BY <1>1, <2>1, <2>2, CreatesAdd, NewIs
  <2> QED BY <2>2, <2>3, MakingRows DEF Reserved
<1>2. CASE Deletes
  <2>1. parent' = parent /\ req' = req
    BY <1>2, DeletesRemove
  <2> QED BY <2>1 DEF Reserved
<1>3. CASE Links
  BY <1>3, LinksStay DEF Reserved, rowVars
<1>4. ASSUME NEW h \in Handlers, req[h] = Idle, Requests(h)
      PROVE  Reserved'
  <2>1. PICK r \in Request : Opens(h, r)
    BY <1>4, RequestsOpen
  <2>2. parent' = parent
    BY <1>4, RequestsOpen DEF rowVars
  <2>3. req'[h] = r /\ \A g \in Handlers : g # h => req'[g] = req[g]
    BY <2>1 DEF Opens, TypeOK
  <2>4. r.op \in Making => r.row \in Rows /\ New(r.row)
    <3> USE <2>1, <2>3
    <3>1. ASSUME NEW m \in Templates, NEW w, NEW n,
                 CreateWorkflowTemplate(h, m, w, n) \/ UpdateWorkflowTemplate(h, m, w, n)
          PROVE  r.op \in Making => r.row \in Rows /\ New(r.row)
      BY <3>1 DEF CreateWorkflowTemplate, UpdateWorkflowTemplate, Opens, Making, Rows, TypeOK
    <3>2. ASSUME NEW t \in Tasks, NEW p, NEW m, NEW w, CreateTask(h, t, p, m, w)
          PROVE  r.op \in Making => r.row \in Rows /\ New(r.row)
      BY <3>2 DEF CreateTask, Opens, Making, Rows, TypeOK
    <3>3. ASSUME NEW t \in Tasks, NEW a,
                 Claim(h, a, t) \/ ReportTokenUsage(h, a, t) \/ ReadNode(h, a, t)
          PROVE  r.op \in Making => r.row \in Rows /\ New(r.row)
      BY <3>3 DEF Claim, ReportTokenUsage, ReadNode, Opens, Making, TypeOK
    <3>4. ASSUME NEW t \in Tasks, NEW c \in Comments, NEW n, CreateComment(h, c, t, n)
          PROVE  r.op \in Making => r.row \in Rows /\ New(r.row)
      BY <3>4 DEF CreateComment, Opens, Making, Rows, TypeOK
    <3>5. ASSUME NEW a, NEW s, AddSkill(h, a, s) \/ AddMcpServer(h, a, s)
          PROVE  r.op \in Making => r.row \in Rows /\ New(r.row)
      BY <3>5 DEF AddSkill, AddMcpServer, Opens, Making, TypeOK
    <3> QED BY <1>4, <3>1, <3>2, <3>3, <3>4, <3>5 DEF Requests
  <2>5. r.op \in Making =>
          parent[r.row] = None /\ \A g \in Handlers : req[g].op \in Making => req[g].row # r.row
    BY <2>4, NewIs
  <2> QED BY <2>2, <2>3, <2>5 DEF Reserved
<1>5. ASSUME NEW h \in Handlers, req[h] # Idle, Writes(h)
      PROVE  Reserved'
  <2>1. ASSUME NEW g \in Handlers, req'[g].op \in Making
        PROVE  /\ req[g].op \in Making /\ req[g].row = req'[g].row
               /\ g = h => ListTemplateNodes(h)
    <3>1. req'[g] # Idle
      BY <2>1 DEF Idle, Making
    <3>2. ~Lost(req[g], req'[g])
      BY <2>1 DEF Lost, NodeRequest, Making
    <3>3. ASSUME Listed(req[g], req'[g])
          PROVE  req[g].op \in Making /\ req[g].row = req'[g].row
      BY <3>3 DEF Listed, Making
    <3> QED BY <1>5, <2>1, <3>1, <3>2, <3>3, WritesAnswer
  <2>2. \A x \in Rows : parent'[x] = parent[x] \/ (x = req[h].row /\ req[h].op \in Making)
    BY <1>5, WritesAdd DEF Stays, rowVars, Adds, TypeOK
  <2>3. ListTemplateNodes(h) => parent' = parent
    BY DEF ListTemplateNodes, rowVars
  <2> QED BY <2>1, <2>2, <2>3, MakingRows DEF Reserved
<1> QED BY <1>1, <1>2, <1>3, <1>4, <1>5 DEF Next

-----------------------------------------------------------------------------
(* Names.                                                                  *)

\* Agent a is of the workspace of x, or of the workspace x, and is there if x is,
\* unless it was deleted late.
Fit(a, x) ==
  /\ parent[a] \in Workspaces
  /\ parent[a] \in {x, Up(x), Up(Up(x))}
  /\ x \in live => a \in live \cup late

\* What a request has looked up and will write.
Fits(r) ==
  /\ r.op \in {"create", "replace", "insert"} /\ r.node.type = "specific_agent"
       => Fit(r.node.assignee, r.in)
  /\ r.op = "replace" => parent[r.row] = r.in
  /\ r.op = "list" => parent[r.in] # None /\ parent[r.in] = parent[r.from]
  /\ r.op \in {"claim", "pass"} =>
       /\ parent[r.row] # None
       /\ r.row \notin free => \A a \in InHand(r) \ {None} : Fit(a, r.row)
  /\ r.op = "link" => parent[r.who] # None /\ parent[r.who] = parent[r.to]
  /\ r.op = "report" => /\ parent[r.row] # None
                        /\ parent[r.who] # None
                        /\ parent[r.who] = WorkspaceOf(r.row)
  /\ r.op = "comment" => r.about = r.in

RequestsFit == \A h \in Handlers : \A r \in Request : req[h] = r => Fits(r)

TemplatesFit ==
  \A m \in Templates, a \in Agents : checkedNode(m) /\ tmplNode[m].assignee = a => Fit(a, m)
TasksFit     == \A t \in Tasks \ free, a \in Agents : a \in Of(t) => Fit(a, t)
LinksFit     == \A l \in links : parent[l[1]] = parent[l[2]]
UsageFits    == \A u \in usage : parent[u[2]] = WorkspaceOf(u[1])
CommentsFit  == \A c \in Comments : about[c] = parent[c]

MemoryFits(m, t) ==
  /\ parent[t] \in Projects
  /\ parent[m] \in Workspaces
  /\ WorkspaceOf(t) = parent[m]
  /\ m \in live => t \in live
MemoriesFit ==
  \A m \in Memories \ free, t \in Tasks : source[m] = t => MemoryFits(m, t)

\* What a deletion is going to clear: all that names what it deletes, but for what was
\* written behind its back.
TemplatesLocked ==
  \A a \in Agents, m \in Templates :
    going[a] # 0 /\ tmplNode[m].assignee = a => m \in locked[a] \/ a \in late
TasksLocked ==
  \A a \in Agents, t \in Tasks : going[a] = 2 /\ a \in Of(t) => t \in locked[a] \/ a \in late
MemoriesLocked ==
  \A p \in Projects, m \in Memories \ free, t \in Tasks \cap live :
    going[p] # 0 /\ source[m] = t /\ parent[t] = p => m \in locked[p]
AllLocked == TemplatesLocked /\ TasksLocked /\ MemoriesLocked

\* The inductive invariant: what a row names, and what a request is about to make
\* it name, fits where the row is; and deletions hold what they must clear.
AllFit ==
  /\ Tree /\ Reserved
  /\ AllLocked
  /\ RequestsFit
  /\ TemplatesFit /\ TasksFit /\ CommentsFit /\ MemoriesFit
  /\ LinksFit /\ UsageFits

\* A step spares an agent unless it takes the agent, and not its workspace, and
\* the agent is not late.
Spared(a) == a \in live \cup late => a \in live' \cup late' \/ parent[a] \notin live'

\* The workspace of an agent.
LEMMA AgentsAre ==
  ASSUME TypeOK, Tree, NEW a \in Agents
  PROVE  /\ a \in Rows /\ a \notin Workspaces /\ a # None
         /\ parent[a] \in Workspaces \cup {None}
BY KindsApart, PlacesAre DEF Tree

\* What fits where: a workspace, what is of one, what is of what is of one.
LEMMA FitIs ==
  ASSUME TypeOK, Tree, NEW a \in Agents
  PROVE  /\ \A w \in Workspaces :
              Fit(a, w) <=> parent[a] = w /\ (w \in live => a \in live \cup late)
         /\ \A x \in Rows : Places(x) = Workspaces =>
              (Fit(a, x) <=> /\ parent[a] \in Workspaces /\ parent[a] = parent[x]
                             /\ x \in live => a \in live \cup late)
         /\ \A x \in Rows : Places(x) = Projects =>
              (Fit(a, x) <=> /\ parent[a] \in Workspaces /\ parent[x] \in Projects
                             /\ parent[a] = parent[parent[x]]
                             /\ x \in live => a \in live \cup late)
<1>1. ASSUME NEW w \in Workspaces
      PROVE  Fit(a, w) <=> parent[a] = w /\ (w \in live => a \in live \cup late)
  <2>1. Up(w) = None /\ Up(Up(w)) = None /\ None \notin Workspaces
    BY UpIs, KindsApart
  <2> QED BY <2>1 DEF Fit
<1>2. ASSUME NEW x \in Rows, Places(x) = Workspaces
      PROVE  Fit(a, x) <=> /\ parent[a] \in Workspaces /\ parent[a] = parent[x]
                           /\ x \in live => a \in live \cup late
  <2>1. Up(x) = parent[x] /\ Up(Up(x)) = None /\ None \notin Workspaces /\ x \notin Workspaces
    BY <1>2, UpIs, KindsApart DEF Tree
  <2> QED BY <2>1 DEF Fit
<1>3. ASSUME NEW x \in Rows, Places(x) = Projects
      PROVE  Fit(a, x) <=> /\ parent[a] \in Workspaces /\ parent[x] \in Projects
                           /\ parent[a] = parent[parent[x]]
                           /\ x \in live => a \in live \cup late
  <2>1. Up(x) = parent[x] /\ None \notin Workspaces /\ x \notin Workspaces
        /\ parent[x] \in Projects \cup {None}
    BY <1>3, UpIs, KindsApart DEF Tree
  <2>2. CASE parent[x] \in Projects
    <3>1. parent[x] \in Rows /\ parent[x] \notin Workspaces
      BY <2>2, KindsApart DEF Rows
    <3>2. Up(Up(x)) = parent[parent[x]]
      BY <2>1, <3>1, UpIs
    <3> QED BY <2>1, <2>2, <3>1, <3>2 DEF Fit
  <2>3. CASE parent[x] = None
    <3>1. Up(Up(x)) = None /\ None \notin Projects
      BY <2>1, <2>3, UpIs, KindsApart DEF Rows
    <3> QED BY <2>1, <2>3, <3>1 DEF Fit
  <2> QED BY <2>1, <2>2, <2>3
<1> QED BY <1>1, <1>2, <1>3

\* What fits goes on fitting, through any step that spares the agent.
LEMMA FitKept ==
  ASSUME TypeOK, Tree, TypeOK', Tree', Steady,
         NEW a \in Agents, Spared(a),
         NEW x \in Workspaces \cup {y \in Rows : Places(y) \in {Workspaces, Projects}}, Fit(a, x)
  PROVE  Fit(a, x)'
<1>1. /\ a \in Rows /\ parent[a] \in Workspaces /\ parent[a] # None
      /\ parent'[a] = parent[a]
  BY AgentsAre, KindsApart DEF Fit, Steady
<1>2. ASSUME x \in live', x \in live, parent[a] \in live' PROVE a \in live' \cup late'
  BY <1>1, <1>2 DEF Fit, Spared
<1>3. CASE x \in Workspaces
  <2>1. parent[a] = x /\ (x \in live => a \in live \cup late)
    BY <1>3, FitIs
  <2>2. x \in live' => x \in live
    BY <1>3, KindsApart DEF Steady
  <2>3. x \in live' => a \in live' \cup late'
    BY <1>2, <2>1, <2>2
  <2> QED BY <1>1, <1>3, <2>1, <2>3 DEF Fit
<1>4. CASE x \in Rows /\ Places(x) = Workspaces
  <2>1. parent[a] = parent[x]
    BY <1>4, FitIs
  <2>2. parent'[x] = parent[x] /\ (x \in live' => x \in live)
    BY <1>1, <1>4, <2>1 DEF Steady
  <2>3. x \in live' => parent'[x] \in live'
    BY <1>4 DEF Tree
  <2>4. x \in live' => a \in live' \cup late'
    BY <1>2, <2>1, <2>2, <2>3
  <2>5. Up(x)' = parent'[x]
    BY <1>4 DEF Up, TypeOK
  <2> QED BY <1>1, <2>1, <2>2, <2>4, <2>5 DEF Fit
<1>5. CASE x \in Rows /\ Places(x) = Projects
  <2>1. parent[x] \in Projects /\ parent[a] = parent[parent[x]]
    BY <1>5, FitIs
  <2>2. parent[x] \in Rows /\ parent[x] # None
    BY <2>1, KindsApart DEF Rows
  <2>3. parent'[x] = parent[x] /\ parent'[parent'[x]] = parent[parent[x]]
        /\ (x \in live' => x \in live)
    BY <1>1, <1>5, <2>1, <2>2 DEF Steady
  <2>4. x \in live' => parent[parent[x]] \in live'
    BY <1>5, <2>2, <2>3 DEF Tree
  <2>5. x \in live' => a \in live' \cup late'
    BY <1>2, <2>1, <2>3, <2>4
  <2>6. Up(x)' = parent'[x] /\ Up(Up(x))' = parent'[parent'[x]]
    BY <1>5, <2>2, <2>3 DEF Up, TypeOK
  <2> QED BY <1>1, <2>1, <2>3, <2>5, <2>6 DEF Fit
<1> QED BY <1>3, <1>4, <1>5

\* Whoever is not the row that is deleted is spared.
LEMMA RemovesSpares ==
  ASSUME TypeOK, Tree, NEW r, Removes(r), late \subseteq late', NEW a \in Agents, a # r
  PROVE  Spared(a)
<1>1. a \in Rows /\ Up(a) = parent[a] /\ Up(Up(a)) = None /\ Up(None) = None
  BY AgentsAre, UpIs
<1>2. r # None /\ r \notin live'
  BY DEF Removes
<1>3. a \in Below(r) => r = parent[a]
  BY <1>1, <1>2 DEF Below
<1> QED BY <1>2, <1>3 DEF Removes, Spared

\* Whoever is late is late for good, or is there and begins to be deleted again.
LEMMA DeletesRemember ==
  ASSUME TypeOK, Deletes
  PROVE  late \subseteq late' \/ (Quietly /\ \E a \in Agents : DeleteAgent(a))
BY DeletesAre DEF CommitAgent, CommitProject, DeleteRow

\* A write does not forget.
LEMMA WritesRemember ==
  ASSUME TypeOK, NEW h \in Handlers, req[h] # Idle, Writes(h)
  PROVE  late \subseteq late' /\ free \subseteq free'
<1>1. CASE ClaimTaskNode(h)
  BY <1>1 DEF ClaimTaskNode, WriteNode
<1>2. CASE UpdateTaskNode(h)
  BY <1>2 DEF UpdateTaskNode, WriteNode
<1>3. CASE ~ClaimTaskNode(h) /\ ~UpdateTaskNode(h)
  BY <1>3 DEF Writes, InsertTemplate, ReplaceTemplateNodes, ListTemplateNodes, InsertTask,
              CreateTokenUsage, InsertComment, InsertLink
<1> QED BY <1>1, <1>2, <1>3

\* What is remembered is not forgotten, but for an agent that is there.
LEMMA NextRemembers ==
  ASSUME TypeOK, Next
  PROVE  late \subseteq late' \cup live' /\ free \subseteq free'
<1>1. ASSUME NEW h \in Handlers, req[h] # Idle, Writes(h)
      PROVE  late \subseteq late' /\ free \subseteq free'
  BY <1>1, WritesRemember
<1>2. ASSUME NEW a \in Agents, DeleteAgent(a), Quietly PROVE late \subseteq late' \cup live'
  BY <1>2 DEF DeleteAgent, Quietly, rowVars
<1>3. CASE Deletes
  BY <1>2, <1>3, DeletesRemember, DeletesRemove
<1> QED BY <1>1, <1>3, CreatesAdd, LinksStay, RequestsOpen DEF Next

\* Only its own deletion, when it ends, does not spare an agent.
LEMMA NextSpares ==
  ASSUME TypeOK, Tree, Reserved, Next, NEW a \in Agents
  PROVE  Spared(a) \/ CommitAgent(a)
<1>0. late \subseteq late' \cup live'
  BY NextRemembers
<1>1. ASSUME live \subseteq live' PROVE Spared(a)
  BY <1>0, <1>1 DEF Spared
<1>2. ASSUME NEW h \in Handlers, Requests(h) PROVE live \subseteq live'
  BY <1>2, RequestsOpen DEF rowVars
<1>3. ASSUME NEW h \in Handlers, req[h] # Idle, Writes(h) PROVE live \subseteq live'
  BY <1>3, WritesAdd DEF Stays, Adds, rowVars
<1>4. CASE Creates
  BY <1>1, <1>4, CreatesAdd DEF Adds
<1>5. CASE Links
  BY <1>1, <1>5, LinksStay DEF rowVars
<1>6. CASE Deletes
  <2>1. ASSUME Quietly PROVE Spared(a)
    BY <1>1, <2>1 DEF Quietly, rowVars
  <2>2. ASSUME NEW b \in Agents, CommitAgent(b), Removes(b), a # b PROVE Spared(a)
    BY <2>2, RemovesSpares DEF CommitAgent
  <2>3. ASSUME NEW r \in Rows \cup Workspaces, r \notin Agents, late' = late, Removes(r)
        PROVE  Spared(a)
    BY <2>3, RemovesSpares
  <2>4. \A p \in Projects : p \in Rows /\ p \notin Agents
    BY KindsApart DEF Rows
  <2> QED BY <1>6, <2>1, <2>2, <2>3, <2>4, DeletesAre DEF CommitProject, DeleteRow
<1> QED BY <1>1, <1>2, <1>3, <1>4, <1>5, <1>6 DEF Next

\* An agent in the hands of a request is spared: deleted, it is remembered as late.
LEMMA HandsSpared ==
  ASSUME TypeOK, Tree, Reserved, Next, NEW h \in Handlers, NEW a \in Agents, a \in InHand(req[h])
  PROVE  Spared(a)
<1>1. CASE CommitAgent(a)
  BY <1>1 DEF CommitAgent, Spared
<1> QED BY <1>1, NextSpares

\* The types, the rows and what is remembered, before a step and after it.
Fine ==
  /\ TypeOK /\ Tree /\ Reserved
  /\ TypeOK' /\ Tree' /\ Steady
  /\ late \subseteq late' \cup live' /\ free \subseteq free'

\* Every step is fine.
LEMMA NextFine ==
  ASSUME TypeOK, Tree, Reserved, Next
  PROVE  Fine
BY NextTypes, NextTree, NextRemembers DEF Fine

\* What is of a project stays of its workspace.
LEMMA WorkspaceKept ==
  ASSUME Fine, NEW t \in Tasks, parent[t] # None
  PROVE  /\ parent'[t] = parent[t] /\ parent[t] \in Projects
         /\ WorkspaceOf(t)' = WorkspaceOf(t)
         /\ WorkspaceOf(t) \in Workspaces
<1>1. /\ t \in Rows /\ parent[t] \in Projects /\ parent[t] \in Rows
      /\ Places(parent[t]) = Workspaces
  BY PlacesAre DEF Fine, Tree
<1>2. parent'[t] = parent[t] /\ parent[parent[t]] # None
  BY <1>1 DEF Fine, Steady, Tree
<1>3. parent'[parent[t]] = parent[parent[t]] /\ parent[parent[t]] \in Workspaces
  BY <1>1, <1>2 DEF Fine, Steady, Tree
<1> QED BY <1>1, <1>2, <1>3 DEF WorkspaceOf

\* What a request looked up goes on to fit when those in its hands are spared.
LEMMA FitsKept ==
  ASSUME Fine, NEW r \in Request, Fits(r), \A a \in InHand(r) \cap Agents : Spared(a)
  PROVE  Fits(r)'
<1> USE DEF Fine
<1>1. CASE r.op \in {"create", "replace"}
  <2>1. r \in TemplateRequest
    BY <1>1, Requested
  <2>2. r.in \in Workspaces /\ r.row \in Templates /\ r.in # None
    BY <2>1, KindsApart DEF TemplateRequest
  <2>3. ASSUME r.node.type = "specific_agent"
        PROVE  Fit(r.node.assignee, r.in)'
    <3>1. r.node.assignee \in Agents
      BY <2>1, <2>3 DEF TemplateRequest, TemplateNode
    <3>2. Spared(r.node.assignee) /\ Fit(r.node.assignee, r.in)
      BY <1>1, <2>3, <3>1 DEF Fits, InHand
    <3> QED BY <2>2, <3>1, <3>2, FitKept
  <2>4. r.op = "replace" => parent'[r.row] = r.in
    BY <2>2, PlacesAre DEF Fits, Steady
  <2> QED BY <1>1, <2>3, <2>4 DEF Fits
<1>2. CASE r.op \in {"list", "insert"}
  <2>1. r \in TaskRequest
    BY <1>2, Requested
  <2>2. /\ r.in \in Projects /\ r.in \in Rows /\ Places(r.in) = Workspaces
        /\ r.from \in Rows
    BY <2>1, PlacesAre DEF TaskRequest
  <2>3. ASSUME r.op = "insert", r.node.type = "specific_agent"
        PROVE  Fit(r.node.assignee, r.in)'
    <3>1. r.node.assignee \in Agents
      BY <2>1, <2>3 DEF TaskRequest, TemplateNode
    <3>2. Spared(r.node.assignee) /\ Fit(r.node.assignee, r.in)
      BY <2>3, <3>1 DEF Fits, InHand
    <3> QED BY <2>2, <3>1, <3>2, FitKept
  <2>4. r.op = "list" => parent'[r.in] # None /\ parent'[r.in] = parent'[r.from]
    BY <2>2 DEF Fits, Steady
  <2> QED BY <1>2, <2>3, <2>4 DEF Fits
<1>3. CASE r.op \in {"claim", "pass"}
  <2>1. r \in NodeRequest
    BY <1>3, Requested
  <2>2. r.row \in Tasks /\ r.row \in Rows /\ Places(r.row) = Projects
    BY <2>1, PlacesAre DEF NodeRequest
  <2>3. InHand(r) \ {None} \subseteq Agents
    BY <1>3, <2>1 DEF InHand, NodeRequest, TaskNode, Id
  <2>4. ASSUME r.row \notin free', NEW a \in InHand(r) \ {None}
        PROVE  Fit(a, r.row)'
    <3>1. a \in Agents /\ Spared(a) /\ Fit(a, r.row)
      BY <1>3, <2>3, <2>4 DEF Fits
    <3> QED BY <2>2, <3>1, FitKept
  <2>5. parent'[r.row] # None
    BY <1>3, <2>2 DEF Fits, Steady
  <2>6. InHand(r)' = InHand(r)
    BY DEF InHand
  <2> QED BY <1>3, <2>4, <2>5, <2>6 DEF Fits
<1>4. CASE r.op = "link"
  <2>1. r.who \in Rows /\ r.to \in Rows
    BY <1>4, Requested DEF LinkRequest, Rows
  <2> QED BY <1>4, <2>1 DEF Fits, Steady
<1>5. CASE r.op = "report"
  <2>1. r.who \in Rows /\ r.row \in Tasks
    BY <1>5, Requested DEF ReportRequest, Rows
  <2>2. WorkspaceOf(r.row)' = WorkspaceOf(r.row) /\ parent'[r.row] = parent[r.row]
    BY <1>5, <2>1, WorkspaceKept DEF Fits
  <2> QED BY <1>5, <2>1, <2>2 DEF Fits, Steady
<1>6. CASE r.op = "comment"
  BY <1>6 DEF Fits
<1> QED BY <1>1, <1>2, <1>3, <1>4, <1>5, <1>6, Requested

\* A handler's look finds what fits.
LEMMA LooksFit ==
  ASSUME TypeOK, Tree, TasksFit, NEW h \in Handlers, Requests(h)
  PROVE  \E r \in Request : Opens(h, r) /\ Fits(r)
<1>0. /\ None \notin live
      /\ \A x \in Rows \cap live : parent[x] # None /\ parent[x] \in Places(x)
  BY KindsApart DEF Tree, TypeOK
<1>1. ASSUME NEW m \in Templates, NEW w \in Workspaces, NEW n \in TemplateNode,
             CreateWorkflowTemplate(h, m, w, n) \/ UpdateWorkflowTemplate(h, m, w, n)
      PROVE  \E r \in Request : Opens(h, r) /\ Fits(r)
  <2>1. PICK r : /\ Opens(h, r)
                 /\ r = [op |-> "create", row |-> m, in |-> w, node |-> n]
                    \/ /\ r = [op |-> "replace", row |-> m, in |-> w, node |-> n]
                       /\ parent[m] = w
    BY <1>1 DEF CreateWorkflowTemplate, UpdateWorkflowTemplate, checkWorkflowTemplateWorkspace
  <2>2. r \in Request
    BY <2>1, RequestsAre DEF TemplateRequest
  <2>3. n.type = "specific_agent" => Fit(n.assignee, w)
    <3>1. ASSUME n.type = "specific_agent"
          PROVE  n.assignee \in Agents /\ n.assignee \in live /\ parent[n.assignee] = w
      BY <1>1, <3>1 DEF TemplateNode, CreateWorkflowTemplate, UpdateWorkflowTemplate,
                        checkAssignee, checkAgentWorkspace
    <3> QED BY <3>1, FitIs
  <2> QED BY <2>1, <2>2, <2>3 DEF Fits
<1>2. ASSUME NEW t \in Tasks, NEW p \in Projects, NEW m \in Templates, NEW w \in Workspaces,
             CreateTask(h, t, p, m, w)
      PROVE  \E r \in Request : Opens(h, r) /\ Fits(r)
  <2>1. PICK r : r = [op |-> "list", row |-> t, in |-> p, from |-> m, node |-> NoTemplateNode]
    OBVIOUS
  <2>2. r \in Request
    BY <2>1, RequestsAre DEF TaskRequest, NoTemplateNode, TemplateNode, Id
  <2>3. parent[p] = w /\ parent[m] = w /\ w # None
    BY <1>2, KindsApart DEF CreateTask, checkProjectWorkspace, checkWorkflowTemplateWorkspace
  <2>4. Opens(h, r)
    BY <1>2, <2>1 DEF CreateTask
  <2> QED BY <2>1, <2>2, <2>3, <2>4 DEF Fits
<1>3. ASSUME NEW t \in Tasks, t \in live, NEW a \in Agents, AgentAtTask(a, t)
      PROVE  Fit(a, t)
  <2>1. t \in Rows /\ Places(t) = Projects
    BY PlacesAre
  <2>2. parent[t] \in Projects /\ parent[t] \in live
    BY <1>0, <1>3, <2>1 DEF Tree
  <2>3. parent[t] \in Rows /\ Places(parent[t]) = Workspaces
    BY <2>2, PlacesAre
  <2>4. parent[a] = parent[parent[t]] /\ a \in live /\ parent[parent[t]] \in Workspaces
    BY <1>0, <1>3, <2>2, <2>3 DEF AgentAtTask, checkAgentWorkspace, WorkspaceOf
  <2> QED BY <2>1, <2>2, <2>4, FitIs
<1>4. ASSUME NEW t \in Tasks, NEW a \in Id, NEW op \in {"claim", "pass"}, t \in live,
             a # None => AgentAtTask(a, t),
             Opens(h, [op |-> op, row |-> t, who |-> a, node |-> node[t], fresh |-> TRUE])
      PROVE  \E r \in Request : Opens(h, r) /\ Fits(r)
  <2>1. PICK r : r = [op |-> op, row |-> t, who |-> a, node |-> node[t], fresh |-> TRUE]
    OBVIOUS
  <2>2. r \in Request
    BY <2>1, RequestsAre DEF NodeRequest, TypeOK
  <2>3. ASSUME t \notin free, NEW b \in InHand(r) \ {None}
        PROVE  Fit(b, t)
    <3>1. CASE b = a
      BY <1>3, <1>4, <2>3, <3>1 DEF Id
    <3>2. CASE b \in Of(t)
      <4>1. b \in Agents
        BY <2>3, <3>2 DEF Of, TypeOK, TaskNode, Id
      <4> QED BY <2>3, <3>2, <4>1 DEF TasksFit
    <3> QED BY <2>1, <2>3, <3>1, <3>2 DEF InHand, Of
  <2>4. parent[t] # None
    BY <1>0, <1>4, PlacesAre
  <2>5. r.op = op /\ r.row = t /\ Opens(h, r)
    BY <1>4, <2>1
  <2> QED BY <2>2, <2>3, <2>4, <2>5 DEF Fits
<1>5. ASSUME NEW t \in Tasks, NEW a \in Agents, ReportTokenUsage(h, a, t)
      PROVE  \E r \in Request : Opens(h, r) /\ Fits(r)
  <2>1. PICK r : r = [op |-> "report", who |-> a, row |-> t]
    OBVIOUS
  <2>2. r \in Request
    BY <2>1, RequestsAre DEF ReportRequest
  <2>3. parent[t] # None /\ parent[a] # None /\ parent[a] = WorkspaceOf(t)
    BY <1>0, <1>5, PlacesAre DEF ReportTokenUsage, AgentAtTask, checkAgentWorkspace
  <2> QED BY <1>5, <2>1, <2>2, <2>3 DEF Fits, ReportTokenUsage
<1>6. ASSUME NEW t \in Tasks, NEW c \in Comments, NEW n \in Tasks, CreateComment(h, c, t, n)
      PROVE  \E r \in Request : Opens(h, r) /\ Fits(r)
  <2>1. PICK r : r = [op |-> "comment", row |-> c, in |-> t, about |-> n]
    OBVIOUS
  <2>2. r \in Request
    BY <2>1, RequestsAre DEF CommentRequest
  <2> QED BY <1>6, <2>1, <2>2 DEF Fits, CreateComment, validateCommentNode
<1>7. ASSUME NEW a \in Agents, NEW s \in Skills \cup Servers,
             AddSkill(h, a, s) \/ AddMcpServer(h, a, s)
      PROVE  \E r \in Request : Opens(h, r) /\ Fits(r)
  <2>1. PICK r : r = [op |-> "link", who |-> a, to |-> s]
    OBVIOUS
  <2>2. r \in Request
    BY <2>1, RequestsAre DEF LinkRequest
  <2>3. parent[a] # None /\ parent[s] = parent[a]
    BY <1>0, <1>7, PlacesAre DEF AddSkill, AddMcpServer, checkAgentWorkspace,
       checkSkillWorkspace, checkMcpServerWorkspace
  <2>4. Opens(h, r)
    BY <1>7, <2>1 DEF AddSkill, AddMcpServer
  <2> QED BY <2>1, <2>2, <2>3, <2>4 DEF Fits
<1>8. ASSUME NEW t \in Tasks, NEW a \in Agents, Claim(h, a, t)
      PROVE  \E r \in Request : Opens(h, r) /\ Fits(r)
  BY <1>4, <1>8 DEF Claim, AgentAtTask, Id
<1>9. ASSUME NEW t \in Tasks, NEW a \in Id, ReadNode(h, a, t)
      PROVE  \E r \in Request : Opens(h, r) /\ Fits(r)
  BY <1>4, <1>9 DEF ReadNode
<1> QED BY <1>1, <1>2, <1>5, <1>6, <1>7, <1>8, <1>9 DEF Requests

\* What requests have looked up fits: when it is looked up, and until it is written.
LEMMA NextRequestsFit ==
  ASSUME AllFit, Fine, Next
  PROVE  RequestsFit'
<1> USE DEF Fine
<1>1. ASSUME NEW h \in Handlers, NEW r \in Request, req[h] = r
      PROVE  Fits(r)'
  <2>1. Fits(r)
    BY <1>1 DEF AllFit, RequestsFit
  <2>2. \A a \in InHand(r) \cap Agents : Spared(a)
    BY <1>1, HandsSpared
  <2> QED BY <2>1, <2>2, FitsKept
<1>2. ASSUME req' = req PROVE RequestsFit'
  BY <1>1, <1>2 DEF RequestsFit
<1>3. CASE Creates \/ Deletes \/ Links
  <2>1. req' = req
    BY <1>3, CreatesAdd, LinksStay, DeletesRemove
  <2> QED BY <1>2, <2>1
<1>4. ASSUME NEW h \in Handlers, Requests(h) PROVE RequestsFit'
  <2>1. PICK r \in Request : Opens(h, r) /\ Fits(r)
    BY <1>4, LooksFit DEF AllFit
  <2>2. \A a \in Agents : Spared(a)
    BY <1>4, RequestsOpen DEF Spared, rowVars
  <2>3. Fits(r)'
    BY <2>1, <2>2, FitsKept
  <2>4. req'[h] = r /\ \A g \in Handlers : g # h => req'[g] = req[g]
    BY <2>1 DEF Opens, TypeOK
  <2> QED BY <1>1, <2>3, <2>4 DEF RequestsFit
<1>5. ASSUME NEW h \in Handlers, req[h] # Idle, Writes(h) PROVE RequestsFit'
  <2> SUFFICES ASSUME NEW g \in Handlers, NEW r \in Request, req'[g] = r
               PROVE  Fits(r)'
    BY DEF RequestsFit
  <2>1. r # Idle
    BY Requested
  <2>2. CASE req'[g] = req[g]
    BY <1>1, <2>2
  <2>3. CASE Lost(req[g], req'[g])
    <3>1. PICK q \in NodeRequest : q = req[g]
      BY <2>3 DEF Lost
    <3>2. q \in Request /\ Fits(q)'
      BY <1>1, <3>1, RequestsAre
    <3>3. /\ r \in NodeRequest
          /\ r.op = q.op /\ r.row = q.row /\ r.who = q.who /\ r.node = q.node
      BY <2>3, <3>1 DEF Lost
    <3>4. r.op \in {"claim", "pass"} /\ InHand(r) = InHand(q)
      BY <3>3 DEF NodeRequest, InHand
    <3>5. /\ parent'[r.row] # None
          /\ r.row \notin free' => \A a \in InHand(r)' \ {None} : Fit(a, r.row)'
      BY <3>2, <3>3, <3>4 DEF Fits, InHand
    <3> QED BY <3>4, <3>5 DEF Fits
  <2>4. CASE Listed(req[g], req'[g]) /\ ListTemplateNodes(h)
    <3>1. PICK q \in TaskRequest : q = req[g]
      BY <2>4 DEF Listed
    <3>2. q \in Request /\ q.op = "list" /\ Fits(q)
      BY <2>4, <3>1, RequestsAre DEF Listed, AllFit, RequestsFit
    <3>3. /\ r.op = "insert" /\ r.in = q.in
          /\ r.node = IF q.from \in live THEN tmplNode[q.from] ELSE NoTemplateNode
      BY <2>4, <3>1 DEF Listed
    <3>4. q.in \in Projects /\ q.from \in Templates
      BY <3>1 DEF TaskRequest
    <3>5. ASSUME r.node.type = "specific_agent"
          PROVE  r.node.assignee \in Agents /\ Fit(r.node.assignee, r.in)
      <4>1. q.from \in live /\ r.node = tmplNode[q.from]
        BY <3>3, <3>5 DEF NoTemplateNode
      <4>2. r.node.assignee \in Agents
        BY <3>4, <3>5, <4>1 DEF TypeOK, TemplateNode
      <4>3. Fit(r.node.assignee, q.from)
        BY <3>4, <3>5, <4>1, <4>2 DEF AllFit, TemplatesFit, checkedNode
      <4>4. /\ q.from \in Rows /\ Places(q.from) = Workspaces
            /\ q.in \in Rows /\ Places(q.in) = Workspaces
        BY <3>4, PlacesAre
      <4>5. parent[q.in] = parent[q.from]
        BY <3>2 DEF Fits
      <4> QED BY <3>3, <4>1, <4>2, <4>3, <4>4, <4>5, FitIs
    <3>6. Fits(r)
      BY <3>3, <3>5 DEF Fits
    <3>7. \A a \in Agents : Spared(a)
      BY <2>4 DEF ListTemplateNodes, rowVars, Spared
    <3> QED BY <3>6, <3>7, FitsKept
  <2> QED BY <1>5, <2>1, <2>2, <2>3, <2>4, WritesAnswer
<1> QED BY <1>3, <1>4, <1>5 DEF Next

\* Which steps write which names.
LEMMA NextNames ==
  ASSUME TypeOK, Next
  PROVE  \/ UNCHANGED tmplNode
         \/ \E a \in Agents : CommitAgent(a) /\ Removes(a)
         \/ \E h \in Handlers : req[h] # Idle /\ (InsertTemplate(h) \/ ReplaceTemplateNodes(h))
<1>1. ASSUME NEW h \in Handlers, Writes(h)
      PROVE  UNCHANGED tmplNode \/ InsertTemplate(h) \/ ReplaceTemplateNodes(h)
  BY <1>1 DEF Writes, ListTemplateNodes, InsertTask, ClaimTaskNode, UpdateTaskNode,
              CreateTokenUsage, InsertComment, InsertLink, nameVars
<1>2. CASE Deletes
  BY <1>2, DeletesAre DEF Quietly, CommitProject, DeleteRow, nameVars
<1> QED BY <1>1, <1>2, CreatesAdd, LinksStay, RequestsOpen DEF Next, nameVars

\* A template's agent is of its workspace, whether it came with the template, or in the
\* place of another, or was there before.
LEMMA NextTemplatesFit ==
  ASSUME AllFit, Fine, Next
  PROVE  TemplatesFit'
<1> USE DEF Fine
<1>1. ASSUME \A a \in Agents : Spared(a) \/ \A m \in Templates : tmplNode'[m].assignee # a,
             NEW x,
             \A m \in Templates : m # x /\ checkedNode(m)' => tmplNode'[m] = tmplNode[m],
             \A a \in Agents : x \in Templates /\ checkedNode(x)' /\ tmplNode'[x].assignee = a
                                => Fit(a, x)'
      PROVE  TemplatesFit'
  <2> SUFFICES ASSUME NEW m \in Templates, NEW a \in Agents, checkedNode(m)',
                      tmplNode'[m].assignee = a
               PROVE  Fit(a, m)'
    BY DEF TemplatesFit
  <2>1. CASE m # x
    <3>1. Fit(a, m) /\ Spared(a)
      BY <1>1, <2>1 DEF checkedNode, AllFit, TemplatesFit
    <3> QED BY <3>1, PlacesAre, FitKept
  <2>2. CASE m = x
    BY <1>1, <2>2
  <2> QED BY <2>1, <2>2
<1>2. CASE UNCHANGED tmplNode /\ \A a \in Agents : Spared(a)
  <2>1. \A x : x \notin Templates => TemplatesFit'
    BY <1>1, <1>2
  <2>2. None \notin Templates
    BY KindsApart DEF Rows
  <2> QED BY <2>1, <2>2
<1>3. ASSUME NEW a \in Agents, CommitAgent(a), Removes(a) PROVE TemplatesFit'
  <2>1. \A m \in Templates :
          /\ m \in locked[a] => tmplNode'[m] = NoTemplateNode
          /\ m \notin locked[a] => tmplNode'[m] = tmplNode[m]
    BY <1>3 DEF CommitAgent
  <2>2. late \subseteq late' /\ going[a] # 0
    BY <1>3 DEF CommitAgent
  <2>3. \A b \in Agents : b # a => Spared(b)
    BY <1>3, <2>2, RemovesSpares
  <2>4. Spared(a) \/ \A m \in Templates : tmplNode'[m].assignee # a
    <3>1. CASE a \in late
      BY <2>2, <3>1 DEF Spared
    <3>2. CASE a \notin late
      <4>1. \A m \in Templates : tmplNode[m].assignee = a => m \in locked[a]
        BY <2>2, <3>2 DEF AllFit, AllLocked, TemplatesLocked
      <4> QED BY <2>1, <4>1, AgentsAre DEF NoTemplateNode
    <3> QED BY <3>1, <3>2
  <2>5. \A m \in Templates : checkedNode(m)' => tmplNode'[m] = tmplNode[m]
    BY <2>1 DEF NoTemplateNode, checkedNode
  <2>6. None \notin Templates
    BY KindsApart DEF Rows
  <2>7. \A b \in Agents : Spared(b) \/ \A m \in Templates : tmplNode'[m].assignee # b
    BY <2>3, <2>4
  <2> QED BY <1>1, <2>5, <2>6, <2>7
<1>4. ASSUME NEW h \in Handlers, req[h] # Idle, InsertTemplate(h) \/ ReplaceTemplateNodes(h)
      PROVE  TemplatesFit'
  <2>1. PICK r \in TemplateRequest : r = req[h] /\ r.op \in {"create", "replace"}
    BY <1>4, AtRequest, Requested DEF InsertTemplate, ReplaceTemplateNodes
  <2>2. r \in Request /\ Fits(r)
    BY <2>1, RequestsAre DEF AllFit, RequestsFit
  <2>3. /\ r.row \in Templates /\ r.in \in Workspaces /\ r.node \in TemplateNode
        /\ r.row \in Rows /\ Places(r.row) = Workspaces
    BY <2>1, PlacesAre DEF TemplateRequest
  <2>4. live \subseteq live' /\ \A a \in Agents : Spared(a)
    <3>1. live \subseteq live'
      BY <1>4 DEF InsertTemplate, ReplaceTemplateNodes, Insert, rowVars
    <3> QED BY <3>1 DEF Spared
  <2>5. \/ UNCHANGED tmplNode
        \/ /\ tmplNode' = [tmplNode EXCEPT ![r.row] = r.node]
           /\ r.in \in live
           /\ parent'[r.row] = r.in
    <3>1. CASE InsertTemplate(h)
      BY <2>1, <2>3, <3>1 DEF InsertTemplate, Insert, TypeOK
    <3>2. CASE ReplaceTemplateNodes(h)
      <4>1. r.row \in live => parent[r.row] = r.in /\ r.in \in live
        BY <2>1, <2>2, <2>3, <3>2 DEF ReplaceTemplateNodes, Fits, Tree
      <4> QED BY <2>1, <3>2, <4>1 DEF ReplaceTemplateNodes, rowVars
    <3> QED BY <1>4, <3>1, <3>2
  <2>6. ASSUME tmplNode' = [tmplNode EXCEPT ![r.row] = r.node], r.in \in live,
               parent'[r.row] = r.in
        PROVE  TemplatesFit'
    <3>1. ASSUME NEW a \in Agents, checkedNode(r.row)', tmplNode'[r.row].assignee = a
          PROVE  Fit(a, r.row)'
      <4>1. tmplNode'[r.row] = r.node
        BY <2>3, <2>6 DEF TypeOK
      <4>2. Fit(a, r.in)
        BY <2>1, <2>2, <3>1, <4>1 DEF Fits, checkedNode
      <4>3. parent[a] = r.in /\ a \in live \cup late
        BY <2>3, <2>6, <4>2, FitIs
      <4>4. parent'[a] = r.in /\ a \in live' \cup late'
        BY <2>3, <2>4, <4>3, AgentsAre, KindsApart DEF Steady
      <4>5. Up(r.row)' = r.in
        BY <2>3, <2>6 DEF Up, TypeOK
      <4> QED BY <2>3, <4>4, <4>5 DEF Fit
    <3>2. \A m \in Templates : m # r.row => tmplNode'[m] = tmplNode[m]
      BY <2>6 DEF TypeOK
    <3> QED BY <1>1, <2>4, <3>1, <3>2
  <2> QED BY <1>2, <2>4, <2>5, <2>6
<1>5. (\A a \in Agents : Spared(a)) \/ \E a \in Agents : CommitAgent(a) /\ Removes(a)
  BY CommitsRemove, NextSpares
<1> QED BY <1>2, <1>3, <1>4, <1>5, NextNames

\* And which write the nodes of tasks.
LEMMA NextNodes ==
  ASSUME TypeOK, Next
  PROVE  \/ UNCHANGED node
         \/ \E a \in Agents : CommitAgent(a)
         \/ \E h \in Handlers : /\ req[h] # Idle
                                /\ InsertTask(h) \/ ClaimTaskNode(h) \/ UpdateTaskNode(h)
<1>1. ASSUME NEW h \in Handlers, Writes(h)
      PROVE  UNCHANGED node \/ InsertTask(h) \/ ClaimTaskNode(h) \/ UpdateTaskNode(h)
  BY <1>1 DEF Writes, InsertTemplate, ReplaceTemplateNodes, ListTemplateNodes,
              CreateTokenUsage, InsertComment, InsertLink, nameVars
<1>2. CASE Deletes
  BY <1>2, DeletesAre DEF Quietly, CommitProject, DeleteRow, nameVars
<1> QED BY <1>1, <1>2, CreatesAdd, LinksStay, RequestsOpen DEF Next, nameVars

\* What a request that had read a node writes is a node, if it writes.
LEMMA NodesWritten ==
  ASSUME TypeOK, NEW h \in Handlers, req[h] # Idle, ClaimTaskNode(h) \/ UpdateTaskNode(h)
  PROVE  UNCHANGED node \/ \E t \in Tasks, n \in TaskNode : WriteNode(h, t, n)
<1> PICK r \in Request : r = req[h]
  BY AtRequest
<1>1. r \in NodeRequest
  BY Requested DEF ClaimTaskNode, UpdateTaskNode
<1>2. r.row \in Tasks /\ r.who \in Id /\ r.node \in TaskNode
  BY <1>1 DEF NodeRequest
<1>3. CASE ClaimTaskNode(h)
  <2>1. [node[r.row] EXCEPT !.assignee = r.who, !.reserved = r.who] \in TaskNode
    BY <1>2 DEF TypeOK, TaskNode
  <2> QED BY <1>2, <1>3, <2>1 DEF ClaimTaskNode
<1>4. CASE UpdateTaskNode(h)
  <2>1. \A a \in {None, r.node.assignee}, v \in {None, r.node.reserved, r.node.assignee},
           b \in {None, r.node.by, r.node.assignee, r.who} :
          [assignee |-> a, reserved |-> v, by |-> b] \in TaskNode
    BY <1>2 DEF TaskNode, Id
  <2> QED BY <1>2, <1>4, <2>1 DEF UpdateTaskNode
<1> QED BY <1>3, <1>4

\* The nodes of tasks.
LEMMA NextTasksFit ==
  ASSUME AllFit, Fine, Next
  PROVE  TasksFit'
<1> USE DEF Fine
<1>1. ASSUME \A a \in Agents : Spared(a) \/ \A t \in Tasks : a \notin Of(t)',
             NEW x,
             \A t \in Tasks : t # x => Of(t)' \subseteq Of(t),
             x \in Tasks \ free' => \A a \in Agents : a \in Of(x)' => Fit(a, x)'
      PROVE  TasksFit'
  <2> SUFFICES ASSUME NEW t \in Tasks \ free', NEW a \in Agents, a \in Of(t)'
               PROVE  Fit(a, t)'
    BY DEF TasksFit
  <2>1. CASE t # x
    <3>1. Fit(a, t) /\ Spared(a)
      BY <1>1, <2>1 DEF AllFit, TasksFit
    <3> QED BY <3>1, PlacesAre, FitKept
  <2>2. CASE t = x
    BY <1>1, <2>2
  <2> QED BY <2>1, <2>2
<1>2. None \notin Tasks
  BY KindsApart DEF Rows
<1>3. ASSUME UNCHANGED node, \A a \in Agents : Spared(a) PROVE TasksFit'
  BY <1>1, <1>2, <1>3 DEF Of
<1>4. ASSUME NEW a \in Agents, CommitAgent(a), Removes(a) PROVE TasksFit'
  <2>1. \A t \in Tasks :
          /\ t \in locked[a] => Of(t)' = {}
          /\ t \notin locked[a] => Of(t)' = Of(t)
    BY <1>4 DEF CommitAgent, Of, NoTaskNode
  <2>2. late \subseteq late' /\ going[a] = 2
    BY <1>4 DEF CommitAgent
  <2>3. \A b \in Agents : b # a => Spared(b)
    BY <1>4, <2>2, RemovesSpares
  <2>4. Spared(a) \/ \A t \in Tasks : a \notin Of(t)'
    <3>1. CASE a \in late
      BY <2>2, <3>1 DEF Spared
    <3>2. CASE a \notin late
      <4>1. \A t \in Tasks : a \in Of(t) => t \in locked[a]
        BY <2>2, <3>2 DEF AllFit, AllLocked, TasksLocked
      <4> QED BY <2>1, <4>1
    <3> QED BY <3>1, <3>2
  <2>5. \A t \in Tasks : Of(t)' \subseteq Of(t)
    BY <2>1
  <2>6. \A b \in Agents : Spared(b) \/ \A t \in Tasks : b \notin Of(t)'
    BY <2>3, <2>4
  <2> QED BY <1>1, <1>2, <2>5, <2>6
<1>5. ASSUME NEW h \in Handlers, req[h] # Idle, InsertTask(h) PROVE TasksFit'
  <2>1. PICK r \in TaskRequest : r = req[h] /\ r.op = "insert"
    BY <1>5, AtRequest, Requested DEF InsertTask
  <2>2. r \in Request /\ Fits(r)
    BY <2>1, RequestsAre DEF AllFit, RequestsFit
  <2>3. /\ r.row \in Tasks /\ r.in \in Projects /\ r.node \in TemplateNode
        /\ r.row \in Rows /\ Places(r.row) = Projects
        /\ r.in \in Rows /\ Places(r.in) = Workspaces
    BY <2>1, PlacesAre DEF TaskRequest
  <2>4. \A a \in Agents : Spared(a)
    <3>1. live \subseteq live'
      BY <1>5 DEF InsertTask, Insert, rowVars
    <3> QED BY <3>1 DEF Spared
  <2>5. CASE UNCHANGED node
    BY <1>3, <2>4, <2>5
  <2>6. CASE /\ Insert(r.row, r.in)
             /\ node' = [node EXCEPT ![r.row] =
                           [assignee |-> r.node.assignee, reserved |-> r.node.assignee,
                            by |-> None]]
             /\ free' = IF r.node.assignee # None /\ r.node.type = "any_agent"
                        THEN free \cup {r.row} ELSE free
    <3>1. /\ Of(r.row)' \subseteq {r.node.assignee} \ {None}
          /\ \A t \in Tasks : t # r.row => Of(t)' = Of(t)
      BY <2>3, <2>6 DEF Of, TypeOK
    <3>2. r.in \in live /\ parent'[r.row] = r.in
      BY <2>3, <2>6 DEF Insert, TypeOK
    <3>3. ASSUME r.row \notin free', NEW a \in Agents, a \in Of(r.row)'
          PROVE  Fit(a, r.row)'
      <4>1. a = r.node.assignee /\ a # None
        BY <3>1, <3>3
      <4>2. r.node.type = "specific_agent"
        BY <2>3, <2>6, <3>3, <4>1 DEF TemplateNode
      <4>3. Fit(a, r.in)
        BY <2>1, <2>2, <4>1, <4>2 DEF Fits
      <4>4. Fit(a, r.in)'
        BY <2>3, <2>4, <4>3, FitKept
      <4>5. parent'[a] \in Workspaces /\ parent'[a] = parent'[r.in]
            /\ (r.in \in live' => a \in live' \cup late')
        <5>1. Up(r.in)' = parent'[r.in] /\ parent'[r.in] \in Workspaces \cup {None}
          BY <2>3 DEF Up, TypeOK, Tree
        <5>2. Up(Up(r.in))' = None
          BY <5>1, KindsApart DEF Up, TypeOK
        <5>3. r.in \notin Workspaces /\ None \notin Workspaces
          BY <2>3, KindsApart
        <5> QED BY <4>4, <5>1, <5>2, <5>3 DEF Fit
      <4>6. Up(r.row)' = r.in /\ Up(Up(r.row))' = parent'[r.in]
        BY <2>3, <3>2 DEF Up, TypeOK
      <4>7. r.in \in live'
        BY <2>6, <3>2 DEF Insert
      <4> QED BY <4>5, <4>6, <4>7 DEF Fit
    <3> QED BY <1>1, <2>4, <3>1, <3>3
  <2> QED BY <1>5, <2>1, <2>5, <2>6 DEF InsertTask
<1>6. ASSUME NEW h \in Handlers, NEW t \in Tasks, NEW n \in TaskNode, WriteNode(h, t, n),
             UNCHANGED <<rowVars, free>>,
             t \notin free => \A a \in {n.assignee, n.reserved, n.by} \ {None} : Fit(a, t)
      PROVE  TasksFit'
  <2>1. node'[t] = n /\ \A u \in Tasks : u # t => node'[u] = node[u]
    BY <1>6, WriteNodeIs
  <2>2. /\ Of(t)' = {n.assignee, n.reserved, n.by} \ {None}
        /\ \A u \in Tasks : u # t => Of(u)' = Of(u)
    BY <2>1 DEF Of
  <2>3. \A a \in Agents : Spared(a)
    BY <1>6 DEF rowVars, Spared
  <2>4. \A a \in Agents : Fit(a, t) => Fit(a, t)'
    BY <2>3, PlacesAre, FitKept
  <2> QED BY <1>1, <1>6, <2>2, <2>3, <2>4
<1>7. ASSUME NEW h \in Handlers, req[h] # Idle, ClaimTaskNode(h) PROVE TasksFit'
  <2>1. PICK r \in NodeRequest : r = req[h] /\ r.op = "claim"
    BY <1>7, AtRequest, Requested DEF ClaimTaskNode
  <2>2. r \in Request /\ Fits(r)
    BY <2>1, RequestsAre DEF AllFit, RequestsFit
  <2>3. r.row \in Tasks /\ r.who \in Id /\ node[r.row] \in TaskNode
    BY <2>1 DEF NodeRequest, TypeOK
  <2>4. \A a \in Agents : Spared(a)
    BY <1>7 DEF ClaimTaskNode, rowVars, Spared
  <2>5. PICK n : n = [node[r.row] EXCEPT !.assignee = r.who, !.reserved = r.who]
    OBVIOUS
  <2>6. /\ n \in TaskNode
        /\ n.assignee = r.who /\ n.reserved = r.who /\ n.by = node[r.row].by
    BY <2>3, <2>5 DEF TaskNode
  <2>7. ASSUME r.row \notin free, NEW a \in {n.assignee, n.reserved, n.by} \ {None}
        PROVE  Fit(a, r.row)
    <3>1. CASE a = r.who
      BY <2>1, <2>2, <2>7, <3>1 DEF Fits, InHand
    <3>2. CASE a = node[r.row].by
      <4>1. a \in Agents /\ a \in Of(r.row)
        BY <2>3, <2>7, <3>2 DEF TaskNode, Id, Of
      <4> QED BY <2>3, <2>7, <4>1 DEF AllFit, TasksFit
    <3> QED BY <2>6, <2>7, <3>1, <3>2
  <2>8. WriteNode(h, r.row, n) \/ UNCHANGED node
    BY <1>7, <2>1, <2>5 DEF ClaimTaskNode
  <2>9. UNCHANGED <<rowVars, free>>
    BY <1>7 DEF ClaimTaskNode
  <2> QED BY <1>3, <1>6, <2>3, <2>4, <2>6, <2>7, <2>8, <2>9
<1>8. ASSUME NEW h \in Handlers, req[h] # Idle, UpdateTaskNode(h) PROVE TasksFit'
  <2>1. PICK r \in NodeRequest : r = req[h] /\ r.op = "pass"
    BY <1>8, AtRequest, Requested DEF UpdateTaskNode
  <2>2. r \in Request /\ Fits(r)
    BY <2>1, RequestsAre DEF AllFit, RequestsFit
  <2>3. r.row \in Tasks /\ r.who \in Id /\ r.node \in TaskNode
    BY <2>1 DEF NodeRequest
  <2>4. \A a \in Agents : Spared(a)
    BY <1>8 DEF UpdateTaskNode, rowVars, Spared
  <2>5. UNCHANGED <<rowVars, free>>
    BY <1>8 DEF UpdateTaskNode
  <2>6. \/ UNCHANGED node
        \/ \E a \in {None, r.node.assignee}, v \in {None, r.node.reserved, r.node.assignee},
               b \in {None, r.node.by, r.node.assignee, r.who} :
              WriteNode(h, r.row, [assignee |-> a, reserved |-> v, by |-> b])
    BY <1>8, <2>1 DEF UpdateTaskNode
  <2>7. ASSUME NEW a \in {None, r.node.assignee},
               NEW v \in {None, r.node.reserved, r.node.assignee},
               NEW b \in {None, r.node.by, r.node.assignee, r.who},
               WriteNode(h, r.row, [assignee |-> a, reserved |-> v, by |-> b])
        PROVE  TasksFit'
    <3>1. PICK n : n = [assignee |-> a, reserved |-> v, by |-> b]
      OBVIOUS
    <3>2. n \in TaskNode /\ n.assignee = a /\ n.reserved = v /\ n.by = b
      BY <2>3, <3>1 DEF TaskNode, Id
    <3>3. {a, v, b} \ {None} \subseteq InHand(r) \ {None}
      BY <2>1 DEF InHand
    <3>4. r.row \notin free => \A c \in {a, v, b} \ {None} : Fit(c, r.row)
      BY <2>1, <2>2, <3>3 DEF Fits
    <3>5. r.row \notin free => \A c \in {n.assignee, n.reserved, n.by} \ {None} : Fit(c, r.row)
      BY <3>2, <3>4
    <3> QED BY <1>6, <2>3, <2>5, <2>7, <3>1, <3>2, <3>5
  <2> QED BY <1>3, <2>4, <2>6, <2>7
<1>9. \/ UNCHANGED node
      \/ \E a \in Agents : CommitAgent(a)
      \/ \E h \in Handlers : /\ req[h] # Idle
                             /\ InsertTask(h) \/ ClaimTaskNode(h) \/ UpdateTaskNode(h)
  BY NextNodes
<1>10. (\A a \in Agents : Spared(a)) \/ \E a \in Agents : CommitAgent(a)
  BY NextSpares
<1>11. CASE \E a \in Agents : CommitAgent(a)
  BY <1>4, <1>11, CommitsRemove
<1>12. CASE UNCHANGED node /\ \A a \in Agents : Spared(a)
  BY <1>3, <1>12
<1>13. CASE \E h \in Handlers : /\ req[h] # Idle
                                /\ InsertTask(h) \/ ClaimTaskNode(h) \/ UpdateTaskNode(h)
  BY <1>5, <1>7, <1>8, <1>13
<1> QED BY <1>9, <1>10, <1>11, <1>12, <1>13

\* Pairs of rows that stay, and those that a handler had looked up.
LEMMA NextPairsFit ==
  ASSUME AllFit, Fine, Next
  PROVE  LinksFit' /\ UsageFits'
<1> USE DEF Fine
<1>1. /\ \A x \in live : x \in Rows => parent[x] # None /\ parent'[x] = parent[x]
      /\ None \notin live
  BY KindsApart DEF Tree, TypeOK, Steady
<1>2. \A l \in links : parent'[l[1]] = parent'[l[2]]
  <2> TAKE l \in links
  <2>1. PICK a \in Agents \cap live, s \in (Skills \cup Servers) \cap live : l = <<a, s>>
    BY DEF TypeOK
  <2>2. parent[a] = parent[s]
    BY <2>1 DEF AllFit, LinksFit
  <2>3. parent'[a] = parent'[s]
    BY <1>1, <2>2, PlacesAre
  <2> QED BY <2>1, <2>3
<1>3. \A u \in usage : parent'[u[2]] = WorkspaceOf(u[1])'
  <2> TAKE u \in usage
  <2>1. PICK t \in Tasks \cap live, a \in Agents \cap live : u = <<t, a>>
    BY DEF TypeOK
  <2>2. parent[a] = WorkspaceOf(t)
    BY <2>1 DEF AllFit, UsageFits
  <2>3. WorkspaceOf(t)' = WorkspaceOf(t) /\ parent'[a] = parent[a]
    BY <1>1, PlacesAre, WorkspaceKept
  <2>4. parent'[a] = WorkspaceOf(t)'
    BY <2>2, <2>3
  <2> QED BY <2>1, <2>4 DEF WorkspaceOf
<1>4. ASSUME links' \subseteq links, usage' \subseteq usage
      PROVE  LinksFit' /\ UsageFits'
  BY <1>2, <1>3, <1>4 DEF LinksFit, UsageFits
<1>5. ASSUME NEW h \in Handlers, req[h] # Idle, InsertLink(h)
      PROVE  LinksFit' /\ UsageFits'
  <2>1. PICK r \in LinkRequest : r = req[h] /\ r.op = "link"
    BY <1>5, AtRequest, Requested DEF InsertLink
  <2>2. r \in Request /\ Fits(r)
    BY <2>1, RequestsAre DEF AllFit, RequestsFit
  <2>3. parent[r.who] = parent[r.to] /\ parent' = parent
    BY <1>5, <2>1, <2>2 DEF Fits, InsertLink, rowVars
  <2>4. links' \subseteq links \cup {<<r.who, r.to>>} /\ usage' = usage
    BY <1>5, <2>1 DEF InsertLink, Linked
  <2>5. LinksFit'
    BY <1>2, <2>3, <2>4 DEF LinksFit
  <2>6. UsageFits'
    BY <1>3, <2>4 DEF UsageFits
  <2> QED BY <2>5, <2>6
<1>6. ASSUME NEW h \in Handlers, req[h] # Idle, CreateTokenUsage(h)
      PROVE  LinksFit' /\ UsageFits'
  <2>1. PICK r \in ReportRequest : r = req[h] /\ r.op = "report"
    BY <1>6, AtRequest, Requested DEF CreateTokenUsage
  <2>2. r \in Request /\ Fits(r)
    BY <2>1, RequestsAre DEF AllFit, RequestsFit
  <2>3. parent'[r.who] = WorkspaceOf(r.row)'
    BY <1>6, <2>1, <2>2 DEF Fits, CreateTokenUsage, rowVars, WorkspaceOf
  <2>4. usage' \subseteq usage \cup {<<r.row, r.who>>} /\ links' = links
    BY <1>6, <2>1 DEF CreateTokenUsage
  <2>5. UsageFits'
    BY <1>3, <2>3, <2>4 DEF UsageFits, WorkspaceOf
  <2>6. LinksFit'
    BY <1>2, <2>4 DEF LinksFit
  <2> QED BY <2>5, <2>6
<1>7. \/ links' \subseteq links /\ usage' \subseteq usage
      \/ \E h \in Handlers : req[h] # Idle /\ (InsertLink(h) \/ CreateTokenUsage(h))
  <2>1. ASSUME NEW h \in Handlers, Writes(h)
        PROVE  \/ links' \subseteq links /\ usage' \subseteq usage
               \/ InsertLink(h) \/ CreateTokenUsage(h)
    BY <2>1 DEF Writes, InsertTemplate, ReplaceTemplateNodes, ListTemplateNodes, InsertTask,
                ClaimTaskNode, UpdateTaskNode, InsertComment, pairVars
  <2>2. CASE Deletes
    BY <2>2, DeletesAre DEF Quietly, CommitAgent, CommitProject, DeleteRow, Delete, Goes, pairVars
  <2>3. CASE Links
    BY <2>3 DEF Links, RemoveSkill, RemoveMcpServer, RemoveLink, AddProjectMember,
       AddProjectReviewer, RemoveProjectMember, RemoveProjectReviewer, AddToList, RemoveFromList
  <2> QED BY <2>1, <2>2, <2>3, CreatesAdd, RequestsOpen DEF Next, pairVars
<1> QED BY <1>4, <1>5, <1>6, <1>7

\* A comment is about the node of its task.
LEMMA NextCommentsFit ==
  ASSUME AllFit, Fine, Next
  PROVE  CommentsFit'
<1> USE DEF Fine
<1>1. ASSUME about' = about, \A c \in Comments : parent'[c] = parent[c] PROVE CommentsFit'
  BY <1>1 DEF AllFit, CommentsFit
<1>2. CASE Creates
  <2>1. PICK r, p : Adds(r, p) /\ r \notin Comments
    BY <1>2, CreatesAdd
  <2>2. \A c \in Comments : parent'[c] = parent[c]
    BY <2>1, PlacesAre DEF Adds, TypeOK
  <2> QED BY <1>1, <1>2, <2>2, CreatesAdd
<1>3. CASE Deletes
  <2>1. about' = about
    BY <1>3, DeletesAre DEF Quietly, CommitAgent, CommitProject, DeleteRow, nameVars
  <2> QED BY <1>1, <1>3, <2>1, DeletesRemove
<1>4. CASE Links
  BY <1>1, <1>4, LinksStay DEF rowVars, nameVars
<1>5. ASSUME NEW h \in Handlers, Requests(h) PROVE CommentsFit'
  BY <1>1, <1>5, RequestsOpen DEF rowVars, nameVars
<1>6. ASSUME NEW h \in Handlers, req[h] # Idle, InsertComment(h) PROVE CommentsFit'
  <2>1. PICK r \in CommentRequest : r = req[h] /\ r.op = "comment"
    BY <1>6, AtRequest, Requested DEF InsertComment
  <2>2. r \in Request /\ Fits(r)
    BY <2>1, RequestsAre DEF AllFit, RequestsFit
  <2>3. r.about = r.in /\ r.row \in Comments
    BY <2>1, <2>2 DEF Fits, CommentRequest
  <2>4. CASE Insert(r.row, r.in) /\ about' = [about EXCEPT ![r.row] = r.about]
    <3>1. \A c \in Comments : about[c] = parent[c]
      BY DEF AllFit, CommentsFit
    <3>2. \A c \in Comments : about'[c] = parent'[c]
      BY <2>3, <2>4, <3>1, PlacesAre DEF Insert, TypeOK
    <3> QED BY <3>2 DEF CommentsFit
  <2> QED BY <1>1, <1>6, <2>1, <2>4 DEF InsertComment, rowVars
<1>7. ASSUME NEW h \in Handlers, req[h] # Idle, Writes(h), ~InsertComment(h) PROVE CommentsFit'
  <2>1. about' = about
    BY <1>7 DEF Writes, InsertTemplate, ReplaceTemplateNodes, ListTemplateNodes, InsertTask,
                ClaimTaskNode, UpdateTaskNode, CreateTokenUsage, InsertLink, nameVars
  <2>2. parent' = parent \/ \E r \in Templates \cup Tasks : \E p : Insert(r, p)
    <3>1. PICK r \in Request : r = req[h]
      BY <1>7, AtRequest
    <3>2. CASE InsertTemplate(h)
      BY <3>1, <3>2, Requested DEF InsertTemplate, TemplateRequest, rowVars
    <3>3. CASE InsertTask(h)
      BY <3>1, <3>3, Requested DEF InsertTask, TaskRequest, rowVars
    <3> QED BY <1>7, <3>2, <3>3 DEF Writes, ReplaceTemplateNodes, ListTemplateNodes,
                ClaimTaskNode, UpdateTaskNode, CreateTokenUsage, InsertLink, rowVars
  <2>3. \A c \in Comments : parent'[c] = parent[c]
    BY <2>2, KindsApart, PlacesAre DEF Insert, TypeOK
  <2> QED BY <1>1, <2>1, <2>3
<1> QED BY <1>2, <1>3, <1>4, <1>5, <1>6, <1>7 DEF Next

\* Only a new memory names another task.
LEMMA NextSources ==
  ASSUME TypeOK, Next, NEW m \in Memories, NEW t \in Tasks, source'[m] = t, source[m] # t
  PROVE  \E w \in Workspaces : CreateMemory(m, w, t)
<1>1. t # None
  BY KindsApart DEF Rows
<1>2. ASSUME NEW n \in Memories, NEW w \in Workspaces, NEW u \in Tasks \cup {None},
             CreateMemory(n, w, u)
      PROVE  n = m /\ u = t
  BY <1>2 DEF CreateMemory, TypeOK
<1>3. CASE Creates
  BY <1>2, <1>3 DEF Creates, CreateAgent, CreateProject, CreateSkill, CreateMcpServer,
     CreateGitCredential, ImportWorkflow, CreateRow, nameVars
<1>4. ASSUME NEW p \in Projects, CommitProject(p) PROVE source'[m] \in {source[m], None}
  BY <1>4 DEF CommitProject
<1>5. CASE Deletes
  BY <1>1, <1>4, <1>5, DeletesAre DEF Quietly, CommitAgent, DeleteRow, nameVars
<1>6. ASSUME NEW h \in Handlers, Writes(h) PROVE source' = source
  BY <1>6 DEF Writes, InsertTemplate, ReplaceTemplateNodes, ListTemplateNodes, InsertTask,
     ClaimTaskNode, UpdateTaskNode, CreateTokenUsage, InsertComment, InsertLink, nameVars
<1> QED BY <1>3, <1>5, <1>6, LinksStay, RequestsOpen DEF Next, nameVars

\* A memory's task goes with its project, which takes its name away first, or with the
\* workspace of both.
LEMMA NextMemoriesFit ==
  ASSUME AllFit, Fine, Next
  PROVE  MemoriesFit'
<1> USE DEF Fine
<1>1. ASSUME NEW m \in Memories \ free, NEW t \in Tasks, source[m] = t,
             t \in live => t \in live' \/ WorkspaceOf(t) \notin live'
      PROVE  MemoryFits(m, t)'
  <2>1. /\ parent[t] \in Projects /\ parent[m] \in Workspaces /\ WorkspaceOf(t) = parent[m]
        /\ m \in live => t \in live
    BY <1>1 DEF AllFit, MemoriesFit, MemoryFits
  <2>2. m \in Rows /\ parent[m] # None /\ parent[t] # None
    BY <2>1, PlacesAre, KindsApart DEF Rows
  <2>3. parent'[m] = parent[m] /\ (m \in live' => m \in live /\ parent[m] \in live')
    BY <2>2 DEF Steady, Tree
  <2>4. parent'[t] = parent[t] /\ WorkspaceOf(t)' = WorkspaceOf(t)
    BY <2>2, WorkspaceKept
  <2>5. m \in live' => t \in live'
    BY <1>1, <2>1, <2>3
  <2> QED BY <2>1, <2>3, <2>4, <2>5 DEF MemoryFits
<1>2. ASSUME source' = source, live \subseteq live' PROVE MemoriesFit'
  BY <1>1, <1>2 DEF MemoriesFit
<1>3. CASE Creates
  <2>1. live \subseteq live'
    BY <1>3, CreatesAdd DEF Adds
  <2>2. ASSUME NEW m \in Memories, NEW w \in Workspaces, NEW t \in Tasks \cup {None},
               CreateMemory(m, w, t)
        PROVE  MemoriesFit'
    <3>1. ASSUME m \notin free', t \in Tasks PROVE MemoryFits(m, t)'
      <4>1. t \in live /\ WorkspaceOf(t) = w
        BY <2>2, <3>1, KindsApart DEF CreateMemory, Rows
      <4>2. parent[t] \in Projects /\ parent[t] # None
        BY <4>1, PlacesAre, KindsApart DEF Tree, TypeOK
      <4>3. parent'[t] = parent[t] /\ WorkspaceOf(t)' = w
        BY <3>1, <4>1, <4>2, WorkspaceKept
      <4>4. parent'[m] = w
        BY <2>2, PlacesAre DEF CreateMemory, Insert, TypeOK
      <4> QED BY <2>1, <4>1, <4>2, <4>3, <4>4 DEF MemoryFits
    <3>2. source'[m] = t /\ \A n \in Memories : n # m => source'[n] = source[n]
      BY <2>2 DEF CreateMemory, TypeOK
    <3> SUFFICES ASSUME NEW n \in Memories \ free', NEW u \in Tasks, source'[n] = u
                 PROVE  MemoryFits(n, u)'
      BY DEF MemoriesFit
    <3>3. CASE n = m
      BY <3>1, <3>2, <3>3
    <3>4. CASE n # m
      BY <1>1, <2>1, <3>2, <3>4
    <3> QED BY <3>3, <3>4
  <2>3. source' = source \/ \E w \in Workspaces, m \in Memories, t \in Tasks \cup {None} :
                              CreateMemory(m, w, t)
    BY <1>3 DEF Creates, CreateAgent, CreateProject, CreateSkill, CreateMcpServer,
                CreateGitCredential, ImportWorkflow, CreateRow, nameVars
  <2> QED BY <1>2, <2>1, <2>2, <2>3
<1>4. ASSUME NEW r, Removes(r), r \notin Tasks, NEW t \in Tasks, parent[t] # None, parent[t] # r
      PROVE  t \in live => t \in live' \/ WorkspaceOf(t) \notin live'
  <2>1. /\ t \in Rows /\ Up(t) = parent[t] /\ Up(parent[t]) = WorkspaceOf(t)
        /\ Up(WorkspaceOf(t)) = None /\ r # None
    BY <1>4, WorkspaceKept, UpIs, PlacesAre, KindsApart DEF WorkspaceOf, Removes
  <2>2. t \in Below(r) => r = WorkspaceOf(t)
    BY <1>4, <2>1 DEF Below
  <2> QED BY <1>4, <2>2 DEF Removes
<1>5. ASSUME NEW p \in Projects, CommitProject(p), Removes(p) PROVE MemoriesFit'
  <2>1. p \notin Tasks
    BY KindsApart
  <2> SUFFICES ASSUME NEW m \in Memories \ free', NEW t \in Tasks, source'[m] = t
               PROVE  MemoryFits(m, t)'
    BY DEF MemoriesFit
  <2>2. m \notin locked[p] /\ source[m] = t /\ going[p] # 0
    BY <1>5, KindsApart DEF CommitProject, Rows
  <2>3. t \in live => parent[t] # p
    BY <2>2 DEF AllFit, AllLocked, MemoriesLocked
  <2>4. parent[t] # None
    BY <2>2, KindsApart DEF AllFit, MemoriesFit, MemoryFits, Rows
  <2>5. t \in live => t \in live' \/ WorkspaceOf(t) \notin live'
    BY <1>4, <1>5, <2>1, <2>3, <2>4
  <2> QED BY <1>1, <2>2, <2>5
<1>6. ASSUME NEW r \in (Rows \cup Workspaces) \ (Projects \cup Tasks), Removes(r), source' = source
      PROVE  MemoriesFit'
  <2> SUFFICES ASSUME NEW m \in Memories \ free', NEW t \in Tasks, source[m] = t
               PROVE  MemoryFits(m, t)'
    BY <1>6 DEF MemoriesFit
  <2>1. parent[t] \in Projects /\ parent[t] # None
    BY KindsApart DEF AllFit, MemoriesFit, MemoryFits, Rows
  <2> QED BY <1>1, <1>4, <1>6, <2>1
<1>7. CASE Deletes
  <2>1. ASSUME Quietly PROVE MemoriesFit'
    BY <1>2, <2>1 DEF Quietly, rowVars, nameVars
  <2>2. ASSUME NEW a \in Agents, CommitAgent(a), Removes(a) PROVE MemoriesFit'
    <3>1. a \in (Rows \cup Workspaces) \ (Projects \cup Tasks)
      BY KindsApart DEF Rows
    <3> QED BY <1>6, <2>2, <3>1 DEF CommitAgent
  <2> QED BY <1>5, <1>6, <1>7, <2>1, <2>2, DeletesAre DEF DeleteRow, nameVars
<1>8. ASSUME NEW h \in Handlers, req[h] # Idle, Writes(h) PROVE MemoriesFit'
  <2>1. source' = source
    BY <1>8 DEF Writes, InsertTemplate, ReplaceTemplateNodes, ListTemplateNodes, InsertTask,
       ClaimTaskNode, UpdateTaskNode, CreateTokenUsage, InsertComment, InsertLink, nameVars
  <2>2. live \subseteq live'
    BY <1>8, WritesAdd DEF Stays, Adds, rowVars
  <2> QED BY <1>2, <2>1, <2>2
<1>9. ASSUME NEW h \in Handlers, Requests(h) PROVE MemoriesFit'
  BY <1>2, <1>9, RequestsOpen DEF rowVars, nameVars
<1>10. CASE Links
  BY <1>2, <1>10, LinksStay DEF rowVars, nameVars
<1> QED BY <1>3, <1>7, <1>8, <1>9, <1>10 DEF Next

\* Only deletions go on with deletions, each with its own.
LEMMA NextGoing ==
  ASSUME TypeOK, Next, NEW x \in Agents \cup Projects
  PROVE  \/ going'[x] = going[x] /\ locked'[x] = locked[x]
         \/ going'[x] = 0
         \/ x \in Agents /\ (DeleteAgent(x) \/ ClearTaskNodes(x))
         \/ x \in Projects /\ DeleteProject(x)
<1>1. ASSUME UNCHANGED txVars PROVE going'[x] = going[x] /\ locked'[x] = locked[x]
  BY <1>1 DEF txVars
<1>2. ASSUME NEW h \in Handlers, Writes(h) PROVE UNCHANGED txVars
  BY <1>2 DEF Writes, InsertTemplate, ReplaceTemplateNodes, ListTemplateNodes, InsertTask,
     ClaimTaskNode, UpdateTaskNode, CreateTokenUsage, InsertComment, InsertLink
<1>3. ASSUME NEW y \in Agents \cup Projects, NEW rows, Statement(y, rows), y # x
      PROVE  going'[x] = going[x] /\ locked'[x] = locked[x]
  BY <1>3 DEF Statement, TypeOK
<1>4. ASSUME NEW y \in Agents \cup Projects, Ends(y)
      PROVE  (going'[x] = going[x] /\ locked'[x] = locked[x]) \/ going'[x] = 0
  BY <1>4 DEF Ends, TypeOK
<1>5. CASE Deletes
  <2>1. ASSUME NEW a \in Agents, DeleteAgent(a) \/ ClearTaskNodes(a), a # x
        PROVE  going'[x] = going[x] /\ locked'[x] = locked[x]
    BY <1>3, <2>1 DEF DeleteAgent, ClearTaskNodes
  <2>2. ASSUME NEW p \in Projects, DeleteProject(p), p # x
        PROVE  going'[x] = going[x] /\ locked'[x] = locked[x]
    BY <1>3, <2>2 DEF DeleteProject
  <2>3. ASSUME NEW a \in Agents, CommitAgent(a) \/ Rollback(a) PROVE Ends(a)
    BY <2>3 DEF CommitAgent, Rollback
  <2>4. ASSUME NEW p \in Projects, CommitProject(p) \/ Rollback(p) PROVE Ends(p)
    BY <2>4 DEF CommitProject, Rollback
  <2>5. ASSUME NEW r, DeleteRow(r) PROVE UNCHANGED txVars
    BY <2>5 DEF DeleteRow, Delete
  <2>6. \/ \E a \in Agents : DeleteAgent(a) \/ ClearTaskNodes(a)
        \/ \E p \in Projects : DeleteProject(p)
        \/ \E y \in Agents \cup Projects : Ends(y)
        \/ UNCHANGED txVars
    BY <1>5, <2>3, <2>4, <2>5 DEF Deletes, DeleteWorkspace, DeleteWorkflowTemplate,
       DeleteSkill, DeleteMcpServer, DeleteMemory
  <2> QED BY <1>1, <1>4, <2>1, <2>2, <2>6
<1> QED BY <1>1, <1>2, <1>5, CreatesAdd, LinksStay, RequestsOpen DEF Next

\* Who is late is late until the deletion begins again.
LEMMA NextLate ==
  ASSUME TypeOK, Next, NEW a \in Agents, a \in late
  PROVE  a \in late' \/ DeleteAgent(a)
<1>1. ASSUME NEW h \in Handlers, req[h] # Idle, Writes(h) PROVE late \subseteq late'
  BY <1>1, WritesRemember
<1>2. ASSUME NEW b \in Agents, DeleteAgent(b), b # a PROVE a \in late'
  BY <1>2 DEF DeleteAgent
<1>3. CASE Deletes
  BY <1>2, <1>3, DeletesRemember
<1> QED BY <1>1, <1>3, CreatesAdd, LinksStay, RequestsOpen DEF Next

\* A template that names an agent while it is being deleted will lose it, or the agent is late.
LEMMA NextTemplatesLocked ==
  ASSUME AllFit, Fine, Next
  PROVE  TemplatesLocked'
<1> USE DEF Fine
<1> SUFFICES ASSUME NEW a \in Agents, NEW m \in Templates,
                    going'[a] # 0, tmplNode'[m].assignee = a
             PROVE  m \in locked'[a] \/ a \in late'
  BY DEF TemplatesLocked
<1>1. CASE tmplNode[m].assignee = a
  <2>1. CASE DeleteAgent(a)
    BY <1>1, <2>1 DEF DeleteAgent, Statement, TemplatesNaming, TypeOK
  <2>2. CASE ClearTaskNodes(a)
    <3>1. going[a] = 1 /\ late' = late /\ locked[a] \subseteq locked'[a]
      BY <2>2 DEF ClearTaskNodes, Statement, TypeOK
    <3> QED BY <1>1, <3>1 DEF AllFit, AllLocked, TemplatesLocked
  <2>3. CASE going'[a] = going[a] /\ locked'[a] = locked[a] /\ ~DeleteAgent(a)
    BY <1>1, <2>3, NextLate DEF AllFit, AllLocked, TemplatesLocked
  <2>4. a \notin Projects
    BY AgentsAre, KindsApart
  <2> QED BY <2>1, <2>2, <2>3, <2>4, NextGoing
<1>2. CASE tmplNode[m].assignee # a
  <2>1. ASSUME NEW b \in Agents, CommitAgent(b) PROVE FALSE
    <3>1. tmplNode'[m] \in {tmplNode[m], NoTemplateNode}
      BY <2>1 DEF CommitAgent
    <3> QED BY <1>2, <3>1, AgentsAre DEF NoTemplateNode
  <2>2. ASSUME NEW h \in Handlers, req[h] # Idle, InsertTemplate(h) \/ ReplaceTemplateNodes(h)
        PROVE  a \in late'
    <3>1. /\ tmplNode' = [tmplNode EXCEPT ![req[h].row] = req[h].node]
          /\ late' = late \cup Missed({req[h].node.assignee}, 1)
      BY <1>2, <2>2 DEF InsertTemplate, ReplaceTemplateNodes
    <3>2. req[h].node.assignee = a
      BY <1>2, <3>1 DEF TypeOK
    <3>3. going[a] = going'[a] /\ going[a] \in 0..2
      BY <2>2 DEF InsertTemplate, ReplaceTemplateNodes, txVars, TypeOK
    <3> QED BY <3>1, <3>2, <3>3 DEF Missed
  <2> QED BY <1>2, <2>1, <2>2, NextNames
<1> QED BY <1>1, <1>2

\* Nor does a task go on naming an agent that is gone and not late.
LEMMA NextTasksLocked ==
  ASSUME AllFit, Fine, Next
  PROVE  TasksLocked'
<1> USE DEF Fine
<1> SUFFICES ASSUME NEW a \in Agents, NEW t \in Tasks, going'[a] = 2, a \in Of(t)'
             PROVE  t \in locked'[a] \/ a \in late'
  BY DEF TasksLocked
<1>1. CASE a \in Of(t)
  <2>1. ~DeleteAgent(a)
    BY DEF DeleteAgent, Statement, TypeOK
  <2>2. CASE ClearTaskNodes(a)
    BY <1>1, <2>2 DEF ClearTaskNodes, Statement, TasksNaming, Of, TypeOK
  <2>3. CASE going'[a] = going[a] /\ locked'[a] = locked[a]
    BY <1>1, <2>1, <2>3, NextLate DEF AllFit, AllLocked, TasksLocked
  <2>4. a \notin Projects
    BY AgentsAre, KindsApart
  <2> QED BY <2>1, <2>2, <2>3, <2>4, NextGoing
<1>2. CASE a \notin Of(t)
  <2>1. ASSUME NEW b \in Agents, CommitAgent(b) PROVE FALSE
    BY <1>2, <2>1 DEF CommitAgent, NoTaskNode, Of
  <2>2. ASSUME NEW h \in Handlers, req[h] # Idle, InsertTask(h) PROVE a \in late'
    <3>2. PICK b : b = req[h].node.assignee
      OBVIOUS
    <3>3. /\ node' = [node EXCEPT ![req[h].row] = [assignee |-> b, reserved |-> b, by |-> None]]
          /\ late' = late \cup Missed({b}, 2)
      BY <1>2, <2>2, <3>2 DEF InsertTask, Of
    <3>4. a = b
      BY <1>2, <3>3 DEF TypeOK, Of
    <3>5. going[a] = going'[a]
      BY <2>2 DEF InsertTask, txVars
    <3> QED BY <3>3, <3>4, <3>5 DEF Missed
  <2>3. ASSUME NEW h \in Handlers, NEW u \in Tasks, NEW n \in TaskNode, WriteNode(h, u, n),
               UNCHANGED txVars
        PROVE  a \in late'
    <3>1. node'[u] = n /\ \A v \in Tasks : v # u => node'[v] = node[v]
      BY <2>3, WriteNodeIs
    <3>2. a \in {n.assignee, n.reserved, n.by}
      BY <1>2, <3>1 DEF Of
    <3>3. going[a] = going'[a]
      BY <2>3 DEF txVars
    <3> QED BY <2>3, <3>2, <3>3 DEF Missed, WriteNode
  <2>4. ASSUME NEW h \in Handlers, req[h] # Idle, ClaimTaskNode(h) \/ UpdateTaskNode(h)
        PROVE  a \in late'
    <3>1. \E u \in Tasks, n \in TaskNode : WriteNode(h, u, n)
      BY <1>2, <2>4, NodesWritten DEF Of
    <3>2. UNCHANGED txVars
      BY <2>4 DEF ClaimTaskNode, UpdateTaskNode
    <3> QED BY <2>3, <3>1, <3>2
  <2>5. \/ Of(t)' = Of(t)
        \/ \E b \in Agents : CommitAgent(b)
        \/ \E h \in Handlers : /\ req[h] # Idle
                               /\ InsertTask(h) \/ ClaimTaskNode(h) \/ UpdateTaskNode(h)
    BY NextNodes DEF Of
  <2> QED BY <1>2, <2>1, <2>2, <2>4, <2>5
<1> QED BY <1>1, <1>2

\* Nor a memory a task that is gone, unless it is free.
LEMMA NextMemoriesLocked ==
  ASSUME AllFit, Fine, Next
  PROVE  MemoriesLocked'
<1> USE DEF Fine
<1> SUFFICES ASSUME NEW p \in Projects, NEW m \in Memories \ free', NEW t \in Tasks \cap live',
                    going'[p] # 0, source'[m] = t, parent'[t] = p
             PROVE  m \in locked'[p]
  BY DEF MemoriesLocked
<1>0. p # None /\ t # None
  BY KindsApart DEF Rows
<1>1. CASE source[m] = t
  <2>1. parent[t] \in Projects
    BY <1>1 DEF AllFit, MemoriesFit, MemoryFits
  <2>2. parent[t] # None /\ t \in Rows
    BY <2>1, KindsApart, PlacesAre DEF Rows
  <2>3. t \in live /\ parent[t] = p
    BY <2>2 DEF Steady
  <2>4. CASE DeleteProject(p)
    <3>1. m \in MemoriesFrom(p)
      BY <1>1, <2>3 DEF MemoriesFrom
    <3> QED BY <2>4, <3>1 DEF DeleteProject, Statement, TypeOK
  <2>5. CASE going'[p] = going[p] /\ locked'[p] = locked[p]
    BY <1>1, <2>3, <2>5 DEF AllFit, AllLocked, MemoriesLocked
  <2>6. p \notin Agents
    BY KindsApart, PlacesAre
  <2> QED BY <2>4, <2>5, <2>6, NextGoing
<1>2. CASE source[m] # t
  <2>1. PICK w \in Workspaces : CreateMemory(m, w, t)
    BY <1>0, <1>2, NextSources
  <2>2. t \in live /\ going[parent[t]] = 0
    BY <1>0, <2>1 DEF CreateMemory
  <2>3. parent[t] # None /\ t \in Rows
    BY <2>2, KindsApart, PlacesAre DEF AllFit, Tree, TypeOK
  <2>4. parent[t] = p
    BY <2>3 DEF Steady
  <2>5. going'[p] = going[p]
    BY <2>1 DEF CreateMemory, txVars
  <2> QED BY <2>2, <2>4, <2>5
<1> QED BY <1>1, <1>2

\* At first nothing is named.
LEMMA InitFits == Init => AllFit
<1> SUFFICES ASSUME Init PROVE AllFit
  OBVIOUS
<1> USE DEF Init
<1>1. None \notin Workspaces \cup Rows /\ Workspaces \cap Rows = {}
  BY KindsApart
<1>2. Tree
  BY <1>1 DEF Tree
<1>3. Reserved /\ RequestsFit
  BY Requested DEF Reserved, RequestsFit, Idle, Making
<1>4. TemplatesFit
  BY DEF TemplatesFit, checkedNode, NoTemplateNode
<1>5. TasksFit
  BY DEF TasksFit, Of, NoTaskNode
<1>6. CommentsFit
  BY DEF CommentsFit, Rows
<1>7. MemoriesFit
  BY <1>1 DEF MemoriesFit, Rows
<1>8. LinksFit /\ UsageFits
  BY DEF LinksFit, UsageFits
<1>9. AllLocked
  BY DEF AllLocked, TemplatesLocked, TasksLocked, MemoriesLocked
<1> QED BY <1>2, <1>3, <1>4, <1>5, <1>6, <1>7, <1>8, <1>9 DEF AllFit

\* Every step keeps all that fits.
LEMMA NextAllFit == TypeOK /\ AllFit /\ [Next]_vars => AllFit'
<1> SUFFICES ASSUME TypeOK, AllFit, [Next]_vars PROVE AllFit'
  OBVIOUS
<1>1. CASE UNCHANGED vars
  <2> USE <1>1 DEF vars, rowVars, nameVars, pairVars, txVars
  <2>1. Tree' /\ Reserved'
    BY DEF AllFit, Tree, Places, Reserved
  <2>2. Fine
    BY NextTypes, <2>1 DEF Fine, Steady, AllFit
  <2>3. \A a \in Agents : Spared(a)
    BY DEF Spared
  <2>4. RequestsFit'
    <3>1. \A r \in Request : Fits(r) => Fits(r)'
      BY <2>2, <2>3, FitsKept
    <3> QED BY <3>1 DEF AllFit, RequestsFit
  <2>5. \A a \in Agents, x \in Templates \cup Tasks : Fit(a, x) => Fit(a, x)'
    BY <2>2, <2>3, FitKept, PlacesAre DEF Fine
  <2>6. TemplatesFit' /\ TasksFit'
    BY <2>5 DEF AllFit, TemplatesFit, TasksFit, checkedNode, Of
  <2>7. CommentsFit' /\ MemoriesFit' /\ LinksFit' /\ UsageFits'
    BY DEF AllFit, CommentsFit, MemoriesFit, MemoryFits, LinksFit, UsageFits, WorkspaceOf
  <2>8. AllLocked'
    BY DEF AllFit, AllLocked, TemplatesLocked, TasksLocked, MemoriesLocked, Of
  <2> QED BY <2>1, <2>4, <2>6, <2>7, <2>8 DEF AllFit
<1>2. CASE Next
  <2>1. Fine
    BY <1>2, NextFine DEF AllFit
  <2> QED BY <1>2, <2>1, NextReserved, NextRequestsFit, NextTemplatesFit, NextTasksFit,
          NextPairsFit, NextCommentsFit, NextMemoriesFit, NextTemplatesLocked, NextTasksLocked,
          NextMemoriesLocked DEF AllFit, AllLocked, Fine
<1> QED BY <1>1, <1>2

\* What is named fits, so it is of the same workspace.
LEMMA FitIsInside ==
  ASSUME TypeOK, AllFit
  PROVE  NamesHold
<1>1. /\ None \notin live
      /\ \A x \in Rows \cap live : parent[x] \in Places(x)
  BY KindsApart DEF AllFit, Tree, TypeOK
<1>2. ASSUME NEW m \in Templates \cap live, checkedNode(m)
      PROVE  /\ tmplNode[m].assignee \in Agents
             /\ parent[tmplNode[m].assignee] = parent[m]
             /\ tmplNode[m].assignee \in live \cup late
  <2>1. tmplNode[m].assignee \in Agents
    BY <1>2 DEF TypeOK, TemplateNode, checkedNode
  <2>2. Fit(tmplNode[m].assignee, m)
    BY <1>2, <2>1 DEF AllFit, TemplatesFit
  <2> QED BY <2>1, <2>2, PlacesAre, FitIs DEF AllFit
<1>3. ASSUME NEW t \in (Tasks \cap live) \ free, NEW a \in Of(t)
      PROVE  a \in Agents /\ parent[a] = WorkspaceOf(t) /\ a \in live \cup late
  <2>1. a \in Agents
    BY DEF TypeOK, TaskNode, Id, Of
  <2>2. Fit(a, t)
    BY <2>1 DEF AllFit, TasksFit
  <2> QED BY <2>1, <2>2, PlacesAre, FitIs DEF AllFit, WorkspaceOf
<1>4. ASSUME NEW m \in (Memories \cap live) \ free, source[m] # None
      PROVE  WorkspaceOf(source[m]) = parent[m] /\ source[m] \in live
  BY <1>4 DEF TypeOK, AllFit, MemoriesFit, MemoryFits
<1>5. Inside
  BY <1>2, <1>3, <1>4 DEF Inside, AllFit, LinksFit, UsageFits, CommentsFit
<1>6. GoneIsForgotten
  BY <1>2, <1>3, <1>4 DEF GoneIsForgotten
<1> QED BY <1>5, <1>6 DEF NamesHold

\* Whatever a row names that a handler had looked up is of the row's own workspace, though
\* the look and the write are two statements with deletions, replacements and other writes in
\* between; and it is there for as long as the row is, unless it was named behind a statement
\* of its own deletion, or was in hand when that ended (store/agent.go, store/project.go).
THEOREM NamesAreKept == Spec => []NamesHold
<1>1. Init => TypeOK /\ AllFit
  BY InitTypes, InitFits
<1>2. TypeOK /\ AllFit /\ [Next]_vars => (TypeOK /\ AllFit)'
  BY NextTypes, NextAllFit
<1>3. TypeOK /\ AllFit => NamesHold
  BY FitIsInside
<1> QED BY <1>1, <1>2, <1>3, PTL DEF Spec

-----------------------------------------------------------------------------
(* The calculus of layers: what a path makes of a field, from its layers.    *)

\* What says nothing.
Blank == {Null, Empty}
\* Equal, or both without anything to say.
Alike(a, b) == a = b \/ (a \in Blank /\ b \in Blank)

\* Null, the empty text and the default are values, and are told apart (the zero values and the
\* pgtype nulls of store/converter.go).
LEMMA TheValues ==
  /\ Null \in Values /\ Empty \in Values /\ Default \in Values
  /\ Null # Empty /\ Default \notin Blank
BY TextsAssumption DEF Values, V, Null, Empty, Default, Blank

\* The conversions of the layers are between values.
LEMMA ValueFunctions ==
  ASSUME NEW v \in Values
  PROVE  /\ Same[v] = v
         /\ NullIfEmpty[v] = IF v = Empty THEN Null ELSE v
         /\ EmptyIfNull[v] = IF v = Null THEN Empty ELSE v
         /\ DefaultIfEmpty[v] = IF v \in Blank THEN Default ELSE v
         /\ NullIfEmpty[v] \in Values
         /\ EmptyIfNull[v] \in Values
         /\ DefaultIfEmpty[v] \in Values
BY TheValues DEF Same, NullIfEmpty, EmptyIfNull, DefaultIfEmpty, Blank

\* Sealing leaves what says nothing alone, seals the rest, and is undone by unsealing
\* (Encrypt and Decrypt of crypto/aes.go, with the callers' checks for empty).
LEMMA SealFunctions ==
  ASSUME NEW v \in Values
  PROVE  /\ Seal[v] \in Values
         /\ Unseal[v] \in Values
         /\ v \in Blank => Seal[v] = v /\ Unseal[v] = v
         /\ v \notin Blank /\ v.seals = 0 =>
              Seal[v] \notin Blank /\ Seal[v].seals = 1 /\ Unseal[Seal[v]] = v
<1>0. v.text \in Texts /\ v.seals \in 0..2 /\ v = [text |-> v.text, seals |-> v.seals]
  BY DEF Values
<1>1. Seal[v] = IF v \in Blank \/ v.seals = 2 THEN v ELSE [text |-> v.text, seals |-> v.seals + 1]
  BY <1>0 DEF Seal, Blank
<1>2. Seal[v] \in Values
  BY <1>0, <1>1 DEF Values
<1>3. \A u \in Values :
        Unseal[u] = IF u.seals = 0 THEN u ELSE [text |-> u.text, seals |-> u.seals - 1]
  BY DEF Unseal, Values
<1>4. Unseal[v] \in Values
  <2>1. CASE v.seals = 0
    BY <2>1, <1>3
  <2>2. CASE v.seals # 0
    <3>1. v.seals - 1 \in 0..2 BY <1>0, <2>2
    <3>2. Unseal[v] = [text |-> v.text, seals |-> v.seals - 1]
      BY <2>2, <1>3
    <3> QED BY <3>1, <3>2, <1>0 DEF Values
  <2> QED BY <2>1, <2>2
<1>5. v \in Blank => v.seals = 0
  BY DEF Blank, Null, Empty, V
<1>6. ASSUME v \notin Blank, v.seals = 0
      PROVE  Seal[v] \notin Blank /\ Seal[v].seals = 1 /\ Unseal[Seal[v]] = v
  BY <1>0, <1>1, <1>2, <1>3, <1>6 DEF Blank, Null, Empty, V
<1> QED BY <1>1, <1>2, <1>3, <1>4, <1>5, <1>6

\* The layer hands the field on, and makes of its value what g makes of it.
Takes(L, f, g) ==
  f \in DOMAIN L /\ \A v \in Values : L[f][v] \in Values /\ Alike(L[f][v], g[v])

\* The layer hands the field on as it is.
Mild(L, f) == Takes(L, f, Same)

\* What a layer keeps, it hands on as it is.
LEMMA KeptIsMild ==
  ASSUME NEW S, NEW f \in S PROVE Mild(Kept(S), f)
BY ValueFunctions DEF Takes, Mild, On, Kept, Alike

\* Conversions between null and empty hand on what is said.
LEMMA OnIsMild ==
  ASSUME NEW S, NEW f \in S
  PROVE  Mild(On(S, EmptyIfNull), f) /\ Mild(On(S, NullIfEmpty), f) /\ Mild(On(S, Same), f)
BY ValueFunctions DEF Takes, Mild, On, Alike, Blank

\* A layer that fills in, seals or unseals the fields of S does so to each of them.
LEMMA OnTakes ==
  ASSUME NEW S, NEW f \in S
  PROVE  /\ Takes(On(S, DefaultIfEmpty), f, DefaultIfEmpty)
         /\ Takes(On(S, Seal), f, Seal)
         /\ Takes(On(S, Unseal), f, Unseal)
BY ValueFunctions, SealFunctions DEF Takes, On, Alike

\* A layer that does not look at a field puts the same value there always.
LEMMA AlwaysTakes ==
  ASSUME NEW S, NEW f \in S, NEW w \in Values
  PROVE  Takes(On(S, Always(w)), f, Always(w))
BY DEF Takes, On, Always, Alike

\* The fields that a layer, one over the other, and one after the other hand on.
LEMMA Domains ==
  ASSUME NEW f
  PROVE  /\ \A S, g : f \in DOMAIN On(S, g) <=> f \in S
         /\ \A S : f \in DOMAIN Kept(S) <=> f \in S
         /\ \A a, b : f \in DOMAIN (a ++ b) <=> f \in DOMAIN a \/ f \in DOMAIN b
         /\ \A a, b : f \in DOMAIN (a ** b) <=> f \in DOMAIN b
BY DEF On, Kept, ++, **

\* Of two layers side by side the first decides.
LEMMA OverTakes ==
  ASSUME NEW a, NEW b, NEW f, NEW g
  PROVE  Takes(a ++ b, f, g) <=> IF f \in DOMAIN a THEN Takes(a, f, g) ELSE Takes(b, f, g)
BY DEF Takes, ++

\* Of two layers side by side the first decides, also whether a field is handed on as it is.
LEMMA OverIsMild ==
  ASSUME NEW a, NEW b, NEW f
  PROVE  Mild(a ++ b, f) <=> IF f \in DOMAIN a THEN Mild(a, f) ELSE Mild(b, f)
BY OverTakes DEF Mild

\* Two layers that hand a field on as it is, one after the other, do so together.
LEMMA ThenIsMild ==
  ASSUME NEW a, NEW b, NEW f, Mild(a, f), Mild(b, f)
  PROVE  Mild(a ** b, f)
BY ValueFunctions DEF Takes, **, Mild, Alike

\* What a layer makes of a field, a layer after it that hands it on as it is leaves so.
LEMMA ThenTakes ==
  ASSUME NEW a, NEW b, NEW f, NEW g, Takes(a, f, g), Mild(b, f)
  PROVE  Takes(a ** b, f, g)
BY ValueFunctions DEF Takes, **, Mild, Alike

\* To fill in the default a second time changes nothing (CopyTemplateNode after the template's).
LEMMA FilledTwice ==
  ASSUME NEW a, NEW b, NEW f, Takes(a, f, DefaultIfEmpty), Takes(b, f, DefaultIfEmpty)
  PROVE  Takes(a ** b, f, DefaultIfEmpty)
BY ValueFunctions, TheValues DEF Takes, **, Alike

\* A field that the layer before leaves out has its default after the one that fills it in.
LEMMA FilledUnasked ==
  ASSUME NEW a, NEW b, NEW f, f \notin DOMAIN a, Takes(b, f, DefaultIfEmpty)
  PROVE  Takes(a ** b, f, Always(Default))
BY ValueFunctions, TheValues DEF Takes, **, Alike, Always, Blank

\* What a layer makes of a field, it makes of it also after a layer that hands it on as it is.
LEMMA TakesAfter ==
  ASSUME NEW a, NEW b, NEW f, Mild(a, f)
  PROVE  /\ Takes(b, f, DefaultIfEmpty) => Takes(a ** b, f, DefaultIfEmpty)
         /\ Takes(b, f, Seal) => Takes(a ** b, f, Seal)
         /\ Takes(b, f, Unseal) => Takes(a ** b, f, Unseal)
         /\ Takes(b, f, Always(Empty)) => Takes(a ** b, f, Always(Empty))
<1>1. ASSUME NEW g, Takes(b, f, g),
             \A u, v \in Values : Alike(u, v) => Alike(g[u], g[v])
      PROVE  Takes(a ** b, f, g)
  BY <1>1, ValueFunctions DEF Takes, **, Mild, Alike
<1>2. \A u, v \in Values : Alike(u, v) =>
        /\ Alike(DefaultIfEmpty[u], DefaultIfEmpty[v])
        /\ Alike(Seal[u], Seal[v])
        /\ Alike(Unseal[u], Unseal[v])
        /\ Alike(Always(Empty)[u], Always(Empty)[v])
  BY ValueFunctions, SealFunctions DEF Alike, Always
<1> QED BY <1>1, <1>2

\* The layer takes values to values.
Total(L) == \A f \in DOMAIN L : \A v \in Values : L[f][v] \in Values
\* The rules of an update take two values to a value.
TotalRules(L) == \A f \in DOMAIN L : \A u, v \in Values : L[f][u][v] \in Values

\* Every layer the paths are built from takes values to values.
LEMMA TotalLayers ==
  /\ Total(<<>>)
  /\ \A S : Total(Kept(S))
  /\ \A S : \A g \in {Same, NullIfEmpty, EmptyIfNull, DefaultIfEmpty, Seal, Unseal} :
       Total(On(S, g))
  /\ \A S : \A w \in Values : Total(On(S, Always(w)))
  /\ \A a, b : Total(a) /\ Total(b) => Total(a ++ b) /\ Total(a ** b)
<1>1. Total(<<>>)
  BY DEF Total
<1>2. \A S : \A g \in {Same, NullIfEmpty, EmptyIfNull, DefaultIfEmpty, Seal, Unseal} :
       Total(On(S, g))
  BY ValueFunctions, SealFunctions DEF Total, On
<1>3. \A S : Total(Kept(S))
  BY <1>2 DEF Kept
<1>4. \A S : \A w \in Values : Total(On(S, Always(w)))
  BY DEF Total, On, Always
<1>5. ASSUME NEW a, NEW b, Total(a), Total(b) PROVE Total(a ++ b)
  BY <1>5 DEF Total, ++
<1>6. ASSUME NEW a, NEW b, Total(a), Total(b) PROVE Total(a ** b)
  <2> SUFFICES ASSUME NEW f \in DOMAIN b, NEW v \in Values
               PROVE  b[f][IF f \in DOMAIN a THEN a[f][v] ELSE Null] \in Values
    BY DEF Total, **
  <2> QED BY <1>6, TheValues DEF Total
<1> QED BY <1>1, <1>2, <1>3, <1>4, <1>5, <1>6

\* Every rule of an update takes two values to a value.
LEMMA TotalUpdates ==
  /\ TotalRules(<<>>)
  /\ \A S :
       /\ TotalRules(On(S, Take))
       /\ TotalRules(On(S, KeepIfNull))
       /\ TotalRules(On(S, KeepIfEmpty))
  /\ \A a, b : TotalRules(a) /\ TotalRules(b) => TotalRules(a ++ b)
<1>1. TotalRules(<<>>)
  BY DEF TotalRules
<1>2. \A u, v \in Values :
        /\ Take[u][v] \in Values
        /\ KeepIfNull[u][v] \in Values
        /\ KeepIfEmpty[u][v] \in Values
  BY DEF Take, KeepIfNull, KeepIfEmpty
<1>3. \A S :
        /\ TotalRules(On(S, Take))
        /\ TotalRules(On(S, KeepIfNull))
        /\ TotalRules(On(S, KeepIfEmpty))
  BY <1>2 DEF TotalRules, On
<1>4. ASSUME NEW a, NEW b, TotalRules(a), TotalRules(b) PROVE TotalRules(a ++ b)
  BY <1>4 DEF TotalRules, ++
<1> QED BY <1>1, <1>3, <1>4

-----------------------------------------------------------------------------
(* What a kind promises, field by field.                                     *)

\* The fields a kind promises something of: the ones that are shown, and the secrets.
Counted(R) == R.secret \cup UNION {view.fields : view \in R.views}

\* What is in the row for what is said of a field.
Meaning(R, f) == IF f \in R.secret THEN Seal ELSE Same
\* What is shown for what is in the row.
Reading(R, f) == IF f \in R.secret THEN Unseal ELSE Same
\* What a creation leaves in the row for what it is given.
Filling(R, f) ==
  IF f \in R.barred THEN Always(Empty)
  ELSE IF f \in R.defaulted THEN DefaultIfEmpty
  ELSE Meaning(R, f)

\* The layers of a kind take values to values, and its sets of fields go together.
Typed(R) ==
  /\ Total(R.create) /\ Total(R.in) /\ Total(R.out) /\ Total(R.read)
  /\ TotalRules(R.merge) /\ TotalRules(R.set)
  /\ DOMAIN R.create # {}
  /\ R.secret \cap (R.defaulted \cup R.barred) = {}
  /\ Counted(R) \subseteq R.given \cup R.defaulted

\* No edit reaches the field.
Untouched(R, f) ==
  f \notin R.fields /\ f \notin DOMAIN R.set /\ f \notin DOMAIN R.merge

\* An edit of the field reaches the statement.
Passed(R, f) ==
  /\ f \in R.fields
  /\ Takes(R.in, f, Meaning(R, f))
  /\ Mild(R.out, f)
  /\ f \in DOMAIN R.set

\* Every edit decides the field (the whole is replaced, or the handler insists on it).
Replaced(R, f) ==
  /\ Passed(R, f)
  /\ R.set[f] = Take
  /\ f \notin DOMAIN R.merge
  /\ f \in R.replaces \cup R.needed

\* An edit that gives nothing, or an empty text, has the value that was read.
FilledIfEmpty(R, f) ==
  /\ Passed(R, f)
  /\ R.set[f] = Take
  /\ f \in DOMAIN R.merge
  /\ R.merge[f] = KeepIfEmpty
  /\ Mild(R.read, f)
  /\ f \notin R.clears \cup R.replaces

\* An edit that gives nothing has the value that was read; an empty text clears.
FilledIfNull(R, f) ==
  /\ Passed(R, f)
  /\ R.set[f] = Take
  /\ f \in DOMAIN R.merge
  /\ R.merge[f] = KeepIfNull
  /\ Mild(R.read, f)
  /\ f \notin R.replaces
  /\ f \in R.clears \cup R.filled
  /\ R.in[f][Null] = Null /\ R.in[f][Empty] = Empty

\* The statement itself keeps the value when it is given null (COALESCE in queries/*.sql).
KeptByStatement(R, f) ==
  /\ Passed(R, f)
  /\ R.set[f] = KeepIfNull
  /\ f \notin DOMAIN R.merge
  /\ R.out[f] = Same
  /\ R.in[f][Null] = IF f \in R.replaces THEN Empty ELSE Null
  /\ R.in[f][Empty] = IF f \in R.replaces \cup R.clears THEN Empty ELSE Null

\* The ways in which an edit treats a field.
Edited(R, f) ==
  Untouched(R, f) \/ Replaced(R, f) \/ FilledIfEmpty(R, f) \/ FilledIfNull(R, f)
    \/ KeptByStatement(R, f)

\* What a creation does not say, it leaves to the code to fill in.
Created(R, f) ==
  \/ Takes(R.create, f, Filling(R, f))
  \/ f \notin R.given /\ f \in DOMAIN R.create /\ Alike(R.create[f][Null], Filling(R, f)[Null])

\* What a kind's paths promise, path by path: what is created, edited and shown is what is said.
Lawful(R) ==
  /\ Typed(R)
  /\ \A f \in Counted(R) : Created(R, f) /\ Edited(R, f)
  /\ \A view \in R.views : \A f \in view.fields : Takes(view.path, f, Reading(R, f))

\* The views show fields of S only, as they are.
WellShown(views, S) ==
  \A view \in views : \A f \in view.fields : f \in S /\ Mild(view.path, f)

\* Views that hand the fields on as they are show them well.
LEMMA Showing ==
  ASSUME NEW F, NEW P, NEW S, F \subseteq S, \A p \in P : \A f \in F : Mild(p, f)
  PROVE  WellShown(Shows(F, P), S)
<1>1. ASSUME NEW view \in Shows(F, P) PROVE view.fields = F /\ view.path \in P
  BY DEF Shows
<1> QED BY <1>1 DEF WellShown

\* Two sets of views that each show well do so together.
LEMMA ShowingBoth ==
  ASSUME NEW A, NEW B, NEW S, WellShown(A, S), WellShown(B, S)
  PROVE  WellShown(A \cup B, S)
BY DEF WellShown

\* A field nobody is asked for has its default.
LEMMA CreatedUnasked ==
  ASSUME NEW R, NEW f, f \notin R.given, Takes(R.create, f, Always(Default)),
         Filling(R, f) = DefaultIfEmpty
  PROVE  Created(R, f)
BY ValueFunctions, TheValues DEF Created, Takes, Always, Blank

\* A kind is lawful if its creation, its edits and its views are, field by field.
LEMMA KindIsLawful ==
  ASSUME NEW R, NEW S,
         S # {}, S \subseteq R.given \cup R.defaulted, R.secret \subseteq S,
         R.secret \cap (R.defaulted \cup R.barred) = {},
         Total(R.create), Total(R.in), Total(R.out), Total(R.read),
         TotalRules(R.merge), TotalRules(R.set),
         \A f \in S : Created(R, f) /\ Edited(R, f),
         \A view \in R.views : \A f \in view.fields :
           f \in S /\ Takes(view.path, f, Reading(R, f))
  PROVE  Lawful(R)
<1>1. Counted(R) \subseteq S
  BY DEF Counted
<1>2. DOMAIN R.create # {}
  BY DEF Takes, Created
<1> QED BY <1>1, <1>2 DEF Lawful, Typed

\* A kind without secrets.
LEMMA OpenIsLawful ==
  ASSUME NEW R, NEW S,
         S # {}, S \subseteq R.given \cup R.defaulted, R.secret = {},
         Total(R.create), Total(R.in), Total(R.out), Total(R.read),
         TotalRules(R.merge), TotalRules(R.set),
         \A f \in S : Created(R, f) /\ Edited(R, f),
         WellShown(R.views, S)
  PROVE  Lawful(R)
<1>1. \A view \in R.views : \A f \in view.fields :
        f \in S /\ Takes(view.path, f, Reading(R, f))
  BY DEF Reading, Mild, WellShown
<1> QED BY <1>1, KindIsLawful

\* A kind without secrets and edits.
LEMMA UneditedIsLawful ==
  ASSUME NEW R, NEW S,
         S # {}, S \subseteq R.given \cup R.defaulted, R.secret = {},
         R.fields = {}, R.in = <<>>, R.read = <<>>, R.merge = <<>>, R.out = <<>>, R.set = <<>>,
         Total(R.create),
         \A f \in S : Created(R, f),
         WellShown(R.views, S)
  PROVE  Lawful(R)
<1>1. \A f \in S : Edited(R, f)
  BY DEF Edited, Untouched
<1>2. \A view \in R.views : \A f \in view.fields :
        f \in S /\ Takes(view.path, f, Reading(R, f))
  BY DEF Reading, Mild, WellShown
<1> QED BY <1>1, <1>2, KindIsLawful, TotalLayers, TotalUpdates

\* What the rules of an update make of the old value and the new.
LEMMA UpdateFunctions ==
  ASSUME NEW old \in Values, NEW new \in Values
  PROVE  /\ Take[old][new] = new
         /\ KeepIfNull[old][new] = IF new = Null THEN old ELSE new
         /\ KeepIfEmpty[old][new] = IF new \in Blank THEN old ELSE new
BY DEF Take, KeepIfNull, KeepIfEmpty, Blank

\* What a request that gives x for a field makes of the old value, having read base.
Written(R, f, old, base, x) ==
  R.set[f][old][R.out[f][IF f \in DOMAIN R.merge THEN R.merge[f][base][R.in[f][x]]
                                                  ELSE R.in[f][x]]]

\* The request decides the field.
NamesField(R, f, x) ==
  \/ x \notin Blank
  \/ x = Empty /\ f \in R.clears
  \/ f \in R.replaces

\* What says something says something in the row, and nothing else does.
LEMMA MeaningOfValues ==
  ASSUME NEW R, NEW f, NEW x \in Values
  PROVE  /\ Meaning(R, f)[x] \in Values
         /\ x \in Blank => Meaning(R, f)[x] \in Blank
         /\ x \notin Blank /\ x.seals = 0 => Meaning(R, f)[x] \notin Blank
BY ValueFunctions, SealFunctions DEF Meaning

\* A field that an edit decides holds what the edit says, whatever was there and was read.
LEMMA NamedIsWritten ==
  ASSUME NEW R, NEW f, NEW old \in Values, NEW base \in Values, NEW x \in Values,
         Edited(R, f), f \in R.fields,
         x.seals = 0, NamesField(R, f, x)
  PROVE  Alike(Written(R, f, old, base, x), Meaning(R, f)[IF x = Null THEN Empty ELSE x])
<1> DEFINE m == Meaning(R, f)
           y == R.in[f][x]
           w == Written(R, f, old, base, x)
<1>1. Passed(R, f)
  BY DEF Edited, Untouched, Replaced, FilledIfEmpty, FilledIfNull, KeptByStatement
<1>2. y \in Values /\ Alike(y, m[x])
  BY <1>1 DEF Passed, Takes
<1>3. \A v \in Values : R.out[f][v] \in Values /\ Alike(R.out[f][v], v)
  BY <1>1, ValueFunctions DEF Passed, Mild, Takes
<1>4. m[x] \in Values /\ (x \in Blank => m[x] \in Blank) /\ (x \notin Blank => m[x] \notin Blank)
  BY MeaningOfValues
<1>5. x \in Blank => m[IF x = Null THEN Empty ELSE x] \in Blank
  BY MeaningOfValues, TheValues DEF Blank
<1>6. x \notin Blank => y \notin Blank /\ y = m[x]
  BY <1>2, <1>4 DEF Alike
<1> SUFFICES Alike(w, y)
  BY <1>2, <1>4, <1>5 DEF Alike, Blank
<1>7. CASE Replaced(R, f)
  BY <1>2, <1>3, <1>7, UpdateFunctions DEF Replaced, Written
<1>8. CASE FilledIfEmpty(R, f)
  <2>1. x \notin Blank
    BY <1>8 DEF FilledIfEmpty, NamesField
  <2>2. R.merge[f][base][y] = y
    BY <1>2, <1>6, <1>8, <2>1, UpdateFunctions DEF FilledIfEmpty
  <2>3. w = R.out[f][y]
    BY <1>2, <1>3, <1>6, <1>8, <2>1, <2>2, UpdateFunctions DEF FilledIfEmpty, Written
  <2> QED BY <1>2, <1>3, <2>3
<1>9. CASE FilledIfNull(R, f)
  <2>1. y # Null
    BY <1>6, <1>9, TheValues DEF FilledIfNull, NamesField, Blank
  <2>2. R.merge[f][base][y] = y
    BY <1>2, <1>9, <2>1, UpdateFunctions DEF FilledIfNull
  <2>3. w = R.out[f][y]
    BY <1>2, <1>3, <1>9, <2>1, <2>2, UpdateFunctions DEF FilledIfNull, Written
  <2> QED BY <1>2, <1>3, <2>3
<1>10. CASE KeptByStatement(R, f)
  <2>1. y # Null
    BY <1>6, <1>10, TheValues DEF KeptByStatement, NamesField, Blank
  <2>2. R.out[f][y] = y
    BY <1>2, <1>10, ValueFunctions DEF KeptByStatement
  <2>3. w = y
    BY <1>2, <1>10, <2>1, <2>2, UpdateFunctions DEF KeptByStatement, Written
  <2> QED BY <2>3 DEF Alike
<1> QED BY <1>7, <1>8, <1>9, <1>10 DEF Edited, Untouched

\* A field that an edit does not decide holds what it held, or what the edit had read.
LEMMA UnnamedIsKept ==
  ASSUME NEW R, NEW f, NEW old \in Values, NEW base \in Values, NEW x \in Values,
         Edited(R, f), f \in R.fields, ~ NamesField(R, f, x),
         f \in R.needed => x \notin Blank,
         f \in R.filled => x # Empty
  PROVE  Alike(Written(R, f, old, base, x), IF f \in DOMAIN R.merge THEN base ELSE old)
<1> DEFINE m == Meaning(R, f)
           y == R.in[f][x]
           w == Written(R, f, old, base, x)
<1>1. Passed(R, f)
  BY DEF Edited, Untouched, Replaced, FilledIfEmpty, FilledIfNull, KeptByStatement
<1>2. x \in Blank /\ f \notin R.replaces /\ f \notin R.needed /\ (f \in R.clears => x = Null)
  BY DEF NamesField, Blank
<1>3. y \in Values /\ Alike(y, m[x]) /\ m[x] \in Blank
  BY <1>1, <1>2, MeaningOfValues DEF Passed, Takes
<1>4. y \in Blank
  BY <1>3 DEF Alike
<1>5. \A v \in Values : R.out[f][v] \in Values /\ Alike(R.out[f][v], v)
  BY <1>1, ValueFunctions DEF Passed, Mild, Takes
<1>6. CASE FilledIfEmpty(R, f)
  <2>1. f \in DOMAIN R.merge /\ R.merge[f][base][y] = base
    BY <1>3, <1>4, <1>6, UpdateFunctions DEF FilledIfEmpty
  <2>2. w = R.out[f][base]
    BY <1>5, <1>6, <2>1, UpdateFunctions DEF FilledIfEmpty, Written
  <2> QED BY <1>5, <2>1, <2>2
<1>7. CASE FilledIfNull(R, f)
  <2>1. y = Null
    BY <1>2, <1>7 DEF FilledIfNull, Blank
  <2> QED BY <1>3, <1>5, <1>7, <2>1, UpdateFunctions DEF FilledIfNull, Written
<1>8. CASE KeptByStatement(R, f)
  <2>1. y = Null
    BY <1>2, <1>8 DEF KeptByStatement, Blank
  <2>2. w = old
    BY <1>3, <1>8, <2>1, ValueFunctions, UpdateFunctions DEF KeptByStatement, Written
  <2> QED BY <1>8, <2>2 DEF Alike, KeptByStatement
<1>9. ~ Replaced(R, f)
  BY <1>2 DEF Replaced
<1> QED BY <1>6, <1>7, <1>8, <1>9 DEF Edited, Untouched

-----------------------------------------------------------------------------
(* The kinds that are edited.                                                *)

\* Agents: provider and status have defaults, the statement keeps what is not given
\* (createAgentRequest to agentToResponse).
LEMMA AgentIsLawful == Lawful(AgentKind)
<1> DEFINE R == AgentKind
<1>1. /\ R.given = agents /\ R.defaulted = {"provider", "status"}
      /\ R.barred = {} /\ R.secret = {}
      /\ R.create = CreateAgentPath
  BY DEF AgentKind, ++, Plain
<1>2. /\ R.fields = UpdateAgentParams /\ R.clears = {"custom_env"} /\ R.replaces = {"extra_args"}
      /\ R.in = UpdateAgentPath /\ R.read = <<>> /\ R.merge = <<>>
      /\ R.out = Kept(UpdateAgentParams) /\ R.set = updateAgent
  BY DEF AgentKind, ++, Plain
<1>3. R.views = Shows(agents, {GetAgent}) \cup Shows(agents \ {"custom_env"}, {ListAgents})
  BY DEF AgentKind, ++, Plain
<1> HIDE DEF R
<1>4. Total(R.create)
  BY <1>1, TotalLayers
  DEF CreateAgentPath, createAgentRequest, AgentDefaults, buildCreateAgentParams,
      StoreCreateAgent, FromDomainCreateAgentParams, CreateAgentParams, createAgent
<1>5. ASSUME NEW f \in agents PROVE Created(R, f)
  <2>1. Filling(R, f) = IF f \in {"provider", "status"} THEN DefaultIfEmpty ELSE Same
    BY <1>1 DEF Filling, Meaning
  <2>2. /\ Mild(createAgentRequest, f) /\ Mild(buildCreateAgentParams, f)
        /\ Mild(StoreCreateAgent, f)
    BY KeptIsMild, OnIsMild, OverIsMild, Domains, ThenIsMild
    DEF createAgentRequest, AgentDefaults, buildCreateAgentParams, StoreCreateAgent,
        FromDomainCreateAgentParams, CreateAgentParams, createAgent
  <2>3. CASE f \in {"provider", "status"}
    <3>1. Takes(AgentDefaults, f, DefaultIfEmpty)
      <4>1. Takes(On({"provider", "status"}, DefaultIfEmpty), f, DefaultIfEmpty)
        BY <2>3, OnTakes
      <4>2. Takes(On({"provider", "status"}, DefaultIfEmpty) ++ On({"extra_args"}, EmptyIfNull),
                  f, DefaultIfEmpty)
        BY <2>3, <4>1, OverTakes, Domains
      <4> QED BY <2>3, <4>2, OverTakes, Domains DEF AgentDefaults
    <3> QED BY <1>1, <2>1, <2>2, <2>3, <3>1, ThenIsMild, ThenTakes, TakesAfter
        DEF CreateAgentPath, Created
  <2>4. CASE f \notin {"provider", "status"}
    <3>1. Mild(AgentDefaults, f)
      BY <2>4, KeptIsMild, OnIsMild, OverIsMild, Domains DEF AgentDefaults
    <3> QED BY <1>1, <2>1, <2>2, <2>4, <3>1, ThenIsMild DEF CreateAgentPath, Created, Mild
  <2> QED BY <2>3, <2>4
<1>6. WellShown(R.views, agents)
  <2>1. ASSUME NEW f \in agents, NEW p \in {GetAgent} PROVE Mild(p, f)
    BY KeptIsMild, OnIsMild, OverIsMild, Domains, ThenIsMild
    DEF GetAgent, StoreGetAgent, getAgent, ToDomainAgent, agentToResponseWithEnv, agentToResponse
  <2>2. WellShown(Shows(agents, {GetAgent}), agents)
    BY <2>1, Showing
  <2>3. ASSUME NEW f \in agents \ {"custom_env"}, NEW p \in {ListAgents} PROVE Mild(p, f)
    BY KeptIsMild, OnIsMild, OverIsMild, Domains, ThenIsMild
    DEF ListAgents, StoreListAgents, listAgents, ToDomainAgent, agentToResponse
  <2>4. WellShown(Shows(agents \ {"custom_env"}, {ListAgents}), agents)
    BY <2>3, Showing
  <2> QED BY <1>3, <2>2, <2>4, ShowingBoth
<1>7. agents # {} /\ agents \subseteq R.given \cup R.defaulted
  BY <1>1 DEF agents
<1>8. /\ Total(R.in) /\ Total(R.out) /\ Total(R.read)
      /\ TotalRules(R.merge) /\ TotalRules(R.set)
  BY <1>2, TotalLayers, TotalUpdates
  DEF UpdateAgentPath, updateAgentRequest, buildUpdateAgentParams,
      FromDomainUpdateAgentParams, updateAgent
<1>9. ASSUME NEW f \in agents PROVE Edited(R, f)
  <2>1. CASE f \notin UpdateAgentParams
    BY <1>2, <2>1 DEF Edited, Untouched, updateAgent, Kept, On
  <2>2. CASE f \in UpdateAgentParams
    <3>1. Mild(UpdateAgentPath, f)
      BY <2>2, KeptIsMild, OnIsMild, OverIsMild, ThenIsMild, Domains
      DEF UpdateAgentPath, updateAgentRequest, buildUpdateAgentParams,
          FromDomainUpdateAgentParams
    <3>2. f \in DOMAIN updateAgent /\ Mild(Kept(UpdateAgentParams), f)
      BY <2>2, KeptIsMild, Domains DEF updateAgent
    <3>3. Passed(R, f)
      BY <1>1, <1>2, <2>2, <3>1, <3>2 DEF Passed, Meaning, Mild
    <3>4. UpdateAgentPath[f][Null] = IF f = "extra_args" THEN Empty ELSE Null
      BY <2>2, ValueFunctions, TheValues
      DEF UpdateAgentPath, updateAgentRequest, buildUpdateAgentParams,
          FromDomainUpdateAgentParams, UpdateAgentParams, agents, **, ++, On, Kept
    <3>5. UpdateAgentPath[f][Empty] =
            IF f \in {"extra_args", "custom_env"} THEN Empty ELSE Null
      BY <2>2, ValueFunctions, TheValues
      DEF UpdateAgentPath, updateAgentRequest, buildUpdateAgentParams,
          FromDomainUpdateAgentParams, UpdateAgentParams, agents, **, ++, On, Kept
    <3> QED BY <1>2, <2>2, <3>3, <3>4, <3>5 DEF Edited, KeptByStatement, updateAgent, On, Kept
  <2> QED BY <2>1, <2>2
<1> QED BY <1>1, <1>4, <1>5, <1>6, <1>7, <1>8, <1>9, OpenIsLawful DEF R

\* Skills: the service fills in from the row it has read (SkillService.Update).
LEMMA SkillIsLawful == Lawful(SkillKind)
<1> DEFINE R == SkillKind
<1>1. /\ R.given = skills /\ R.defaulted = {} /\ R.barred = {} /\ R.secret = {}
      /\ R.create = CreateSkillPath
  BY DEF SkillKind, ++, Plain
<1>2. /\ R.fields = skills /\ R.filled = {"name"} /\ R.clears = skills /\ R.replaces = {}
      /\ R.in = updateSkillRequest /\ R.read = StoreGetSkill /\ R.merge = SkillServiceUpdate
      /\ R.out = FromDomainUpdateSkillParams /\ R.set = updateSkill
  BY DEF SkillKind, ++, Plain
<1>3. R.views = Shows(skills, {ListSkills, ListAgentSkills})
  BY DEF SkillKind, ++, Plain
<1> HIDE DEF R
<1>4. Total(R.create)
  BY <1>1, TotalLayers
  DEF CreateSkillPath, createSkillRequest, buildCreateSkillParams,
      FromDomainCreateSkillParams, createSkill
<1>5. ASSUME NEW f \in skills PROVE Created(R, f)
  <2>1. Filling(R, f) = Same
    BY <1>1 DEF Filling, Meaning
  <2>2. Mild(CreateSkillPath, f)
    BY KeptIsMild, OnIsMild, OverIsMild, Domains, ThenIsMild
    DEF CreateSkillPath, createSkillRequest, buildCreateSkillParams,
        FromDomainCreateSkillParams, createSkill
  <2> QED BY <1>1, <2>1, <2>2 DEF Created, Mild
<1>6. WellShown(R.views, skills)
  <2>1. ASSUME NEW f \in skills, NEW p \in {ListSkills, ListAgentSkills} PROVE Mild(p, f)
    BY KeptIsMild, OnIsMild, OverIsMild, Domains, ThenIsMild
    DEF ListSkills, listSkills, ToDomainSkill, skillResponse, ListAgentSkills,
        listAgentSkills, ToDomainListAgentSkillsRow
  <2>2. WellShown(Shows(skills, {ListSkills, ListAgentSkills}), skills)
    BY <2>1, Showing
  <2> QED BY <1>3, <2>2
<1>7. skills # {} /\ skills \subseteq R.given \cup R.defaulted
  BY <1>1 DEF skills
<1>8. /\ Total(R.in) /\ Total(R.out) /\ Total(R.read)
      /\ TotalRules(R.merge) /\ TotalRules(R.set)
  BY <1>2, TotalLayers, TotalUpdates
  DEF updateSkillRequest, StoreGetSkill, getSkill, ToDomainSkill, SkillServiceUpdate,
      FromDomainUpdateSkillParams, updateSkill
<1>9. ASSUME NEW f \in skills PROVE Edited(R, f)
  <2>1. /\ Mild(updateSkillRequest, f) /\ Mild(FromDomainUpdateSkillParams, f)
        /\ Mild(StoreGetSkill, f)
    BY KeptIsMild, OnIsMild, OverIsMild, ThenIsMild, Domains
    DEF updateSkillRequest, FromDomainUpdateSkillParams, StoreGetSkill, getSkill, ToDomainSkill
  <2>2. /\ f \in DOMAIN updateSkill /\ updateSkill[f] = Take
        /\ f \in DOMAIN SkillServiceUpdate /\ SkillServiceUpdate[f] = KeepIfNull
    BY DEF updateSkill, SkillServiceUpdate, On
  <2>3. updateSkillRequest[f][Null] = Null /\ updateSkillRequest[f][Empty] = Empty
    BY ValueFunctions, TheValues DEF updateSkillRequest, Kept, On
  <2>4. Passed(R, f)
    BY <1>1, <1>2, <2>1, <2>2 DEF Passed, Meaning, Mild
  <2> QED BY <1>2, <2>1, <2>2, <2>3, <2>4 DEF Edited, FilledIfNull
<1> QED BY <1>1, <1>4, <1>5, <1>6, <1>7, <1>8, <1>9, OpenIsLawful DEF R

\* Templates: name and description are replaced, the trigger is filled in.
LEMMA TemplateIsLawful == Lawful(TemplateKind)
<1> DEFINE R == TemplateKind
<1>1. /\ R.given = templates /\ R.defaulted = {"trigger"} /\ R.barred = {} /\ R.secret = {}
      /\ R.create = CreateWorkflowTemplatePath
  BY DEF TemplateKind, ++, Plain
<1>2. /\ R.fields = UpdateWorkflowTemplateParams /\ R.clears = {}
      /\ R.replaces = {"name", "description"}
      /\ R.in = UpdateWorkflowTemplatePath /\ R.read = StoreGetWorkflowTemplate
      /\ R.merge = normalizeUpdateWorkflowTemplateParams
      /\ R.out = Kept(UpdateWorkflowTemplateParams) /\ R.set = updateWorkflowTemplate
  BY DEF TemplateKind, ++, Plain
<1>3. R.views = Shows(templates, {TemplateAnswer, ListWorkflowTemplates})
  BY DEF TemplateKind, ++, Plain
<1> HIDE DEF R
<1>4. Total(R.create)
  BY <1>1, TotalLayers
  DEF CreateWorkflowTemplatePath, createWorkflowTemplateRequest,
      buildCreateWorkflowTemplateParams, StoreCreateWorkflowTemplate,
      FromDomainCreateWorkflowTemplateParams, normalizeCreateWorkflowTemplateParams,
      createWorkflowTemplate
<1>5. ASSUME NEW f \in templates PROVE Created(R, f)
  <2>1. Filling(R, f) = IF f \in {"trigger"} THEN DefaultIfEmpty ELSE Same
    BY <1>1 DEF Filling, Meaning
  <2>2. /\ Mild(createWorkflowTemplateRequest, f)
        /\ Mild(buildCreateWorkflowTemplateParams, f)
        /\ Mild(FromDomainCreateWorkflowTemplateParams, f)
        /\ Mild(createWorkflowTemplate, f)
    BY KeptIsMild, OnIsMild, OverIsMild, Domains, ThenIsMild
    DEF createWorkflowTemplateRequest, buildCreateWorkflowTemplateParams,
        StoreCreateWorkflowTemplate, FromDomainCreateWorkflowTemplateParams,
        normalizeCreateWorkflowTemplateParams, createWorkflowTemplate
  <2>3. CASE f \in {"trigger"}
    <3>1. Takes(normalizeCreateWorkflowTemplateParams, f, DefaultIfEmpty)
      BY <2>3, OnTakes, OverTakes, Domains DEF normalizeCreateWorkflowTemplateParams
    <3> QED BY <1>1, <2>1, <2>2, <2>3, <3>1, ThenIsMild, ThenTakes, TakesAfter
        DEF CreateWorkflowTemplatePath, StoreCreateWorkflowTemplate, Created
  <2>4. CASE f \notin {"trigger"}
    <3>1. Mild(normalizeCreateWorkflowTemplateParams, f)
      BY <2>4, KeptIsMild, OnIsMild, OverIsMild, Domains DEF normalizeCreateWorkflowTemplateParams
    <3> QED BY <1>1, <2>1, <2>2, <2>4, <3>1, ThenIsMild
        DEF CreateWorkflowTemplatePath, StoreCreateWorkflowTemplate, Created, Mild
  <2> QED BY <2>3, <2>4
<1>6. WellShown(R.views, templates)
  <2>1. ASSUME NEW f \in templates, NEW p \in {TemplateAnswer, ListWorkflowTemplates}
        PROVE  Mild(p, f)
    BY KeptIsMild, OnIsMild, OverIsMild, Domains, ThenIsMild
    DEF TemplateAnswer, ToDomainWorkflowTemplate, toTemplateResponse, ListWorkflowTemplates,
        listWorkflowTemplates
  <2>2. WellShown(Shows(templates, {TemplateAnswer, ListWorkflowTemplates}), templates)
    BY <2>1, Showing
  <2> QED BY <1>3, <2>2
<1>7. templates # {} /\ templates \subseteq R.given \cup R.defaulted
  BY <1>1 DEF templates
<1>8. /\ Total(R.in) /\ Total(R.out) /\ Total(R.read)
      /\ TotalRules(R.merge) /\ TotalRules(R.set)
  BY <1>2, TotalLayers, TotalUpdates
  DEF UpdateWorkflowTemplatePath, updateWorkflowTemplateRequest,
      buildUpdateWorkflowTemplateParams, FromDomainUpdateWorkflowTemplateParams,
      StoreGetWorkflowTemplate, getWorkflowTemplate, ToDomainWorkflowTemplate,
      normalizeUpdateWorkflowTemplateParams, updateWorkflowTemplate
<1>9. ASSUME NEW f \in templates PROVE Edited(R, f)
  <2>1. CASE f \notin UpdateWorkflowTemplateParams
    <3>1. f = "is_builtin"
      BY <2>1 DEF UpdateWorkflowTemplateParams
    <3>2. f \notin DOMAIN normalizeUpdateWorkflowTemplateParams
      BY <3>1 DEF normalizeUpdateWorkflowTemplateParams, On
    <3> QED BY <1>2, <2>1, <3>2, Domains DEF Edited, Untouched, updateWorkflowTemplate
  <2>2. CASE f \in UpdateWorkflowTemplateParams
    <3>1. Mild(UpdateWorkflowTemplatePath, f) /\ Mild(StoreGetWorkflowTemplate, f)
      BY <2>2, KeptIsMild, OnIsMild, OverIsMild, ThenIsMild, Domains
      DEF UpdateWorkflowTemplatePath, updateWorkflowTemplateRequest,
          buildUpdateWorkflowTemplateParams, FromDomainUpdateWorkflowTemplateParams,
          StoreGetWorkflowTemplate, getWorkflowTemplate, ToDomainWorkflowTemplate
    <3>2. /\ f \in DOMAIN updateWorkflowTemplate /\ updateWorkflowTemplate[f] = Take
          /\ Mild(Kept(UpdateWorkflowTemplateParams), f)
      BY <2>2, KeptIsMild DEF updateWorkflowTemplate, On
    <3>3. Passed(R, f)
      BY <1>1, <1>2, <2>2, <3>1, <3>2 DEF Passed, Meaning, Mild
    <3>4. CASE f = "trigger"
      <4>1. /\ f \in DOMAIN normalizeUpdateWorkflowTemplateParams
            /\ normalizeUpdateWorkflowTemplateParams[f] = KeepIfEmpty
        BY <3>4 DEF normalizeUpdateWorkflowTemplateParams, On
      <4> QED BY <1>2, <3>1, <3>2, <3>3, <3>4, <4>1 DEF Edited, FilledIfEmpty
    <3>5. CASE f # "trigger"
      <4>1. f \in {"name", "description"}
        BY <2>2, <3>5 DEF UpdateWorkflowTemplateParams, templates
      <4>2. f \notin DOMAIN normalizeUpdateWorkflowTemplateParams
        BY <3>5 DEF normalizeUpdateWorkflowTemplateParams, On
      <4> QED BY <1>2, <3>2, <3>3, <4>1, <4>2 DEF Edited, Replaced
    <3> QED BY <3>4, <3>5
  <2> QED BY <2>1, <2>2
<1> QED BY <1>1, <1>4, <1>5, <1>6, <1>7, <1>8, <1>9, OpenIsLawful DEF R

\* Tasks: the status is asked of nobody at creation, labels can be cleared.
LEMMA TaskIsLawful == Lawful(TaskKind)
<1> DEFINE R == TaskKind
<1>1. /\ R.given = tasks \ {"status"} /\ R.defaulted = {"type", "priority", "status"}
      /\ R.barred = {} /\ R.secret = {}
      /\ R.create = CreateTaskPath
  BY DEF TaskKind, ++, Plain
<1>2. /\ R.fields = UpdateTaskParams /\ R.filled = {"status", "priority"}
      /\ R.clears = {"labels"} /\ R.replaces = {}
      /\ R.in = updateTaskRequest /\ R.read = StoreGetTask /\ R.merge = ExistingTask
      /\ R.out = buildUpdateTaskParams ** FromDomainUpdateTaskParams /\ R.set = updateTask
  BY DEF TaskKind, ++, Plain
<1>3. R.views = Shows(tasks, TaskLists \cup {ToDomainTask, GetTask})
  BY DEF TaskKind, ++, Plain
<1> HIDE DEF R
<1>4. Total(R.create)
  BY <1>1, TotalLayers
  DEF CreateTaskPath, createTaskRequest, TaskDefaults, ParseDueDate, buildCreateTaskParams,
      FromDomainCreateTaskParams, CreateTaskParams, createTask
<1>5. ASSUME NEW f \in tasks PROVE Created(R, f)
  <2>1. Filling(R, f) = IF f \in {"type", "priority", "status"} THEN DefaultIfEmpty ELSE Same
    BY <1>1 DEF Filling, Meaning
  <2>2. /\ Mild(ParseDueDate, f) /\ Mild(buildCreateTaskParams, f)
        /\ Mild(FromDomainCreateTaskParams, f) /\ Mild(createTask, f)
    BY KeptIsMild, OnIsMild, OverIsMild, Domains
    DEF ParseDueDate, buildCreateTaskParams, FromDomainCreateTaskParams,
        CreateTaskParams, createTask
  <2>3. f # "status" => Mild(createTaskRequest, f)
    BY KeptIsMild, OnIsMild, OverIsMild, Domains DEF createTaskRequest
  <2>4. ASSUME f \in {"type", "priority", "status"} PROVE Takes(TaskDefaults, f, DefaultIfEmpty)
    <3>1. Takes(On({"type", "priority", "status"}, DefaultIfEmpty), f, DefaultIfEmpty)
      BY <2>4, OnTakes
    <3>2. Takes(On({"type", "priority", "status"}, DefaultIfEmpty) ++ On({"labels"}, EmptyIfNull),
                f, DefaultIfEmpty)
      BY <3>1, OverTakes DEF Takes
    <3> QED BY <3>2, OverTakes DEF Takes, TaskDefaults
  <2>5. CASE f \in {"type", "priority"}
    BY <1>1, <2>1, <2>2, <2>3, <2>4, <2>5, ThenTakes, TakesAfter DEF CreateTaskPath, Created
  <2>6. CASE f = "status"
    <3>1. f \notin DOMAIN createTaskRequest /\ f \notin R.given
      BY <1>1, <2>6, Domains DEF createTaskRequest
    <3>2. Takes(CreateTaskPath, f, Always(Default))
      BY <2>2, <2>4, <2>6, <3>1, ThenTakes, FilledUnasked DEF CreateTaskPath
    <3> QED BY <1>1, <2>1, <2>6, <3>1, <3>2, CreatedUnasked
  <2>7. CASE f \notin {"type", "priority", "status"}
    <3>1. Mild(TaskDefaults, f)
      BY <2>7, KeptIsMild, OnIsMild, OverIsMild, Domains DEF TaskDefaults
    <3> QED BY <1>1, <2>1, <2>2, <2>3, <2>7, <3>1, ThenIsMild DEF CreateTaskPath, Created, Mild
  <2> QED BY <2>5, <2>6, <2>7
<1>6. WellShown(R.views, tasks)
  <2>1. ASSUME NEW f \in tasks, NEW p \in TaskLists \cup {ToDomainTask, GetTask} PROVE Mild(p, f)
    BY KeptIsMild, OnIsMild, OverIsMild, Domains, ThenIsMild
    DEF TaskLists, listTasks, listAllTasks, listTasksPaginated, ToDomainTask, enrichWithNodes,
        GetTask, StoreGetTask, getTask, taskToResponse
  <2>2. WellShown(Shows(tasks, TaskLists \cup {ToDomainTask, GetTask}), tasks)
    BY <2>1, Showing
  <2> QED BY <1>3, <2>2
<1>7. tasks # {} /\ tasks \subseteq R.given \cup R.defaulted
  BY <1>1 DEF tasks
<1>8. /\ Total(R.in) /\ Total(R.out) /\ Total(R.read)
      /\ TotalRules(R.merge) /\ TotalRules(R.set)
  BY <1>2, TotalLayers, TotalUpdates
  DEF updateTaskRequest, StoreGetTask, getTask, ToDomainTask, ExistingTask,
      buildUpdateTaskParams, FromDomainUpdateTaskParams, updateTask
<1>9. ASSUME NEW f \in tasks PROVE Edited(R, f)
  <2>1. CASE f \notin UpdateTaskParams
    BY <1>2, <2>1, Domains
    DEF Edited, Untouched, updateTask, ExistingTask, UpdateTaskParams, tasks
  <2>2. CASE f \in UpdateTaskParams
    <3>1. Mild(updateTaskRequest, f) /\ Mild(StoreGetTask, f) /\ Mild(R.out, f)
      <4>1. f \in tasks
        BY <2>2 DEF UpdateTaskParams
      <4>2. Mild(updateTaskRequest, f) /\ Mild(StoreGetTask, f)
        BY <2>2, <4>1, KeptIsMild, OnIsMild, OverIsMild, ThenIsMild, Domains
        DEF updateTaskRequest, StoreGetTask, getTask, ToDomainTask
      <4>3. Mild(buildUpdateTaskParams ** FromDomainUpdateTaskParams, f)
        BY <2>2, KeptIsMild, OnIsMild, OverIsMild, ThenIsMild, Domains
        DEF buildUpdateTaskParams, FromDomainUpdateTaskParams
      <4> QED BY <1>2, <4>2, <4>3
    <3>2. f \in DOMAIN updateTask /\ updateTask[f] = Take
      BY <2>2 DEF updateTask, On
    <3>3. Passed(R, f)
      BY <1>1, <1>2, <2>2, <3>1, <3>2 DEF Passed, Meaning, Mild
    <3>4. /\ f \in DOMAIN ExistingTask
          /\ ExistingTask[f] = IF f = "labels" THEN KeepIfNull ELSE KeepIfEmpty
      BY <2>2 DEF ExistingTask, On, ++
    <3>5. CASE f = "labels"
      <4>1. updateTaskRequest[f] = Same
        BY <3>5 DEF updateTaskRequest, ++, Kept, On
      <4> QED BY <1>2, <3>1, <3>2, <3>3, <3>4, <3>5, <4>1, ValueFunctions, TheValues
          DEF Edited, FilledIfNull
    <3>6. CASE f # "labels"
      BY <1>2, <3>1, <3>2, <3>3, <3>4, <3>6 DEF Edited, FilledIfEmpty
    <3> QED BY <3>5, <3>6
  <2> QED BY <2>1, <2>2
<1> QED BY <1>1, <1>4, <1>5, <1>6, <1>7, <1>8, <1>9, OpenIsLawful DEF R

\* Workspaces: an edit replaces.
LEMMA WorkspaceIsLawful == Lawful(WorkspaceKind)
<1> DEFINE R == WorkspaceKind
<1>1. /\ R.given = workspaces /\ R.defaulted = {} /\ R.barred = {} /\ R.secret = {}
      /\ R.create = CreateWorkspacePath
  BY DEF WorkspaceKind, ++, Plain
<1>2. /\ R.fields = UpdateWorkspaceParams /\ R.replaces = UpdateWorkspaceParams
      /\ R.in = UpdateWorkspacePath /\ R.read = <<>> /\ R.merge = <<>>
      /\ R.out = Kept(UpdateWorkspaceParams) /\ R.set = updateWorkspace
  BY DEF WorkspaceKind, ++, Plain
<1>3. R.views = Shows(workspaces, {ToDomainWorkspace, GetWorkspace, ListWorkspaces})
  BY DEF WorkspaceKind, ++, Plain
<1> HIDE DEF R
<1>4. Total(R.create)
  BY <1>1, TotalLayers
  DEF CreateWorkspacePath, createWorkspaceRequest, buildCreateWorkspaceParams,
      FromDomainCreateWorkspaceParams, createWorkspace
<1>5. ASSUME NEW f \in workspaces PROVE Created(R, f)
  <2>1. Filling(R, f) = Same
    BY <1>1 DEF Filling, Meaning
  <2>2. Mild(CreateWorkspacePath, f)
    BY KeptIsMild, OnIsMild, OverIsMild, Domains, ThenIsMild
    DEF CreateWorkspacePath, createWorkspaceRequest, buildCreateWorkspaceParams,
        FromDomainCreateWorkspaceParams, createWorkspace
  <2> QED BY <1>1, <2>1, <2>2 DEF Created, Mild
<1>6. WellShown(R.views, workspaces)
  <2>1. ASSUME NEW f \in workspaces, NEW p \in {ToDomainWorkspace, GetWorkspace, ListWorkspaces}
        PROVE  Mild(p, f)
    BY KeptIsMild, OnIsMild, OverIsMild, Domains, ThenIsMild
    DEF ToDomainWorkspace, GetWorkspace, getWorkspace, ListWorkspaces, listWorkspacesByMemberID
  <2>2. WellShown(Shows(workspaces, {ToDomainWorkspace, GetWorkspace, ListWorkspaces}),
                  workspaces)
    BY <2>1, Showing
  <2> QED BY <1>3, <2>2
<1>7. workspaces # {} /\ workspaces \subseteq R.given \cup R.defaulted
  BY <1>1 DEF workspaces
<1>8. /\ Total(R.in) /\ Total(R.out) /\ Total(R.read)
      /\ TotalRules(R.merge) /\ TotalRules(R.set)
  BY <1>2, TotalLayers, TotalUpdates
  DEF UpdateWorkspacePath, updateWorkspaceRequest, buildUpdateWorkspaceParams,
      FromDomainUpdateWorkspaceParams, updateWorkspace
<1>9. ASSUME NEW f \in workspaces PROVE Edited(R, f)
  <2>1. CASE f \notin UpdateWorkspaceParams
    BY <1>2, <2>1 DEF Edited, Untouched, updateWorkspace, Kept, On
  <2>2. CASE f \in UpdateWorkspaceParams
    <3>1. Mild(UpdateWorkspacePath, f) /\ Mild(Kept(UpdateWorkspaceParams), f)
      BY <2>2, KeptIsMild, OnIsMild, OverIsMild, ThenIsMild, Domains
      DEF UpdateWorkspacePath, updateWorkspaceRequest, buildUpdateWorkspaceParams,
          FromDomainUpdateWorkspaceParams
    <3>2. f \in DOMAIN updateWorkspace /\ updateWorkspace[f] = Take
      BY <2>2 DEF updateWorkspace, On
    <3> QED BY <1>1, <1>2, <2>2, <3>1, <3>2 DEF Edited, Replaced, Passed, Meaning, Mild
  <2> QED BY <2>1, <2>2
<1> QED BY <1>1, <1>4, <1>5, <1>6, <1>7, <1>8, <1>9, OpenIsLawful DEF R

\* Projects: an edit replaces all but the status, and must give the name.
LEMMA ProjectIsLawful == Lawful(ProjectKind)
<1> DEFINE R == ProjectKind
<1>1. /\ R.given = projects /\ R.defaulted = {"status"} /\ R.barred = {} /\ R.secret = {}
      /\ R.create = CreateProjectPath
  BY DEF ProjectKind, ++, Plain
<1>2. /\ R.fields = UpdateProjectParams /\ R.needed = {"name"} /\ R.clears = {}
      /\ R.replaces = {"description", "repo_url", "context"}
      /\ R.in = updateProjectRequest /\ R.read = StoreGetProject /\ R.merge = ExistingStatus
      /\ R.out = buildUpdateProjectParams ** FromDomainUpdateProjectParams
      /\ R.set = updateProject
  BY DEF ProjectKind, ++, Plain
<1>3. R.views = Shows(projects, ListProjects \cup {StoreGetProject})
  BY DEF ProjectKind, ++, Plain
<1> HIDE DEF R
<1>4. Total(R.create)
  BY <1>1, TotalLayers
  DEF CreateProjectPath, createProjectRequest, ProjectDefaults, buildCreateProjectParams,
      FromDomainCreateProjectParams, createProject
<1>5. ASSUME NEW f \in projects PROVE Created(R, f)
  <2>1. Filling(R, f) = IF f \in {"status"} THEN DefaultIfEmpty ELSE Same
    BY <1>1 DEF Filling, Meaning
  <2>2. /\ Mild(createProjectRequest, f) /\ Mild(buildCreateProjectParams, f)
        /\ Mild(FromDomainCreateProjectParams, f) /\ Mild(createProject, f)
    BY KeptIsMild, OnIsMild, OverIsMild, Domains, ThenIsMild
    DEF createProjectRequest, ProjectDefaults, buildCreateProjectParams,
        FromDomainCreateProjectParams, createProject
  <2>3. CASE f \in {"status"}
    <3>1. Takes(ProjectDefaults, f, DefaultIfEmpty)
      BY <2>3, OnTakes, OverTakes, Domains DEF ProjectDefaults
    <3> QED BY <1>1, <2>1, <2>2, <2>3, <3>1, ThenIsMild, ThenTakes, TakesAfter
        DEF CreateProjectPath, Created
  <2>4. CASE f \notin {"status"}
    <3>1. Mild(ProjectDefaults, f)
      BY <2>4, KeptIsMild, OnIsMild, OverIsMild, Domains DEF ProjectDefaults
    <3> QED BY <1>1, <2>1, <2>2, <2>4, <3>1, ThenIsMild DEF CreateProjectPath, Created, Mild
  <2> QED BY <2>3, <2>4
<1>6. WellShown(R.views, projects)
  <2>1. ASSUME NEW f \in projects, NEW p \in ListProjects \cup {StoreGetProject} PROVE Mild(p, f)
    BY KeptIsMild, OnIsMild, OverIsMild, Domains, ThenIsMild
    DEF ListProjects, listProjects, listProjectsByAgentMembership, ToDomainProject,
        StoreGetProject, getProject
  <2>2. WellShown(Shows(projects, ListProjects \cup {StoreGetProject}), projects)
    BY <2>1, Showing
  <2> QED BY <1>3, <2>2
<1>7. projects # {} /\ projects \subseteq R.given \cup R.defaulted
  BY <1>1 DEF projects
<1>8. /\ Total(R.in) /\ Total(R.out) /\ Total(R.read)
      /\ TotalRules(R.merge) /\ TotalRules(R.set)
  BY <1>2, TotalLayers, TotalUpdates
  DEF updateProjectRequest, StoreGetProject, getProject, ToDomainProject, ExistingStatus,
      buildUpdateProjectParams, FromDomainUpdateProjectParams, updateProject
<1>9. ASSUME NEW f \in projects PROVE Edited(R, f)
  <2>1. CASE f \notin UpdateProjectParams
    <3>1. f = "icon"
      BY <2>1 DEF UpdateProjectParams
    <3>2. f \notin DOMAIN ExistingStatus
      BY <3>1 DEF ExistingStatus, On
    <3> QED BY <1>2, <2>1, <3>2, Domains DEF Edited, Untouched, updateProject
  <2>2. CASE f \in UpdateProjectParams
    <3>1. Mild(updateProjectRequest, f) /\ Mild(StoreGetProject, f) /\ Mild(R.out, f)
      BY <1>2, <2>2, KeptIsMild, OnIsMild, OverIsMild, ThenIsMild, Domains
      DEF updateProjectRequest, StoreGetProject, getProject, ToDomainProject,
          buildUpdateProjectParams, FromDomainUpdateProjectParams
    <3>2. f \in DOMAIN updateProject /\ updateProject[f] = Take
      BY <2>2 DEF updateProject, On
    <3>3. Passed(R, f)
      BY <1>1, <1>2, <2>2, <3>1, <3>2 DEF Passed, Meaning, Mild
    <3>4. CASE f = "status"
      <4>1. f \in DOMAIN ExistingStatus /\ ExistingStatus[f] = KeepIfEmpty
        BY <3>4 DEF ExistingStatus, On
      <4> QED BY <1>2, <3>1, <3>2, <3>3, <3>4, <4>1 DEF Edited, FilledIfEmpty
    <3>5. CASE f # "status"
      <4>1. f \in {"name", "description", "repo_url", "context"}
        BY <2>2, <3>5 DEF UpdateProjectParams, projects
      <4>2. f \notin DOMAIN ExistingStatus
        BY <3>5, Domains DEF ExistingStatus
      <4> QED BY <1>2, <3>2, <3>3, <4>1, <4>2 DEF Edited, Replaced
    <3> QED BY <3>4, <3>5
  <2> QED BY <2>1, <2>2
<1> QED BY <1>1, <1>4, <1>5, <1>6, <1>7, <1>8, <1>9, OpenIsLawful DEF R

-----------------------------------------------------------------------------
(* The kinds that are written once.                                          *)

\* Runtimes: no edit, and the expiry of the session is not promised.
LEMMA RuntimeIsLawful == Lawful(RuntimeKind)
<1> DEFINE R == RuntimeKind
<1>1. /\ R.given = runtimes /\ R.defaulted = {"status"} /\ R.barred = {} /\ R.secret = {}
      /\ R.create = RegisterRuntimePath
  BY DEF RuntimeKind, ++, Plain
<1>2. /\ R.fields = {} /\ R.in = <<>> /\ R.read = <<>> /\ R.merge = <<>> /\ R.out = <<>>
      /\ R.set = <<>>
  BY DEF RuntimeKind, ++, Plain
<1>3. R.views = Shows(runtimes \ {"session_expires_at"}, {ToDomainRuntime})
  BY DEF RuntimeKind, ++, Plain
<1> HIDE DEF R
<1>4. Total(R.create)
  BY <1>1, TotalLayers
  DEF RegisterRuntimePath, registerRuntimeRequest, RuntimeDefaults, buildCreateRuntimeParams,
      StoreCreateRuntime, FromDomainCreateRuntimeParams, createRuntime
<1>5. ASSUME NEW f \in runtimes \ {"session_expires_at"} PROVE Created(R, f)
  <2>1. Filling(R, f) = IF f \in {"status"} THEN DefaultIfEmpty ELSE Same
    BY <1>1 DEF Filling, Meaning
  <2>2. /\ Mild(registerRuntimeRequest, f) /\ Mild(buildCreateRuntimeParams, f)
        /\ Mild(StoreCreateRuntime, f)
    BY KeptIsMild, OnIsMild, OverIsMild, Domains, ThenIsMild
    DEF registerRuntimeRequest, RuntimeDefaults, buildCreateRuntimeParams, StoreCreateRuntime,
        FromDomainCreateRuntimeParams, createRuntime
  <2>3. CASE f \in {"status"}
    <3>1. Takes(RuntimeDefaults, f, DefaultIfEmpty)
      BY <2>3, OnTakes, OverTakes, Domains DEF RuntimeDefaults
    <3> QED BY <1>1, <2>1, <2>2, <2>3, <3>1, ThenIsMild, ThenTakes, TakesAfter
        DEF RegisterRuntimePath, Created
  <2>4. CASE f \notin {"status"}
    <3>1. Mild(RuntimeDefaults, f)
      <4>1. f \in runtimes
        OBVIOUS
      <4> QED BY <2>4, <4>1, KeptIsMild, OverIsMild, Domains DEF RuntimeDefaults
    <3> QED BY <1>1, <2>1, <2>2, <2>4, <3>1, ThenIsMild DEF RegisterRuntimePath, Created, Mild
  <2> QED BY <2>3, <2>4
<1>6. WellShown(R.views, runtimes \ {"session_expires_at"})
  <2>1. ASSUME NEW f \in runtimes \ {"session_expires_at"}, NEW p \in {ToDomainRuntime}
        PROVE  Mild(p, f)
    BY KeptIsMild, OnIsMild, OverIsMild, Domains, ThenIsMild
    DEF ToDomainRuntime
  <2>2. WellShown(Shows(runtimes \ {"session_expires_at"}, {ToDomainRuntime}),
                  runtimes \ {"session_expires_at"})
    BY <2>1, Showing
  <2> QED BY <1>3, <2>2
<1>7. /\ runtimes \ {"session_expires_at"} # {}
      /\ runtimes \ {"session_expires_at"} \subseteq R.given \cup R.defaulted
  BY <1>1 DEF runtimes
<1> QED BY <1>1, <1>2, <1>4, <1>5, <1>6, <1>7, UneditedIsLawful DEF R

\* What becomes of each field of a template's node on the way to its row.
LEMMA TemplateNodeCreated ==
  ASSUME NEW f \in template_nodes
  PROVE  IF f \in {"sort_order", "max_reject_cycles"}
         THEN Takes(CreateTemplateNodePath, f, DefaultIfEmpty)
         ELSE Mild(CreateTemplateNodePath, f)
<1>1. /\ Mild(templateNodeRequest, f) /\ Mild(buildCreateTemplateNodeParams, f)
      /\ Mild(FromDomainCreateTemplateNodeParams, f) /\ Mild(createTemplateNode, f)
  BY KeptIsMild, OnIsMild, OverIsMild, Domains
  DEF templateNodeRequest, buildCreateTemplateNodeParams, FromDomainCreateTemplateNodeParams,
      CreateTemplateNodeParams, createTemplateNode
<1>2. CASE f \in {"sort_order", "max_reject_cycles"}
  <2>1. Takes(TemplateNodeDefaults, f, DefaultIfEmpty)
    <3>1. Takes(On({"sort_order", "max_reject_cycles"}, DefaultIfEmpty), f, DefaultIfEmpty)
      BY <1>2, OnTakes
    <3> QED BY <1>2, <3>1, OverTakes, Domains DEF TemplateNodeDefaults
  <2> QED BY <1>1, <1>2, <2>1, ThenTakes, TakesAfter DEF CreateTemplateNodePath
<1>3. CASE f \notin {"sort_order", "max_reject_cycles"}
  <2>1. Mild(TemplateNodeDefaults, f)
    BY <1>3, KeptIsMild, OnIsMild, OverIsMild, Domains DEF TemplateNodeDefaults
  <2> QED BY <1>1, <1>3, <2>1, ThenIsMild DEF CreateTemplateNodePath
<1> QED BY <1>2, <1>3

\* Nodes of templates: the order and the number of cycles have defaults.
LEMMA TemplateNodeIsLawful == Lawful(TemplateNodeKind)
<1> DEFINE R == TemplateNodeKind
<1>1. /\ R.given = template_nodes /\ R.defaulted = {"sort_order", "max_reject_cycles"}
      /\ R.barred = {} /\ R.secret = {}
      /\ R.create = CreateTemplateNodePath
  BY DEF TemplateNodeKind, ++, Plain
<1>2. /\ R.fields = {} /\ R.in = <<>> /\ R.read = <<>> /\ R.merge = <<>> /\ R.out = <<>>
      /\ R.set = <<>>
  BY DEF TemplateNodeKind, ++, Plain
<1>3. R.views = Shows(template_nodes, {ToDomainWorkflowTemplateNode, StoreListTemplateNodes})
  BY DEF TemplateNodeKind, ++, Plain
<1> HIDE DEF R
<1>4. Total(R.create)
  BY <1>1, TotalLayers
  DEF CreateTemplateNodePath, templateNodeRequest, TemplateNodeDefaults,
      buildCreateTemplateNodeParams, FromDomainCreateTemplateNodeParams,
      CreateTemplateNodeParams, createTemplateNode
<1>5. ASSUME NEW f \in template_nodes PROVE Created(R, f)
  <2>1. Filling(R, f) =
          IF f \in {"sort_order", "max_reject_cycles"} THEN DefaultIfEmpty ELSE Same
    BY <1>1 DEF Filling, Meaning
  <2> QED BY <1>1, <2>1, TemplateNodeCreated DEF Created, Mild
<1>6. WellShown(R.views, template_nodes)
  <2>1. ASSUME NEW f \in template_nodes,
               NEW p \in {ToDomainWorkflowTemplateNode, StoreListTemplateNodes}
        PROVE  Mild(p, f)
    BY KeptIsMild, OnIsMild, OverIsMild, Domains, ThenIsMild
    DEF ToDomainWorkflowTemplateNode, StoreListTemplateNodes, listTemplateNodes
  <2>2. WellShown(Shows(template_nodes, {ToDomainWorkflowTemplateNode, StoreListTemplateNodes}),
                  template_nodes)
    BY <2>1, Showing
  <2> QED BY <1>3, <2>2
<1>7. template_nodes # {} /\ template_nodes \subseteq R.given \cup R.defaulted
  BY <1>1 DEF template_nodes
<1> QED BY <1>1, <1>2, <1>4, <1>5, <1>6, <1>7, UneditedIsLawful DEF R

\* Nodes of tasks: they are copied from the template's, but for what they depend on.
LEMMA TaskNodeIsLawful == Lawful(TaskNodeKind)
<1> DEFINE R == TaskNodeKind
           S == task_nodes \ {"depends_on"}
<1>1. /\ R.given = template_nodes /\ R.defaulted = {"sort_order", "max_reject_cycles"}
      /\ R.barred = {} /\ R.secret = {} /\ R.create = CreateTaskNodePath
  BY DEF TaskNodeKind, ++, Plain
<1>2. /\ R.fields = {} /\ R.in = <<>> /\ R.read = <<>> /\ R.merge = <<>> /\ R.out = <<>>
      /\ R.set = <<>>
  BY DEF TaskNodeKind, ++, Plain
<1>3. R.views =
        Shows(task_nodes \ {"depends_on"}, {ToDomainTaskNode, StoreGetTaskNode, ListNodes})
          \cup Shows(task_nodes \ {"depends_on", "readonly_dirs", "full_control_dirs"},
                     {ListTaskNodesByProject})
  BY DEF TaskNodeKind, ++, Plain
<1> HIDE DEF R
<1>4. Total(R.create)
  BY <1>1, TotalLayers, TheValues
  DEF CreateTaskNodePath, CreateTemplateNodePath, templateNodeRequest, TemplateNodeDefaults,
      buildCreateTemplateNodeParams, FromDomainCreateTemplateNodeParams, createTemplateNode,
      StoreListTemplateNodes, listTemplateNodes, ToDomainWorkflowTemplateNode,
      CopyTemplateNode, FromDomainCreateTaskNodeParams, createTaskNode
<1>5. ASSUME NEW f \in S PROVE Created(R, f)
  <2>1. f \in task_nodes /\ f \in template_nodes /\ f # "depends_on"
    BY DEF task_nodes
  <2>2. Filling(R, f) =
          IF f \in {"sort_order", "max_reject_cycles"} THEN DefaultIfEmpty ELSE Same
    BY <1>1 DEF Filling, Meaning
  <2>3. /\ Mild(StoreListTemplateNodes, f)
        /\ Mild(FromDomainCreateTaskNodeParams, f) /\ Mild(createTaskNode, f)
    BY <2>1, KeptIsMild, OnIsMild, OverIsMild, ThenIsMild, Domains
    DEF StoreListTemplateNodes, listTemplateNodes, ToDomainWorkflowTemplateNode,
        FromDomainCreateTaskNodeParams, CreateTaskNodeParams, createTaskNode
  <2>4. CASE f = "max_reject_cycles"
    <3>1. Takes(CreateTemplateNodePath, f, DefaultIfEmpty)
      BY <2>1, <2>4, TemplateNodeCreated
    <3>2. Takes(CopyTemplateNode, f, DefaultIfEmpty)
      <4>1. Takes(On({"max_reject_cycles"}, DefaultIfEmpty), f, DefaultIfEmpty)
        BY <2>4, OnTakes
      <4>2. Takes(On({"description"}, NullIfEmpty) ++ On({"max_reject_cycles"}, DefaultIfEmpty),
                  f, DefaultIfEmpty)
        BY <2>4, <4>1, OverTakes, Domains
      <4>3. Takes(On({"description"}, NullIfEmpty) ++ On({"max_reject_cycles"}, DefaultIfEmpty)
                    ++ On({"depends_on"}, Always(Empty)), f, DefaultIfEmpty)
        BY <2>4, <4>2, OverTakes, Domains
      <4> QED BY <2>4, <4>3, OverTakes, Domains DEF CopyTemplateNode
    <3> QED BY <1>1, <2>2, <2>3, <2>4, <3>1, <3>2, ThenTakes, FilledTwice
        DEF CreateTaskNodePath, Created
  <2>5. CASE f # "max_reject_cycles"
    <3>1. Mild(CopyTemplateNode, f)
      BY <2>1, <2>5, KeptIsMild, OnIsMild, OverIsMild, Domains DEF CopyTemplateNode
    <3>2. CASE f = "sort_order"
      <4>1. Takes(CreateTemplateNodePath, f, DefaultIfEmpty)
        BY <2>1, <3>2, TemplateNodeCreated
      <4> QED BY <1>1, <2>2, <2>3, <3>1, <3>2, <4>1, ThenTakes DEF CreateTaskNodePath, Created
    <3>3. CASE f # "sort_order"
      <4>1. Mild(CreateTemplateNodePath, f)
        BY <2>1, <2>5, <3>3, TemplateNodeCreated
      <4> QED BY <1>1, <2>2, <2>3, <2>5, <3>1, <3>3, <4>1, ThenIsMild
          DEF CreateTaskNodePath, Created, Mild
    <3> QED BY <3>2, <3>3
  <2> QED BY <2>4, <2>5
<1>6. WellShown(R.views, S)
  <2>1. ASSUME NEW f \in task_nodes,
               NEW p \in {ToDomainTaskNode, StoreGetTaskNode, ListNodes}
        PROVE  Mild(p, f)
    BY KeptIsMild, OnIsMild, OverIsMild, ThenIsMild, Domains
    DEF ToDomainTaskNode, StoreGetTaskNode, getTaskNode, ListNodes, listTaskNodes
  <2>2. WellShown(Shows(task_nodes \ {"depends_on"},
                        {ToDomainTaskNode, StoreGetTaskNode, ListNodes}), S)
    BY <2>1, Showing
  <2>3. ASSUME NEW f \in task_nodes \ {"depends_on", "readonly_dirs", "full_control_dirs"}
        PROVE  Mild(ListTaskNodesByProject, f)
    BY <2>1, KeptIsMild, ThenIsMild, Domains DEF ListTaskNodesByProject
  <2>4. WellShown(Shows(task_nodes \ {"depends_on", "readonly_dirs", "full_control_dirs"},
                        {ListTaskNodesByProject}), S)
    BY <2>3, Showing
  <2>5. WellShown(Shows(task_nodes \ {"depends_on"},
                        {ToDomainTaskNode, StoreGetTaskNode, ListNodes})
                    \cup Shows(task_nodes \ {"depends_on", "readonly_dirs", "full_control_dirs"},
                               {ListTaskNodesByProject}), S)
    BY <2>2, <2>4, ShowingBoth
  <2> QED BY <1>3, <2>5
<1>7. S # {} /\ S \subseteq R.given \cup R.defaulted
  BY <1>1 DEF task_nodes, template_nodes
<1> QED BY <1>1, <1>2, <1>4, <1>5, <1>6, <1>7, UneditedIsLawful DEF R

\* Transitions are written once.
LEMMA TransitionIsLawful == Lawful(TransitionKind)
<1> DEFINE R == TransitionKind
<1>1. /\ R.given = node_transitions /\ R.defaulted = {} /\ R.barred = {} /\ R.secret = {}
      /\ R.create = CreateNodeTransitionPath
  BY DEF TransitionKind, ++, Plain
<1>2. /\ R.fields = {} /\ R.in = <<>> /\ R.read = <<>> /\ R.merge = <<>> /\ R.out = <<>>
      /\ R.set = <<>>
  BY DEF TransitionKind, ++, Plain
<1>3. R.views = Shows(node_transitions, {ListNodeTransitions})
  BY DEF TransitionKind, ++, Plain
<1> HIDE DEF R
<1>4. Total(R.create)
  BY <1>1, TotalLayers
  DEF CreateNodeTransitionPath, FromDomainCreateNodeTransitionParams, createNodeTransition
<1>5. ASSUME NEW f \in node_transitions PROVE Created(R, f)
  <2>1. Filling(R, f) = Same
    BY <1>1 DEF Filling, Meaning
  <2>2. Mild(CreateNodeTransitionPath, f)
    BY KeptIsMild, OnIsMild, OverIsMild, Domains, ThenIsMild
    DEF CreateNodeTransitionPath, FromDomainCreateNodeTransitionParams, createNodeTransition
  <2> QED BY <1>1, <2>1, <2>2 DEF Created, Mild
<1>6. WellShown(R.views, node_transitions)
  <2>1. ASSUME NEW f \in node_transitions, NEW p \in {ListNodeTransitions} PROVE Mild(p, f)
    BY KeptIsMild, OnIsMild, OverIsMild, Domains, ThenIsMild
    DEF ListNodeTransitions, listNodeTransitions, ToDomainNodeTransition
  <2>2. WellShown(Shows(node_transitions, {ListNodeTransitions}), node_transitions)
    BY <2>1, Showing
  <2> QED BY <1>3, <2>2
<1>7. node_transitions # {} /\ node_transitions \subseteq R.given \cup R.defaulted
  BY <1>1 DEF node_transitions
<1> QED BY <1>1, <1>2, <1>4, <1>5, <1>6, <1>7, UneditedIsLawful DEF R

\* Token usage is written once.
LEMMA UsageIsLawful == Lawful(UsageKind)
<1> DEFINE R == UsageKind
<1>1. /\ R.given = token_usage /\ R.defaulted = {} /\ R.barred = {} /\ R.secret = {}
      /\ R.create = ReportTokenUsagePath
  BY DEF UsageKind, ++, Plain
<1>2. /\ R.fields = {} /\ R.in = <<>> /\ R.read = <<>> /\ R.merge = <<>> /\ R.out = <<>>
      /\ R.set = <<>>
  BY DEF UsageKind, ++, Plain
<1>3. R.views = Shows(token_usage, {ToDomainTokenUsage})
  BY DEF UsageKind, ++, Plain
<1> HIDE DEF R
<1>4. Total(R.create)
  BY <1>1, TotalLayers
  DEF ReportTokenUsagePath, ReportTokenUsageReq, buildCreateTokenUsageParams,
      FromDomainCreateTokenUsageParams, createTokenUsage
<1>5. ASSUME NEW f \in token_usage PROVE Created(R, f)
  <2>1. Filling(R, f) = Same
    BY <1>1 DEF Filling, Meaning
  <2>2. Mild(ReportTokenUsagePath, f)
    BY KeptIsMild, OnIsMild, OverIsMild, Domains, ThenIsMild
    DEF ReportTokenUsagePath, ReportTokenUsageReq, buildCreateTokenUsageParams,
        FromDomainCreateTokenUsageParams, createTokenUsage
  <2> QED BY <1>1, <2>1, <2>2 DEF Created, Mild
<1>6. WellShown(R.views, token_usage)
  <2>1. ASSUME NEW f \in token_usage, NEW p \in {ToDomainTokenUsage} PROVE Mild(p, f)
    BY KeptIsMild, OnIsMild, OverIsMild, Domains, ThenIsMild
    DEF ToDomainTokenUsage
  <2>2. WellShown(Shows(token_usage, {ToDomainTokenUsage}), token_usage)
    BY <2>1, Showing
  <2> QED BY <1>3, <2>2
<1>7. token_usage # {} /\ token_usage \subseteq R.given \cup R.defaulted
  BY <1>1 DEF token_usage
<1> QED BY <1>1, <1>2, <1>4, <1>5, <1>6, <1>7, UneditedIsLawful DEF R

\* Comments: the type has a default.
LEMMA CommentIsLawful == Lawful(CommentKind)
<1> DEFINE R == CommentKind
<1>1. /\ R.given = comments /\ R.defaulted = {"comment_type"} /\ R.barred = {} /\ R.secret = {}
      /\ R.create = CreateCommentPath
  BY DEF CommentKind, ++, Plain
<1>2. /\ R.fields = {} /\ R.in = <<>> /\ R.read = <<>> /\ R.merge = <<>> /\ R.out = <<>>
      /\ R.set = <<>>
  BY DEF CommentKind, ++, Plain
<1>3. R.views = Shows(comments, ListComments \cup {ToDomainComment})
  BY DEF CommentKind, ++, Plain
<1> HIDE DEF R
<1>4. Total(R.create)
  BY <1>1, TotalLayers
  DEF CreateCommentPath, createCommentRequest, CommentDefaults, buildCreateCommentParams,
      FromDomainCreateCommentParams, createComment
<1>5. ASSUME NEW f \in comments PROVE Created(R, f)
  <2>1. Filling(R, f) = IF f \in {"comment_type"} THEN DefaultIfEmpty ELSE Same
    BY <1>1 DEF Filling, Meaning
  <2>2. /\ Mild(createCommentRequest, f) /\ Mild(buildCreateCommentParams, f)
        /\ Mild(FromDomainCreateCommentParams, f) /\ Mild(createComment, f)
    BY KeptIsMild, OnIsMild, OverIsMild, Domains, ThenIsMild
    DEF createCommentRequest, CommentDefaults, buildCreateCommentParams,
        FromDomainCreateCommentParams, createComment
  <2>3. CASE f \in {"comment_type"}
    <3>1. Takes(CommentDefaults, f, DefaultIfEmpty)
      BY <2>3, OnTakes, OverTakes, Domains DEF CommentDefaults
    <3> QED BY <1>1, <2>1, <2>2, <2>3, <3>1, ThenIsMild, ThenTakes, TakesAfter
        DEF CreateCommentPath, Created
  <2>4. CASE f \notin {"comment_type"}
    <3>1. Mild(CommentDefaults, f)
      BY <2>4, KeptIsMild, OnIsMild, OverIsMild, Domains DEF CommentDefaults
    <3> QED BY <1>1, <2>1, <2>2, <2>4, <3>1, ThenIsMild DEF CreateCommentPath, Created, Mild
  <2> QED BY <2>3, <2>4
<1>6. WellShown(R.views, comments)
  <2>1. ASSUME NEW f \in comments, NEW p \in ListComments \cup {ToDomainComment} PROVE Mild(p, f)
    BY KeptIsMild, OnIsMild, OverIsMild, Domains, ThenIsMild
    DEF ListComments, listComments, listTaskLevelComments, listNodeComments,
        listExecutionContextComments, ToDomainComment
  <2>2. WellShown(Shows(comments, ListComments \cup {ToDomainComment}), comments)
    BY <2>1, Showing
  <2> QED BY <1>3, <2>2
<1>7. comments # {} /\ comments \subseteq R.given \cup R.defaulted
  BY <1>1 DEF comments
<1> QED BY <1>1, <1>2, <1>4, <1>5, <1>6, <1>7, UneditedIsLawful DEF R

\* Memories of members: the confidence has a default.
LEMMA MemoryIsLawful == Lawful(MemoryKind)
<1> DEFINE R == MemoryKind
<1>1. /\ R.given = memories /\ R.defaulted = {"confidence"} /\ R.barred = {} /\ R.secret = {}
      /\ R.create = MemberCreatesMemoryPath
  BY DEF MemoryKind, ++, Plain
<1>2. /\ R.fields = {} /\ R.in = <<>> /\ R.read = <<>> /\ R.merge = <<>> /\ R.out = <<>>
      /\ R.set = <<>>
  BY DEF MemoryKind, ++, Plain
<1>3. R.views = Shows(memories, {ListMemories, SearchMemories})
  BY DEF MemoryKind, ++, Plain
<1> HIDE DEF R
<1>4. Total(R.create)
  BY <1>1, TotalLayers
  DEF MemberCreatesMemoryPath, createMemoryRequest, MemoryDefaults, buildCreateMemoryParams,
      StoreCreateMemory, FromDomainCreateMemoryParams, createMemory
<1>5. ASSUME NEW f \in memories PROVE Created(R, f)
  <2>1. Filling(R, f) = IF f \in {"confidence"} THEN DefaultIfEmpty ELSE Same
    BY <1>1 DEF Filling, Meaning
  <2>2. /\ Mild(createMemoryRequest, f) /\ Mild(buildCreateMemoryParams, f)
        /\ Mild(StoreCreateMemory, f)
    BY KeptIsMild, OnIsMild, OverIsMild, Domains, ThenIsMild
    DEF createMemoryRequest, MemoryDefaults, buildCreateMemoryParams, StoreCreateMemory,
        FromDomainCreateMemoryParams, createMemory
  <2>3. CASE f \in {"confidence"}
    <3>1. Takes(MemoryDefaults, f, DefaultIfEmpty)
      BY <2>3, OnTakes, OverTakes, Domains DEF MemoryDefaults
    <3> QED BY <1>1, <2>1, <2>2, <2>3, <3>1, ThenIsMild, ThenTakes, TakesAfter
        DEF MemberCreatesMemoryPath, Created
  <2>4. CASE f \notin {"confidence"}
    <3>1. Mild(MemoryDefaults, f)
      BY <2>4, KeptIsMild, OnIsMild, OverIsMild, Domains DEF MemoryDefaults
    <3> QED BY <1>1, <2>1, <2>2, <2>4, <3>1, ThenIsMild DEF MemberCreatesMemoryPath, Created, Mild
  <2> QED BY <2>3, <2>4
<1>6. WellShown(R.views, memories)
  <2>1. ASSUME NEW f \in memories, NEW p \in {ListMemories, SearchMemories} PROVE Mild(p, f)
    BY KeptIsMild, OnIsMild, OverIsMild, Domains, ThenIsMild
    DEF ListMemories, listMemoriesByWorkspace, ToDomainMemory, SearchMemories, searchMemories,
        SearchMemoriesRow
  <2>2. WellShown(Shows(memories, {ListMemories, SearchMemories}), memories)
    BY <2>1, Showing
  <2> QED BY <1>3, <2>2
<1>7. memories # {} /\ memories \subseteq R.given \cup R.defaulted
  BY <1>1 DEF memories
<1> QED BY <1>1, <1>2, <1>4, <1>5, <1>6, <1>7, UneditedIsLawful DEF R

\* Memories of agents: they are unverified, whatever the agent says.
LEMMA AgentsMemoryIsLawful == Lawful(AgentsMemoryKind)
<1> DEFINE R == AgentsMemoryKind
<1>1. /\ R.given = memories /\ R.defaulted = {"confidence"}
      /\ R.barred = {"verified"} /\ R.secret = {}
      /\ R.create = AgentCreatesMemoryPath
  BY DEF AgentsMemoryKind, ++, Plain
<1>2. /\ R.fields = {} /\ R.in = <<>> /\ R.read = <<>> /\ R.merge = <<>> /\ R.out = <<>>
      /\ R.set = <<>>
  BY DEF AgentsMemoryKind, ++, Plain
<1>3. R.views = Shows(memories, {ListMemories, SearchMemories})
  BY DEF AgentsMemoryKind, ++, Plain
<1> HIDE DEF R
<1>4. Total(R.create)
  BY <1>1, TotalLayers, TheValues
  DEF AgentCreatesMemoryPath, createMemoryRequest, AgentsUnverified, MemoryDefaults,
      buildCreateMemoryParams, StoreCreateMemory, FromDomainCreateMemoryParams, createMemory
<1>5. ASSUME NEW f \in memories PROVE Created(R, f)
  <2>1. Filling(R, f) = IF f = "verified" THEN Always(Empty)
                        ELSE IF f = "confidence" THEN DefaultIfEmpty ELSE Same
    BY <1>1 DEF Filling, Meaning
  <2>2. Mild(createMemoryRequest, f) /\ Mild(buildCreateMemoryParams, f)
          /\ Mild(StoreCreateMemory, f)
    BY KeptIsMild, OnIsMild, OverIsMild, ThenIsMild, Domains
    DEF createMemoryRequest, buildCreateMemoryParams, StoreCreateMemory,
        FromDomainCreateMemoryParams, createMemory
  <2>3. f # "confidence" => Mild(MemoryDefaults, f)
    BY KeptIsMild, OnIsMild, OverIsMild, Domains DEF MemoryDefaults
  <2>4. f # "verified" => Mild(AgentsUnverified, f)
    BY KeptIsMild, OverIsMild, Domains DEF AgentsUnverified
  <2>5. CASE f = "verified"
    <3>1. Takes(On({"verified"}, Always(Empty)), f, Always(Empty))
      BY <2>5, TheValues, AlwaysTakes
    <3>2. Takes(AgentsUnverified, f, Always(Empty))
      BY <2>5, <3>1, OverTakes, Domains DEF AgentsUnverified
    <3> QED BY <1>1, <2>1, <2>2, <2>3, <2>5, <3>2, ThenTakes, TakesAfter
        DEF AgentCreatesMemoryPath, Created
  <2>6. CASE f = "confidence"
    <3>1. Takes(MemoryDefaults, f, DefaultIfEmpty)
      <4>1. Takes(On({"confidence"}, DefaultIfEmpty), f, DefaultIfEmpty)
        BY <2>6, OnTakes
      <4>2. f \notin {"source_task_id"} /\ f \notin {"tags", "metadata"}
        BY <2>6
      <4> QED BY <2>6, <4>1, <4>2, OverTakes, Domains DEF MemoryDefaults
    <3> QED BY <1>1, <2>1, <2>2, <2>4, <2>6, <3>1, ThenIsMild, ThenTakes, TakesAfter
        DEF AgentCreatesMemoryPath, Created
  <2>7. CASE f \notin {"verified", "confidence"}
    BY <1>1, <2>1, <2>2, <2>3, <2>4, <2>7, ThenIsMild DEF AgentCreatesMemoryPath, Created, Mild
  <2> QED BY <2>5, <2>6, <2>7
<1>6. WellShown(R.views, memories)
  <2>1. ASSUME NEW f \in memories, NEW p \in {ListMemories, SearchMemories} PROVE Mild(p, f)
    BY KeptIsMild, OnIsMild, OverIsMild, Domains, ThenIsMild
    DEF ListMemories, listMemoriesByWorkspace, ToDomainMemory, SearchMemories, searchMemories,
        SearchMemoriesRow
  <2>2. WellShown(Shows(memories, {ListMemories, SearchMemories}), memories)
    BY <2>1, Showing
  <2> QED BY <1>3, <2>2
<1>7. memories # {} /\ memories \subseteq R.given \cup R.defaulted
  BY <1>1 DEF memories
<1> QED BY <1>1, <1>2, <1>4, <1>5, <1>6, <1>7, UneditedIsLawful DEF R

\* What becomes of each field of a shared workflow on the way to its row.
LEMMA MarketWorkflowCreated ==
  ASSUME NEW f \in community_workflows \ {"is_official"}
  PROVE  IF f = "version" THEN Takes(CreateCommunityWorkflowPath, f, DefaultIfEmpty)
         ELSE Mild(CreateCommunityWorkflowPath, f)
<1>1. /\ Mild(createCommunityWorkflowRequest, f) /\ Mild(buildCreateCommunityWorkflowParams, f)
      /\ Mild(FromDomainCreateCommunityWorkflowParams, f) /\ Mild(createCommunityWorkflow, f)
  BY KeptIsMild, OnIsMild, OverIsMild, Domains
  DEF createCommunityWorkflowRequest, buildCreateCommunityWorkflowParams,
      FromDomainCreateCommunityWorkflowParams, createCommunityWorkflow
<1>2. CASE f = "version"
  <2>1. Takes(WorkflowDefaults, f, DefaultIfEmpty)
    BY <1>2, OnTakes, OverTakes, Domains DEF WorkflowDefaults
  <2> QED BY <1>1, <1>2, <2>1, ThenTakes, TakesAfter DEF CreateCommunityWorkflowPath
<1>3. CASE f # "version"
  <2>1. f \in community_workflows
    OBVIOUS
  <2>2. Mild(WorkflowDefaults, f)
    BY <1>3, <2>1, KeptIsMild, OverIsMild, Domains DEF WorkflowDefaults
  <2> QED BY <1>1, <1>3, <2>2, ThenIsMild DEF CreateCommunityWorkflowPath
<1> QED BY <1>2, <1>3

\* Shared workflows: the version has a default.
LEMMA MarketWorkflowIsLawful == Lawful(MarketWorkflowKind)
<1> DEFINE R == MarketWorkflowKind
<1>1. /\ R.given = community_workflows /\ R.defaulted = {"version"}
      /\ R.barred = {} /\ R.secret = {}
      /\ R.create = CreateCommunityWorkflowPath
  BY DEF MarketWorkflowKind, ++, Plain
<1>2. /\ R.fields = {} /\ R.in = <<>> /\ R.read = <<>> /\ R.merge = <<>> /\ R.out = <<>>
      /\ R.set = <<>>
  BY DEF MarketWorkflowKind, ++, Plain
<1>3. R.views = Shows(community_workflows \ {"is_official"}, {ListCommunityWorkflows})
  BY DEF MarketWorkflowKind, ++, Plain
<1> HIDE DEF R
<1>4. Total(R.create)
  BY <1>1, TotalLayers
  DEF CreateCommunityWorkflowPath, createCommunityWorkflowRequest, WorkflowDefaults,
      buildCreateCommunityWorkflowParams, FromDomainCreateCommunityWorkflowParams,
      createCommunityWorkflow
<1>5. ASSUME NEW f \in community_workflows \ {"is_official"} PROVE Created(R, f)
  <2>1. Filling(R, f) = IF f = "version" THEN DefaultIfEmpty ELSE Same
    BY <1>1 DEF Filling, Meaning
  <2> QED BY <1>1, <2>1, MarketWorkflowCreated DEF Created, Mild
<1>6. WellShown(R.views, community_workflows \ {"is_official"})
  <2>1. ASSUME NEW f \in community_workflows \ {"is_official"}, NEW p \in {ListCommunityWorkflows}
        PROVE  Mild(p, f)
    BY KeptIsMild, OnIsMild, OverIsMild, Domains, ThenIsMild
    DEF ListCommunityWorkflows, listCommunityWorkflows, ToDomainCommunityWorkflow
  <2>2. WellShown(Shows(community_workflows \ {"is_official"}, {ListCommunityWorkflows}),
                  community_workflows \ {"is_official"})
    BY <2>1, Showing
  <2> QED BY <1>3, <2>2
<1>7. /\ community_workflows \ {"is_official"} # {}
      /\ community_workflows \ {"is_official"} \subseteq R.given \cup R.defaulted
  BY <1>1 DEF community_workflows
<1> QED BY <1>1, <1>2, <1>4, <1>5, <1>6, <1>7, UneditedIsLawful DEF R

\* Templates imported from the market: the trigger is asked of nobody.
LEMMA ImportedTemplateIsLawful == Lawful(ImportedTemplateKind)
<1> DEFINE R == ImportedTemplateKind
           S == {"name", "description", "trigger"}
           import == CreateCommunityWorkflowPath ** ImportWorkflowPath
<1>1. /\ R.given = community_workflows /\ R.defaulted = {"trigger"} /\ R.barred = {}
      /\ R.secret = {} /\ R.create = import ** StoreCreateWorkflowTemplate
  BY DEF ImportedTemplateKind, ++, Plain
<1>2. /\ R.fields = {} /\ R.in = <<>> /\ R.read = <<>> /\ R.merge = <<>> /\ R.out = <<>>
      /\ R.set = <<>>
  BY DEF ImportedTemplateKind, ++, Plain
<1>3. R.views = Shows(S, {ToDomainWorkflowTemplate})
  BY DEF ImportedTemplateKind, ++, Plain
<1> HIDE DEF R
<1>4. Total(R.create)
  BY <1>1, TotalLayers
  DEF CreateCommunityWorkflowPath, createCommunityWorkflowRequest, WorkflowDefaults,
      buildCreateCommunityWorkflowParams, FromDomainCreateCommunityWorkflowParams,
      createCommunityWorkflow, ImportWorkflowPath, getCommunityWorkflow,
      ToDomainCommunityWorkflow, StoreCreateWorkflowTemplate,
      FromDomainCreateWorkflowTemplateParams, normalizeCreateWorkflowTemplateParams,
      createWorkflowTemplate
<1>5. ASSUME NEW f \in S PROVE Created(R, f)
  <2>1. Filling(R, f) = IF f = "trigger" THEN DefaultIfEmpty ELSE Same
    BY <1>1 DEF Filling, Meaning
  <2>2. f \in templates
    BY DEF templates
  <2>3. Mild(FromDomainCreateWorkflowTemplateParams, f) /\ Mild(createWorkflowTemplate, f)
    BY <2>2, KeptIsMild DEF FromDomainCreateWorkflowTemplateParams, createWorkflowTemplate
  <2>4. CASE f = "trigger"
    <3>1. f \notin DOMAIN import /\ f \notin R.given
      <4>1. f \notin DOMAIN (On({"description"}, NullIfEmpty) ++ Kept({"name"}))
        <5>1. f \notin {"description"} /\ f \notin {"name"}
          BY <2>4
        <5>2. f \notin DOMAIN On({"description"}, NullIfEmpty)
          BY <5>1 DEF On
        <5>3. f \notin DOMAIN Kept({"name"})
          BY <5>1 DEF Kept, On
        <5> QED BY <5>2, <5>3, Domains
      <4>2. f \notin DOMAIN import
        BY <4>1 DEF ImportWorkflowPath, **
      <4>3. f \notin community_workflows
        BY <2>4 DEF community_workflows
      <4> QED BY <1>1, <4>2, <4>3
    <3>2. Takes(normalizeCreateWorkflowTemplateParams, f, DefaultIfEmpty)
      BY <2>4, OnTakes, OverTakes, Domains DEF normalizeCreateWorkflowTemplateParams
    <3>3. Takes(StoreCreateWorkflowTemplate, f, DefaultIfEmpty)
      BY <2>3, <3>2, ThenTakes, TakesAfter DEF StoreCreateWorkflowTemplate
    <3>4. Takes(R.create, f, Always(Default))
      BY <1>1, <3>1, <3>3, FilledUnasked
    <3> QED BY <2>1, <2>4, <3>1, <3>4, CreatedUnasked
  <2>5. CASE f \in {"name", "description"}
    <3>1. f \in community_workflows \ {"is_official"} /\ f # "version" /\ f # "trigger"
      BY <2>5 DEF community_workflows
    <3>2. Mild(CreateCommunityWorkflowPath, f)
      BY <3>1, MarketWorkflowCreated
    <3>3. Mild(getCommunityWorkflow, f) /\ Mild(ToDomainCommunityWorkflow, f)
      BY <3>1, KeptIsMild, OnIsMild, OverIsMild, Domains
      DEF getCommunityWorkflow, ToDomainCommunityWorkflow
    <3>4. Mild(On({"description"}, NullIfEmpty) ++ Kept({"name"}), f)
      <4>1. CASE f = "name"
        BY <4>1, KeptIsMild, OverIsMild, Domains
      <4>2. CASE f = "description"
        BY <4>2, OnIsMild, OverIsMild, Domains
      <4> QED BY <2>5, <4>1, <4>2
    <3>5. Mild(normalizeCreateWorkflowTemplateParams, f)
      BY <2>2, <3>1, KeptIsMild, OverIsMild, Domains DEF normalizeCreateWorkflowTemplateParams
    <3>6. Mild(ImportWorkflowPath, f) /\ Mild(StoreCreateWorkflowTemplate, f)
      BY <2>3, <3>3, <3>4, <3>5, ThenIsMild DEF ImportWorkflowPath, StoreCreateWorkflowTemplate
    <3> QED BY <1>1, <2>1, <3>1, <3>2, <3>6, ThenIsMild DEF Created, Mild
  <2> QED BY <2>4, <2>5
<1>6. WellShown(R.views, S)
  <2>1. ASSUME NEW f \in S PROVE Mild(ToDomainWorkflowTemplate, f)
    BY KeptIsMild, OnIsMild, OverIsMild, Domains DEF ToDomainWorkflowTemplate, templates
  <2> QED BY <1>3, <2>1, Showing
<1>7. S # {} /\ S \subseteq R.given \cup R.defaulted
  BY <1>1 DEF community_workflows
<1> QED BY <1>1, <1>2, <1>4, <1>5, <1>6, <1>7, UneditedIsLawful DEF R

-----------------------------------------------------------------------------
(* The kinds with secrets.                                                   *)

\* MCP servers: the environment is sealed in the row, and shown to the execution only.
LEMMA ServerIsLawful == Lawful(ServerKind)
<1> DEFINE R == ServerKind
           S == mcp_servers \ {"status"}
<1>1. /\ R.given = mcp_servers /\ R.defaulted = {} /\ R.barred = {} /\ R.secret = {"env_vars"}
      /\ R.create = CreateMcpServerPath
  BY DEF ServerKind, ++, Plain
<1>2. /\ R.fields = mcp_servers /\ R.filled = {"name", "auth_type"}
      /\ R.clears = {"url", "type", "env_vars"} /\ R.replaces = {}
      /\ R.in = updateMcpServerRequest ** encryptMCPEnvVars /\ R.read = StoreGetMcpServer
      /\ R.merge = McpServiceUpdate
      /\ R.out = FromDomainUpdateMcpServerParams /\ R.set = updateMcpServer
  BY DEF ServerKind, ++, Plain
<1>3. R.views =
        Shows(S, {ListExecutionMcpServers})
          \cup Shows(mcp_servers \ {"status", "env_vars"}, {ListMcpServers, ListAgentMcpServers})
  BY DEF ServerKind, ++, Plain
<1> HIDE DEF R
<1>4. Meaning(R, "env_vars") = Seal /\ Reading(R, "env_vars") = Unseal
  BY <1>1 DEF Meaning, Reading
<1>5. \A f : f # "env_vars" => Meaning(R, f) = Same /\ Reading(R, f) = Same
  BY <1>1 DEF Meaning, Reading
<1>6. \A f : Filling(R, f) = Meaning(R, f)
  BY <1>1 DEF Filling
<1>7. Total(R.create)
  BY <1>1, TotalLayers
  DEF CreateMcpServerPath, createMcpServerRequest, buildCreateMcpServerParams,
      encryptMCPEnvVars, StoreCreateMcpServer, fromDomainCreateMcpServerParams,
      createMcpServer
<1>8. ASSUME NEW f \in mcp_servers PROVE Takes(encryptMCPEnvVars, f, Meaning(R, f))
  <2>1. CASE f = "env_vars"
    <3>1. Takes(On({"env_vars"}, Seal), f, Seal)
      BY <2>1, OnTakes
    <3> QED BY <1>4, <2>1, <3>1, OverTakes, Domains DEF encryptMCPEnvVars
  <2>2. CASE f # "env_vars"
    <3>1. Mild(encryptMCPEnvVars, f)
      BY <2>2, KeptIsMild, OverIsMild, Domains DEF encryptMCPEnvVars
    <3> QED BY <1>5, <2>2, <3>1 DEF Mild
  <2> QED BY <2>1, <2>2
<1>9. ASSUME NEW f \in S PROVE Created(R, f)
  <2>1. /\ Mild(createMcpServerRequest, f) /\ Mild(buildCreateMcpServerParams, f)
        /\ Mild(fromDomainCreateMcpServerParams, f) /\ Mild(createMcpServer, f)
    BY KeptIsMild, OnIsMild, OverIsMild, Domains
    DEF createMcpServerRequest, buildCreateMcpServerParams, fromDomainCreateMcpServerParams,
        createMcpServer
  <2>2. Takes(CreateMcpServerPath, f, Meaning(R, f))
    <3>1. Mild(createMcpServerRequest ** buildCreateMcpServerParams, f)
            /\ Mild(StoreCreateMcpServer, f)
      BY <2>1, ThenIsMild DEF StoreCreateMcpServer
    <3>2. CASE f = "env_vars"
      BY <1>4, <1>8, <3>1, <3>2, ThenTakes, TakesAfter DEF CreateMcpServerPath
    <3>3. CASE f # "env_vars"
      <4>1. Mild(encryptMCPEnvVars, f)
        BY <1>5, <1>8, <3>3 DEF Mild
      <4> QED BY <1>5, <3>1, <3>3, <4>1, ThenTakes, ThenIsMild DEF CreateMcpServerPath, Mild
    <3> QED BY <3>2, <3>3
  <2> QED BY <1>1, <1>6, <2>2 DEF Created
<1>10. ASSUME NEW view \in R.views, NEW f \in view.fields
       PROVE  f \in S /\ Takes(view.path, f, Reading(R, f))
  <2>1. CASE view \in Shows(S, {ListExecutionMcpServers})
    <3>1. f \in S /\ view.path = ListExecutionMcpServers
      BY <2>1 DEF Shows
    <3>2. Mild(StoreListAgentMcpServers, f)
      BY <3>1, KeptIsMild, ThenIsMild
      DEF StoreListAgentMcpServers, listAgentMcpServers, ToDomainListAgentMcpServersRow
    <3>3. CASE f = "env_vars"
      <4>1. Takes(On({"env_vars"}, Unseal), f, Unseal)
        BY <3>3, OnTakes
      <4>2. Takes(decryptMCPEnvVars, f, Unseal)
        BY <3>3, <4>1, OverTakes, Domains DEF decryptMCPEnvVars
      <4> QED BY <1>4, <3>1, <3>2, <3>3, <4>2, TakesAfter DEF ListExecutionMcpServers
    <3>4. CASE f # "env_vars"
      <4>1. Mild(decryptMCPEnvVars, f)
        BY <3>1, <3>4, KeptIsMild, OverIsMild, Domains DEF decryptMCPEnvVars
      <4> QED BY <1>5, <3>1, <3>2, <3>4, <4>1, ThenIsMild DEF ListExecutionMcpServers, Mild
    <3> QED BY <3>3, <3>4
  <2>2. CASE view \in Shows(mcp_servers \ {"status", "env_vars"},
                            {ListMcpServers, ListAgentMcpServers})
    <3>1. /\ f \in mcp_servers \ {"status", "env_vars"}
          /\ view.path \in {ListMcpServers, ListAgentMcpServers}
      BY <2>2 DEF Shows
    <3>2. f \in S /\ f # "env_vars" /\ f \in mcp_servers
      BY <3>1
    <3>3. Mild(ListMcpServers, f)
      <4>1. Mild(listMcpServers, f) /\ Mild(ToDomainMcpServer, f)
        <5>1. Mild(Kept(mcp_servers), f)
          BY <3>2, KeptIsMild
        <5>2. f \in DOMAIN On({"type"}, EmptyIfNull) => Mild(On({"type"}, EmptyIfNull), f)
          BY OnIsMild DEF On
        <5> QED BY <5>1, <5>2, OverIsMild DEF listMcpServers, ToDomainMcpServer
      <4>2. Mild(maskMCPServerEnvVars, f)
        BY <3>2, KeptIsMild, OverIsMild, Domains DEF maskMCPServerEnvVars
      <4>3. Mild(mcpServerResponse, f)
        BY <3>2, KeptIsMild, OnIsMild, OverIsMild, Domains DEF mcpServerResponse
      <4> QED BY <4>1, <4>2, <4>3, ThenIsMild DEF ListMcpServers
    <3>4. Mild(ListAgentMcpServers, f)
      BY <3>2, KeptIsMild, ThenIsMild
      DEF ListAgentMcpServers, StoreListAgentMcpServers, listAgentMcpServers,
          ToDomainListAgentMcpServersRow, maskAgentMcpEnvVarsForDisplay
    <3> QED BY <1>5, <3>1, <3>2, <3>3, <3>4 DEF Mild
  <2>3. view \in Shows(S, {ListExecutionMcpServers})
          \/ view \in Shows(mcp_servers \ {"status", "env_vars"},
                            {ListMcpServers, ListAgentMcpServers})
    BY <1>3
  <2> QED BY <2>1, <2>2, <2>3
<1>11. /\ Total(R.in) /\ Total(R.out) /\ Total(R.read)
       /\ TotalRules(R.merge) /\ TotalRules(R.set)
  BY <1>2, TotalLayers, TotalUpdates, TheValues
  DEF updateMcpServerRequest, encryptMCPEnvVars, StoreGetMcpServer, getMcpServer,
      ToDomainMcpServer, McpServiceUpdate, FromDomainUpdateMcpServerParams, updateMcpServer
<1>12. ASSUME NEW f \in S PROVE Edited(R, f)
  <2>1. /\ Mild(updateMcpServerRequest, f) /\ Mild(StoreGetMcpServer, f)
        /\ Mild(FromDomainUpdateMcpServerParams, f)
    <3>1. f \in mcp_servers /\ f # "status"
      OBVIOUS
    <3>2. Mild(updateMcpServerRequest, f) /\ Mild(StoreGetMcpServer, f)
      BY <3>1, KeptIsMild, OnIsMild, OverIsMild, ThenIsMild, Domains
      DEF updateMcpServerRequest, StoreGetMcpServer, getMcpServer, ToDomainMcpServer
    <3>3. Mild(FromDomainUpdateMcpServerParams, f)
      BY <3>1, KeptIsMild, OverIsMild, Domains DEF FromDomainUpdateMcpServerParams
    <3> QED BY <3>2, <3>3
  <2>2. Takes(R.in, f, Meaning(R, f))
    <3>1. CASE f = "env_vars"
      BY <1>2, <1>4, <1>8, <2>1, <3>1, TakesAfter
    <3>2. CASE f # "env_vars"
      <4>1. Mild(encryptMCPEnvVars, f)
        BY <1>5, <1>8, <3>2 DEF Mild
      <4> QED BY <1>2, <1>5, <2>1, <3>2, <4>1, ThenIsMild DEF Mild
    <3> QED BY <3>1, <3>2
  <2>3. /\ f \in DOMAIN updateMcpServer /\ updateMcpServer[f] = Take
        /\ f \in DOMAIN McpServiceUpdate /\ McpServiceUpdate[f] = KeepIfNull
    BY DEF updateMcpServer, McpServiceUpdate, On
  <2>4. /\ (updateMcpServerRequest ** encryptMCPEnvVars)[f][Null] = Null
        /\ (updateMcpServerRequest ** encryptMCPEnvVars)[f][Empty] = Empty
    BY ValueFunctions, SealFunctions, TheValues
    DEF updateMcpServerRequest, encryptMCPEnvVars, Kept, On, ++, **, Blank
  <2>5. f \in R.clears \cup R.filled
    BY <1>2 DEF mcp_servers
  <2>6. Passed(R, f)
    BY <1>2, <2>1, <2>2, <2>3 DEF Passed
  <2> QED BY <1>2, <2>1, <2>3, <2>4, <2>5, <2>6 DEF Edited, FilledIfNull
<1>13. S # {} /\ S \subseteq R.given \cup R.defaulted /\ R.secret \subseteq S
  BY <1>1 DEF mcp_servers
<1>14. R.secret \cap (R.defaulted \cup R.barred) = {}
  BY <1>1
<1> HIDE DEF S
<1> QED BY <1>7, <1>9, <1>10, <1>11, <1>12, <1>13, <1>14, KindIsLawful DEF R

\* Credentials: the token is sealed in the row, and shown to the agent only.
LEMMA CredentialIsLawful == Lawful(CredentialKind)
<1> DEFINE R == CredentialKind
           S == git_credentials
<1>1. /\ R.given = git_credentials /\ R.defaulted = {"username"} /\ R.barred = {}
      /\ R.secret = {"pat"} /\ R.create = CreateGitCredentialPath
  BY DEF CredentialKind, ++, Plain
<1>2. /\ R.fields = git_credentials /\ R.clears = {} /\ R.replaces = {}
      /\ R.in = updateGitCredentialRequest ** EncryptPAT /\ R.read = StoreGetGitCredential
      /\ R.merge = ExistingCredential
      /\ R.out = buildUpdateGitCredentialParams /\ R.set = updateGitCredential
  BY DEF CredentialKind, ++, Plain
<1>3. R.views = Shows(git_credentials, {AgentCredentials})
                  \cup Shows(git_credentials \ {"pat"}, {MemberCredentials})
  BY DEF CredentialKind, ++, Plain
<1> HIDE DEF R
<1>4. Meaning(R, "pat") = Seal /\ Reading(R, "pat") = Unseal
  BY <1>1 DEF Meaning, Reading
<1>5. \A f : f # "pat" => Meaning(R, f) = Same /\ Reading(R, f) = Same
  BY <1>1 DEF Meaning, Reading
<1>6. Total(R.create)
  BY <1>1, TotalLayers
  DEF CreateGitCredentialPath, createGitCredentialRequest, CredentialDefaults,
      buildCreateGitCredentialParams, createGitCredential
<1>7. ASSUME NEW f \in S PROVE Created(R, f)
  <2>1. /\ Mild(createGitCredentialRequest, f) /\ Mild(buildCreateGitCredentialParams, f)
        /\ Mild(createGitCredential, f)
    BY KeptIsMild, OnIsMild
    DEF createGitCredentialRequest, buildCreateGitCredentialParams, createGitCredential
  <2>2. CASE f = "username"
    <3>1. Filling(R, f) = DefaultIfEmpty
      BY <1>1, <2>2 DEF Filling
    <3>2. Takes(On({"username"}, DefaultIfEmpty) ++ On({"pat"}, Seal), f, DefaultIfEmpty)
      <4>1. Takes(On({"username"}, DefaultIfEmpty), f, DefaultIfEmpty)
        BY <2>2, OnTakes
      <4> QED BY <2>2, <4>1, OverTakes, Domains
    <3>3. Takes(CredentialDefaults, f, DefaultIfEmpty)
      BY <2>2, <3>2, OverTakes, Domains DEF CredentialDefaults
    <3> QED BY <1>1, <2>1, <3>1, <3>3, ThenTakes, TakesAfter DEF CreateGitCredentialPath, Created
  <2>3. CASE f = "pat"
    <3>1. Filling(R, f) = Seal
      BY <1>1, <1>4, <2>3 DEF Filling
    <3>2. Takes(On({"username"}, DefaultIfEmpty) ++ On({"pat"}, Seal), f, Seal)
      <4>1. Takes(On({"pat"}, Seal), f, Seal)
        BY <2>3, OnTakes
      <4>2. f \notin DOMAIN On({"username"}, DefaultIfEmpty)
        BY <2>3 DEF On
      <4> QED BY <4>1, <4>2, OverTakes
    <3>3. Takes(CredentialDefaults, f, Seal)
      BY <2>3, <3>2, OverTakes, Domains DEF CredentialDefaults
    <3> QED BY <1>1, <2>1, <3>1, <3>3, ThenTakes, TakesAfter DEF CreateGitCredentialPath, Created
  <2>4. CASE f \notin {"username", "pat"}
    <3>1. Filling(R, f) = Same
      BY <1>1, <1>5, <2>4 DEF Filling
    <3>2. Mild(CredentialDefaults, f)
      BY <2>4, KeptIsMild, OverIsMild, Domains DEF CredentialDefaults
    <3> QED BY <1>1, <2>1, <3>1, <3>2, ThenIsMild DEF CreateGitCredentialPath, Created, Mild
  <2> QED BY <2>2, <2>3, <2>4
<1>8. ASSUME NEW f \in S PROVE Takes(AgentCredentials, f, Reading(R, f))
  <2>1. Mild(getGitCredentialsByProject ** ToDomainGitCredential, f)
    BY KeptIsMild, ThenIsMild DEF getGitCredentialsByProject, ToDomainGitCredential
  <2>2. CASE f = "pat"
    <3>1. Takes(On({"pat"}, Unseal), f, Unseal)
      BY <2>2, OnTakes
    <3>2. Takes(DecryptPAT, f, Unseal)
      BY <2>2, <3>1, OverTakes, Domains DEF DecryptPAT
    <3> QED BY <1>4, <2>1, <2>2, <3>2, TakesAfter DEF AgentCredentials
  <2>3. CASE f # "pat"
    <3>1. Mild(DecryptPAT, f)
      BY <2>3, KeptIsMild, OverIsMild, Domains DEF DecryptPAT
    <3> QED BY <1>5, <2>1, <2>3, <3>1, ThenIsMild DEF AgentCredentials, Mild
  <2> QED BY <2>2, <2>3
<1>9. ASSUME NEW view \in R.views, NEW f \in view.fields
      PROVE  f \in S /\ Takes(view.path, f, Reading(R, f))
  <2>1. CASE view \in Shows(git_credentials, {AgentCredentials})
    <3>1. f \in S /\ view.path = AgentCredentials
      BY <2>1 DEF Shows
    <3> QED BY <1>8, <3>1
  <2>2. CASE view \in Shows(git_credentials \ {"pat"}, {MemberCredentials})
    <3>1. f \in S /\ f # "pat" /\ view.path = MemberCredentials
      BY <2>2 DEF Shows
    <3>2. Mild(AgentCredentials, f)
      BY <1>5, <1>8, <3>1 DEF Mild
    <3>3. Mild(maskedCredential, f)
      BY <3>1, KeptIsMild DEF maskedCredential
    <3> QED BY <1>5, <3>1, <3>2, <3>3, ThenIsMild DEF MemberCredentials, Mild
  <2>3. view \in Shows(git_credentials, {AgentCredentials})
          \/ view \in Shows(git_credentials \ {"pat"}, {MemberCredentials})
    BY <1>3
  <2> QED BY <2>1, <2>2, <2>3
<1>10. /\ Total(R.in) /\ Total(R.out) /\ Total(R.read)
       /\ TotalRules(R.merge) /\ TotalRules(R.set)
  BY <1>2, TotalLayers, TotalUpdates
  DEF updateGitCredentialRequest, EncryptPAT, StoreGetGitCredential, getGitCredential,
      ToDomainGitCredential, ExistingCredential, buildUpdateGitCredentialParams,
      updateGitCredential
<1>11. ASSUME NEW f \in S PROVE Edited(R, f)
  <2>1. /\ Mild(updateGitCredentialRequest, f) /\ Mild(StoreGetGitCredential, f)
        /\ Mild(buildUpdateGitCredentialParams, f)
    BY KeptIsMild, OnIsMild, ThenIsMild
    DEF updateGitCredentialRequest, StoreGetGitCredential, getGitCredential,
        ToDomainGitCredential, buildUpdateGitCredentialParams
  <2>2. Takes(R.in, f, Meaning(R, f))
    <3>1. CASE f = "pat"
      <4>1. Takes(On({"pat"}, Seal), f, Seal)
        BY <3>1, OnTakes
      <4>2. Takes(EncryptPAT, f, Seal)
        BY <3>1, <4>1, OverTakes, Domains DEF EncryptPAT
      <4> QED BY <1>2, <1>4, <2>1, <3>1, <4>2, TakesAfter
    <3>2. CASE f # "pat"
      <4>1. Mild(EncryptPAT, f)
        BY <3>2, KeptIsMild, OverIsMild, Domains DEF EncryptPAT
      <4> QED BY <1>2, <1>5, <2>1, <3>2, <4>1, ThenIsMild DEF Mild
    <3> QED BY <3>1, <3>2
  <2>3. /\ f \in DOMAIN updateGitCredential /\ updateGitCredential[f] = Take
        /\ f \in DOMAIN ExistingCredential /\ ExistingCredential[f] = KeepIfEmpty
    BY DEF updateGitCredential, ExistingCredential, On
  <2>4. Passed(R, f)
    BY <1>2, <2>1, <2>2, <2>3 DEF Passed
  <2> QED BY <1>2, <2>1, <2>3, <2>4 DEF Edited, FilledIfEmpty
<1>12. S # {} /\ S \subseteq R.given \cup R.defaulted /\ R.secret \subseteq S
  BY <1>1 DEF git_credentials
<1>13. R.secret \cap (R.defaulted \cup R.barred) = {}
  BY <1>1
<1> HIDE DEF S
<1> QED BY <1>6, <1>7, <1>9, <1>10, <1>11, <1>12, <1>13, KindIsLawful DEF R

-----------------------------------------------------------------------------
(* What the record and the requests hold.                                    *)

\* Every kind is lawful.
LEMMA KindsAreLawful == \A k \in DOMAIN Kinds : Lawful(Kinds[k])
<1>1. Lawful(Kinds["agent"]) /\ Lawful(Kinds["runtime"]) /\ Lawful(Kinds["skill"])
        /\ Lawful(Kinds["server"]) /\ Lawful(Kinds["credential"])
  BY AgentIsLawful, RuntimeIsLawful, SkillIsLawful, ServerIsLawful, CredentialIsLawful
  DEF Kinds
<1>2. Lawful(Kinds["template"]) /\ Lawful(Kinds["template_node"])
        /\ Lawful(Kinds["task_node"]) /\ Lawful(Kinds["task"])
        /\ Lawful(Kinds["transition"]) /\ Lawful(Kinds["usage"]) /\ Lawful(Kinds["comment"])
  BY TemplateIsLawful, TemplateNodeIsLawful, TaskNodeIsLawful, TaskIsLawful,
     TransitionIsLawful, UsageIsLawful, CommentIsLawful
  DEF Kinds
<1>3. Lawful(Kinds["workspace"]) /\ Lawful(Kinds["project"]) /\ Lawful(Kinds["memory"])
        /\ Lawful(Kinds["agents_memory"]) /\ Lawful(Kinds["market_workflow"])
        /\ Lawful(Kinds["imported_template"])
  BY WorkspaceIsLawful, ProjectIsLawful, MemoryIsLawful, AgentsMemoryIsLawful,
     MarketWorkflowIsLawful, ImportedTemplateIsLawful
  DEF Kinds
<1>4. DOMAIN Kinds =
        {"agent", "runtime", "skill", "server", "credential", "template", "template_node",
         "task_node", "task", "transition", "usage", "comment", "workspace", "project",
         "memory", "agents_memory", "market_workflow", "imported_template"}
  BY DEF Kinds
<1> QED BY <1>1, <1>2, <1>3, <1>4

\* Sealed once, if there is anything to seal.
Sealed(v) == v \in Blank \/ v.seals = 1

\* The row holds what was said of every field that no edit has torn, and its secrets are sealed.
RowFits(k) ==
  /\ DOMAIN row = DOMAIN Kinds[k].create
  /\ DOMAIN said = Kinds[k].given \cup Kinds[k].defaulted
  /\ \A f \in DOMAIN said : said[f] \in Values /\ said[f] # Null /\ said[f].seals = 0
  /\ \A f \in Counted(Kinds[k]) \ torn : Alike(row[f], Meaning(Kinds[k], f)[said[f]])
  /\ \A f \in Kinds[k].secret : Sealed(row[f])

\* A request under way has a body a handler lets pass, and what it has read is as in a row.
EditorFits(k, e) ==
  /\ \A f \in Kinds[k].fields :
       /\ editor[e].body[f] \in {V(e), Null, Empty}
       /\ f \in Kinds[k].needed => editor[e].body[f] = V(e)
       /\ f \in Kinds[k].filled => editor[e].body[f] # Empty
  /\ \A f \in DOMAIN Kinds[k].merge :
       /\ editor[e].base[f] \in Values
       /\ f \in Kinds[k].secret => Sealed(editor[e].base[f])

\* The inductive invariant: RecordsKept speaks of what is shown, this of what is in the row and
\* of what the requests under way hold, which decides what will be shown.
RecordInv ==
  /\ RecordTypeOK
  /\ editor = [e \in Editors |-> editor[e]]
  /\ \A k \in DOMAIN Kinds : kind = k =>
       /\ row # NoRow => RowFits(k)
       /\ \A e \in Editors : editor[e] # AtRest => row # NoRow /\ EditorFits(k, e)

\* What requests write is not blank and not sealed.
LEMMA Marks ==
  /\ V("x") \in Values /\ V("x") \notin Blank /\ V("x").seals = 0
  /\ \A e \in Editors : V(e) \in Values /\ V(e) \notin Blank /\ V(e).seals = 0
  /\ Default \in Values /\ Default.seals = 0 /\ Empty.seals = 0 /\ Null.seals = 0
BY TextsAssumption, EditorsAssumption DEF Values, V, Null, Empty, Default, Blank

\* It holds before the record is created.
LEMMA RecordStart == RecordInit => RecordInv
<1> SUFFICES ASSUME RecordInit PROVE RecordInv
  OBVIOUS
<1>1. RecordTypeOK
  BY EditorsAssumption DEF RecordInit, RecordTypeOK, NoRow, AtRest
<1>2. editor = [e \in Editors |-> editor[e]]
  BY DEF RecordInit
<1>3. row = NoRow /\ \A e \in Editors : editor[e] = AtRest
  BY DEF RecordInit
<1> QED BY <1>1, <1>2, <1>3 DEF RecordInv

\* A creation keeps it.
LEMMA CreateKeeps ==
  ASSUME RecordInv, NEW v \in {Null, Empty, V("x")}, Create(v)
  PROVE  RecordInv'
<1>1. PICK k \in DOMAIN Kinds : kind = k
  BY DEF RecordInv, RecordTypeOK
<1> DEFINE R == Kinds[k]
           body == [f \in R.given |-> IF f \in R.required THEN V("x") ELSE v]
           w(f) == At(body, f)
<1>2. /\ K = R /\ K' = R /\ kind' = k /\ row = NoRow /\ editor' = editor /\ edits' = edits
      /\ torn' = torn
  BY <1>1 DEF Create, K
<1>3. \A f : w(f) \in {Null, Empty, V("x")} /\ (f \notin R.given => w(f) = Null)
  BY DEF At
<1>4. /\ DOMAIN row' = DOMAIN R.create
      /\ \A f \in DOMAIN R.create : row'[f] = R.create[f][w(f)]
  BY <1>2 DEF Create, Via
<1>5. /\ DOMAIN said' = R.given \cup R.defaulted
      /\ \A f \in R.given \cup R.defaulted :
           said'[f] = IF f \in R.barred THEN Empty
                      ELSE IF w(f) \notin {Null, Empty} THEN w(f)
                      ELSE IF f \in R.defaulted THEN Default ELSE Empty
  BY <1>2 DEF Create, Asked
<1>6. Lawful(R)
  BY KindsAreLawful
<1> HIDE DEF R, body, w
<1>7. \A f : w(f) \in Values
  BY <1>3, TheValues, Marks
<1>8. \A f \in DOMAIN R.create : row'[f] \in Values
  BY <1>4, <1>6, <1>7 DEF Lawful, Typed, Total
<1>9. \A f \in DOMAIN said' : said'[f] \in Values /\ said'[f] # Null /\ said'[f].seals = 0
  BY <1>3, <1>5, <1>7, TheValues, Marks DEF Blank
<1>10. ASSUME NEW f \in Counted(R)
       PROVE  /\ Alike(row'[f], Meaning(R, f)[said'[f]])
              /\ f \in R.secret => Sealed(row'[f])
  <2>1. f \in R.given \cup R.defaulted /\ Created(R, f) /\ f \in DOMAIN R.create
        /\ (f \in R.secret => f \notin R.defaulted \cup R.barred)
    BY <1>6 DEF Lawful, Typed, Created, Takes
  <2>2. Alike(row'[f], Filling(R, f)[w(f)])
    BY <2>1, <1>3, <1>4, <1>7 DEF Created, Takes
  <2>3. CASE f \in R.secret
    <3>1. Alike(row'[f], Seal[w(f)])
      BY <2>1, <2>2, <2>3 DEF Filling, Meaning
    <3>2. said'[f] = IF w(f) \in Blank THEN Empty ELSE w(f)
      BY <1>5, <2>1, <2>3 DEF Blank
    <3>3. Alike(Seal[w(f)], Seal[said'[f]])
      <4>1. CASE w(f) \in Blank
        <5>1. Seal[w(f)] = w(f) /\ Seal[Empty] = Empty /\ Empty \in Blank
          BY <4>1, <1>7, TheValues, SealFunctions DEF Blank
        <5> QED BY <3>2, <4>1, <5>1 DEF Alike
      <4>2. CASE w(f) \notin Blank
        BY <3>2, <4>2 DEF Alike
      <4> QED BY <4>1, <4>2
    <3>4. w(f) \in Blank \/ w(f).seals = 0
      BY <1>3, Marks DEF Blank
    <3>5. Sealed(Seal[w(f)])
      BY <3>4, <1>7, SealFunctions DEF Sealed
    <3> QED BY <2>3, <3>1, <3>3, <3>5 DEF Alike, Sealed, Meaning
  <2>4. CASE f \notin R.secret
    <3>1. Alike(Filling(R, f)[w(f)], said'[f])
      BY <1>5, <1>7, <2>1, <2>4, ValueFunctions, TheValues
      DEF Filling, Meaning, Alike, Blank, Always
    <3>2. said'[f] \in Values
      BY <1>5, <1>9, <2>1
    <3> QED BY <2>2, <2>4, <3>1, <3>2, ValueFunctions DEF Alike, Meaning
  <2> QED BY <2>3, <2>4
<1>11. RowFits(k)'
  <2>1. R.secret \subseteq Counted(R)
    BY DEF Counted
  <2> QED BY <1>4, <1>5, <1>9, <1>10, <2>1 DEF RowFits, R, Alike, Sealed
<1>12. \A e \in Editors : editor'[e] = AtRest
  BY <1>1, <1>2 DEF RecordInv
<1>13. RecordTypeOK'
  BY <1>1, <1>2, <1>4, <1>8, <1>9, <1>12 DEF RecordInv, RecordTypeOK
<1>14. editor' = [e \in Editors |-> editor'[e]]
  BY <1>2 DEF RecordInv
<1> QED BY <1>2, <1>11, <1>12, <1>13, <1>14 DEF RecordInv

\* The first half of an edit keeps it: what is read is as in the row.
LEMMA ReadKeeps ==
  ASSUME RecordInv, NEW e \in Editors, NEW body \in Bodies(V(e)), ReadForUpdate(e, body)
  PROVE  RecordInv'
<1>1. PICK k \in DOMAIN Kinds : kind = k
  BY DEF RecordInv, RecordTypeOK
<1> DEFINE R == Kinds[k]
<1>2. K = R /\ K' = R /\ kind' = k /\ row' = row /\ said' = said /\ torn' = torn /\ row # NoRow
  BY <1>1 DEF ReadForUpdate, K
<1>3. Lawful(R) /\ RowFits(k)
  BY <1>1, <1>2, KindsAreLawful DEF RecordInv
<1>4. /\ DOMAIN body = R.fields
      /\ \A f \in R.fields :
           /\ body[f] \in {V(e), Null, Empty}
           /\ f \in R.needed => body[f] = V(e)
           /\ f \in R.filled => body[f] # Empty
  <2>1. PICK given \in {K.fields} \cup {{f} : f \in K.fields}, v \in {V(e), Empty} :
          body = Body(given, v, V(e))
    BY DEF Bodies
  <2> QED BY <1>2, <2>1, Marks, TheValues DEF Body, Blank
<1>5. /\ DOMAIN ReadColumns = DOMAIN R.merge
      /\ \A f \in DOMAIN R.merge :
           ReadColumns[f] = IF f \in DOMAIN R.read THEN R.read[f][At(row, f)] ELSE Null
  BY <1>2 DEF ReadColumns, At, Via
<1>6. \A f : At(row, f) \in Values
  BY TheValues DEF At, RecordInv, RecordTypeOK
<1>7. \A f \in DOMAIN R.merge : ReadColumns[f] \in Values
  BY <1>3, <1>5, <1>6, TheValues DEF Lawful, Typed, Total
<1>8. ASSUME NEW f \in DOMAIN R.merge, f \in R.secret
      PROVE  Sealed(ReadColumns[f])
  <2>1. f \in Counted(R) /\ f \in DOMAIN row /\ Sealed(row[f]) /\ At(row, f) = row[f]
    BY <1>3, <1>8 DEF Counted, RowFits, Lawful, Created, Takes, At
  <2>2. f \in DOMAIN R.read /\ Alike(R.read[f][row[f]], row[f])
    BY <1>3, <1>6, <1>8, <2>1, ValueFunctions
    DEF Lawful, Edited, Untouched, Replaced, FilledIfEmpty, FilledIfNull, KeptByStatement,
        Mild, Takes
  <2> QED BY <1>5, <1>8, <2>1, <2>2 DEF Sealed, Alike
<1>9. /\ editor' = [d \in Editors |-> editor'[d]]
      /\ editor'[e] = [body |-> body, base |-> ReadColumns]
      /\ \A d \in Editors \ {e} : editor'[d] = editor[d]
  BY DEF RecordInv, ReadForUpdate
<1>10. edits' \in 0..MaxEdits
  BY EditorsAssumption DEF ReadForUpdate, RecordInv, RecordTypeOK
<1>11. RecordTypeOK'
  BY <1>1, <1>2, <1>4, <1>5, <1>9, <1>10 DEF RecordInv, RecordTypeOK
<1>12. RowFits(k)'
  BY <1>2, <1>3 DEF RowFits
<1>13. EditorFits(k, e)'
  BY <1>4, <1>5, <1>7, <1>8, <1>9 DEF EditorFits
<1>14. \A d \in Editors \ {e} : editor[d] # AtRest => EditorFits(k, d)'
  BY <1>1, <1>9 DEF RecordInv, EditorFits
<1> QED BY <1>2, <1>9, <1>11, <1>12, <1>13, <1>14 DEF RecordInv

\* The second half of an edit keeps it: what the edit names is what it says; of the rest only
\* what was read before another edit can differ from what was last asked, and that is torn.
LEMMA WriteKeeps ==
  ASSUME RecordInv, NEW e \in Editors, WriteBack(e)
  PROVE  RecordInv'
<1>1. PICK k \in DOMAIN Kinds : kind = k
  BY DEF RecordInv, RecordTypeOK
<1> DEFINE R == Kinds[k]
           body == editor[e].body
           base == editor[e].base
           P == Params(body, base)
           read(f) == IF f \in DOMAIN R.merge THEN base[f] ELSE Null
<1>2. /\ K = R /\ K' = R /\ kind' = k /\ edits' = edits
      /\ editor[e] # AtRest /\ row # NoRow
      /\ row' = Merged(R.set, row, P)
      /\ editor' = [editor EXCEPT ![e] = AtRest]
  BY <1>1 DEF WriteBack, RecordInv, K
<1>3. Lawful(R) /\ RowFits(k) /\ EditorFits(k, e)
  BY <1>1, <1>2, KindsAreLawful DEF RecordInv
<1>4. /\ DOMAIN body = R.fields /\ DOMAIN base = DOMAIN R.merge
      /\ \A f \in DOMAIN row : row[f] \in Values
  BY <1>2 DEF RecordInv, RecordTypeOK
<1>5. \A f \in R.fields :
        /\ body[f] \in Values /\ body[f].seals = 0
        /\ f \in R.needed => body[f] \notin Blank
        /\ f \in R.filled => body[f] # Empty
  BY <1>3, Marks, TheValues DEF EditorFits
<1>6. \A f : read(f) \in Values
  BY <1>3, TheValues DEF EditorFits
<1>7. /\ DOMAIN row' = DOMAIN row
      /\ \A f \in DOMAIN row :
           row'[f] = IF f \in DOMAIN R.set THEN R.set[f][row[f]][At(P, f)] ELSE row[f]
  BY <1>2 DEF Merged
<1>8. /\ DOMAIN P = DOMAIN R.out
      /\ \A f \in DOMAIN R.out :
           P[f] = R.out[f][IF f \in DOMAIN R.in
                           THEN IF f \in DOMAIN R.merge
                                THEN R.merge[f][base[f]][R.in[f][At(body, f)]]
                                ELSE R.in[f][At(body, f)]
                           ELSE Null]
  BY <1>2 DEF Params, Via, At
<1>9. /\ DOMAIN said' = DOMAIN said
      /\ \A f \in DOMAIN said :
           said'[f] = IF f \notin Named(body) THEN said[f]
                      ELSE IF body[f] = Null THEN Empty ELSE body[f]
      /\ torn' = (torn \ Named(body))
                   \cup {f \in DOMAIN R.merge \ Named(body) : base[f] # ReadColumns[f]}
  BY <1>2 DEF WriteBack
<1>10. \A f : f \in Named(body) <=> f \in R.fields /\ NamesField(R, f, body[f])
  BY <1>2, <1>4 DEF Named, NamesField, Blank
<1>11. /\ \A f \in DOMAIN R.merge :
            ReadColumns[f] = IF f \in DOMAIN R.read THEN R.read[f][At(row, f)] ELSE Null
  BY <1>2 DEF ReadColumns, At, Via
<1> HIDE DEF R, body, base, P, read
<1>12. \A f : At(body, f) \in Values
  BY <1>4, <1>5, TheValues DEF At
<1>13. \A f \in DOMAIN row' : row'[f] \in Values
  <2>1. \A f \in DOMAIN R.in : R.in[f][At(body, f)] \in Values
    BY <1>3, <1>12 DEF Lawful, Typed, Total
  <2>2. \A f \in DOMAIN R.merge : base[f] \in Values
    BY <1>6 DEF read
  <2>3. \A f \in DOMAIN R.in : f \in DOMAIN R.merge =>
          R.merge[f][base[f]][R.in[f][At(body, f)]] \in Values
    BY <1>3, <2>1, <2>2 DEF Lawful, Typed, TotalRules
  <2>4. \A f \in DOMAIN R.out : P[f] \in Values
    BY <1>3, <1>8, <2>1, <2>3, TheValues DEF Lawful, Typed, Total
  <2>5. \A f : At(P, f) \in Values
    BY <1>8, <2>4, TheValues DEF At
  <2> QED BY <1>3, <1>4, <1>7, <2>5 DEF Lawful, Typed, TotalRules
<1>14. \A f \in Counted(R) :
         /\ f \in DOMAIN row /\ f \in DOMAIN said
         /\ Edited(R, f)
         /\ f \in R.fields => f \in DOMAIN R.in /\ f \in DOMAIN R.out /\ f \in DOMAIN R.set
         /\ f \notin R.fields => f \notin DOMAIN R.set /\ f \notin DOMAIN R.merge
  BY <1>3
  DEF Lawful, Typed, Created, RowFits, Edited, Untouched, Replaced, FilledIfEmpty,
      FilledIfNull, KeptByStatement, Passed, Takes, Mild, R
<1>15. \A f \in Counted(R) :
         row'[f] = IF f \in R.fields THEN Written(R, f, row[f], read(f), body[f]) ELSE row[f]
  BY <1>4, <1>7, <1>8, <1>14 DEF At, Written, read
<1>16. ASSUME NEW f \in Counted(R), f \in Named(body)
       PROVE  Alike(row'[f], Meaning(R, f)[said'[f]]) /\ said'[f] \in {Empty, body[f]}
                /\ said'[f] # Null
  BY <1>4, <1>5, <1>6, <1>9, <1>10, <1>14, <1>15, <1>16, NamedIsWritten, TheValues
<1>17. ASSUME NEW f \in Counted(R), f \in R.fields, f \notin Named(body)
       PROVE  Alike(row'[f], IF f \in DOMAIN R.merge THEN base[f] ELSE row[f])
  BY <1>4, <1>5, <1>6, <1>10, <1>14, <1>15, <1>17, UnnamedIsKept DEF read
<1>18. ASSUME NEW f \in Counted(R), f \notin torn', f \notin Named(body)
       PROVE  Alike(row'[f], row[f])
  <2>1. CASE f \in DOMAIN R.merge
    <3>1. base[f] = ReadColumns[f] /\ f \in R.fields
      BY <1>9, <1>14, <1>18, <2>1
    <3>2. Mild(R.read, f)
      BY <1>14, <2>1, <3>1
      DEF Edited, Untouched, Replaced, FilledIfEmpty, FilledIfNull, KeptByStatement
    <3>3. Alike(ReadColumns[f], row[f])
      BY <1>4, <1>11, <1>14, <2>1, <3>2, ValueFunctions DEF Mild, Takes, At
    <3> QED BY <1>17, <1>18, <2>1, <3>1, <3>3 DEF Alike
  <2>2. CASE f \notin DOMAIN R.merge /\ f \in R.fields
    BY <1>17, <1>18, <2>2
  <2>3. CASE f \notin R.fields
    BY <1>15, <2>3 DEF Alike
  <2> QED BY <2>1, <2>2, <2>3
<1>19. \A f \in DOMAIN said' : said'[f] \in Values /\ said'[f] # Null /\ said'[f].seals = 0
  BY <1>3, <1>5, <1>9, <1>10, TheValues, Marks DEF RowFits
<1>20. ASSUME NEW f \in Counted(R), f \notin torn'
       PROVE  Alike(row'[f], Meaning(R, f)[said'[f]])
  <2>1. CASE f \in Named(body)
    BY <1>16, <2>1
  <2>2. CASE f \notin Named(body)
    <3>1. f \notin torn /\ said'[f] = said[f]
      BY <1>9, <1>14, <1>20, <2>2
    <3>2. Alike(row[f], Meaning(R, f)[said[f]])
      BY <1>3, <3>1 DEF RowFits, R
    <3> QED BY <1>18, <1>20, <2>2, <3>1, <3>2 DEF Alike
  <2> QED BY <2>1, <2>2
<1>21. ASSUME NEW f \in R.secret
       PROVE  Sealed(row'[f])
  <2>1. f \in Counted(R) /\ Sealed(row[f])
    BY <1>3 DEF Counted, RowFits, R
  <2>2. CASE f \in Named(body)
    <3>1. said'[f] \in Values /\ said'[f].seals = 0
      BY <1>9, <1>14, <1>19, <2>1
    <3> QED BY <1>16, <2>1, <2>2, <3>1, SealFunctions DEF Alike, Sealed, Meaning
  <2>3. CASE f \notin Named(body) /\ f \in R.fields
    <3>1. f \in DOMAIN R.merge => Sealed(base[f])
      BY <1>3 DEF EditorFits, R, base
    <3> QED BY <1>17, <2>1, <2>3, <3>1 DEF Alike, Sealed
  <2>4. CASE f \notin R.fields
    BY <1>15, <2>1, <2>4
  <2> QED BY <1>10, <2>2, <2>3, <2>4
<1>22. RowFits(k)'
  BY <1>3, <1>7, <1>9, <1>19, <1>20, <1>21 DEF RowFits, R
<1>23. row' # NoRow
  BY <1>3, <1>7 DEF RowFits, Lawful, Typed, NoRow, R
<1>24. /\ editor' = [d \in Editors |-> editor'[d]]
       /\ editor'[e] = AtRest
       /\ \A d \in Editors \ {e} : editor'[d] = editor[d]
  BY <1>2 DEF RecordInv
<1>25. torn' \subseteq DOMAIN R.merge
  BY <1>2, <1>9 DEF RecordInv, RecordTypeOK
<1>26. RecordTypeOK'
  BY <1>1, <1>2, <1>13, <1>19, <1>24, <1>25 DEF RecordInv, RecordTypeOK
<1>27. \A d \in Editors : editor'[d] # AtRest => EditorFits(k, d)'
  BY <1>1, <1>24 DEF RecordInv, EditorFits
<1> QED BY <1>2, <1>22, <1>23, <1>24, <1>26, <1>27 DEF RecordInv

\* Every step keeps it.
LEMMA RecordSteps ==
  ASSUME RecordInv, [RecordNext]_recordVars
  PROVE  RecordInv'
<1>1. CASE \E v \in {Null, Empty, V("x")} : Create(v)
  BY <1>1, CreateKeeps
<1>2. ASSUME NEW e \in Editors, \E body \in Bodies(V(e)) : ReadForUpdate(e, body)
      PROVE  RecordInv'
  BY <1>2, ReadKeeps
<1>3. ASSUME NEW e \in Editors, WriteBack(e) PROVE RecordInv'
  BY <1>3, WriteKeeps
<1>4. CASE UNCHANGED recordVars
  BY <1>4 DEF recordVars, RecordInv, RecordTypeOK, RowFits, EditorFits, K, Alike, Sealed
<1> QED BY <1>1, <1>2, <1>3, <1>4 DEF RecordNext

\* What is in the row decides what is shown: the views undo what the creation and the edits do.
LEMMA FitsAreKept == RecordInv => RecordsKept
<1> SUFFICES ASSUME RecordInv PROVE RecordsKept
  OBVIOUS
<1>1. PICK k \in DOMAIN Kinds : kind = k
  BY DEF RecordInv, RecordTypeOK
<1> DEFINE R == Kinds[k]
<1>2. K = R
  BY <1>1 DEF K
<1>3. Lawful(R)
  BY KindsAreLawful
<1> HIDE DEF R
<1>4. ASSUME row # NoRow, NEW view \in R.views, NEW f \in view.fields \ torn
      PROVE  EmptyIfNull[At(Via(row, view.path), f)] = said[f]
  <2>1. RowFits(k)
    BY <1>1, <1>4 DEF RecordInv
  <2>2. f \in Counted(R) /\ Takes(view.path, f, Reading(R, f)) /\ f \in DOMAIN R.create
          /\ f \in DOMAIN said
    BY <1>3, <2>1 DEF Counted, Lawful, Typed, Created, Takes, RowFits, R
  <2>3. /\ Alike(row[f], Meaning(R, f)[said[f]])
        /\ said[f] \in Values /\ said[f] # Null /\ said[f].seals = 0
    BY <2>1, <2>2 DEF RowFits, R
  <2>4. f \in DOMAIN row /\ row[f] \in Values
    BY <2>1, <2>2 DEF RowFits, R, RecordInv, RecordTypeOK
  <2>5. At(Via(row, view.path), f) = view.path[f][row[f]]
    BY <2>2, <2>4 DEF At, Via, Takes
  <2>6. view.path[f][row[f]] \in Values /\ Alike(view.path[f][row[f]], Reading(R, f)[row[f]])
    BY <2>2, <2>4 DEF Takes
  <2>7. Alike(Reading(R, f)[row[f]], said[f])
    <3>1. CASE f \in R.secret
      BY <2>3, <2>4, <3>1, SealFunctions DEF Reading, Meaning, Alike
    <3>2. CASE f \notin R.secret
      BY <2>3, <2>4, <3>2, ValueFunctions DEF Reading, Meaning, Alike
    <3> QED BY <3>1, <3>2
  <2> QED BY <2>3, <2>5, <2>6, <2>7, ValueFunctions, TheValues DEF Alike, Blank
<1>5. ASSUME row # NoRow, NEW f \in R.secret, row[f] \notin {Null, Empty}
      PROVE  row[f].seals = 1
  BY <1>1, <1>5 DEF RecordInv, RowFits, Sealed, Blank, R
<1> QED BY <1>2, <1>4, <1>5 DEF RecordsKept, RecordInv, ShownAsAsked, SecretsSealed

\* Every view of a record of any kind shows, of every field that no edit has torn, what was last
\* asked of it, and secrets are sealed once (all handlers, services, converters and queries of
\* the 18 kinds), for any number of requests that edit at once.
THEOREM RecordsAreKept == RecordSpec => []RecordsKept
<1>1. RecordInit => RecordInv
  BY RecordStart
<1>2. RecordInv /\ [RecordNext]_recordVars => RecordInv'
  BY RecordSteps
<1>3. RecordInv => RecordsKept
  BY FitsAreKept
<1> QED BY <1>1, <1>2, <1>3, PTL DEF RecordSpec

=============================================================================
