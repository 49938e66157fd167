------------------------------- MODULE Records -------------------------------
(***************************************************************************)
(* A record is created by a request, edited by others that overlap, and    *)
(* shown in the answers that have it.  What each layer does on the way is  *)
(* in AgentLayers, TaskLayers and WorkspaceLayers; here they are put       *)
(* together for each kind of record.  Several edits read the row, put what *)
(* they read in the place of what the request leaves out, and write it all *)
(* back.                                                                   *)
(*                                                                         *)
(* A layer looks at one field at a time: requests that give one field, or  *)
(* all of them alike, take every field every way it can go.                *)
(***************************************************************************)
EXTENDS AgentLayers, TaskLayers, WorkspaceLayers

CONSTANTS
  Editors,   \* requests that edit, and may be under way at once: the texts they write
  MaxEdits   \* bound: edits begun

ASSUME EditorsAssumption ==
  /\ Editors \subseteq Texts \ {"null", "empty"}
  /\ MaxEdits \in Nat

\* A kind without edits, and the parts of one that some kinds do not have.
Plain == [given |-> {}, required |-> {}, defaulted |-> {}, barred |-> {}, secret |-> {},
          fields |-> {}, filled |-> {}, needed |-> {}, clears |-> {}, replaces |-> {},
          in |-> <<>>, read |-> <<>>, merge |-> <<>>, out |-> <<>>, set |-> <<>>]

Shows(fields, paths) == {[path |-> p, fields |-> fields] : p \in paths}

(***************************************************************************)
(* given: what a creation may say; required: what it must say; defaulted:  *)
(* what is filled in; barred: what it says in vain; secret: what is        *)
(* encrypted.  create: from the body to the row.  fields: what an edit may *)
(* say, of which it must always give the needed ones and never empties the *)
(* filled ones; with an empty value it empties those it clears, and those  *)
(* it replaces by leaving them out too.  in: from the body to where the    *)
(* row that was read is merged in; out: from there to the statement; set:  *)
(* what the statement does.  views: where the record is shown, and which   *)
(* fields.                                                                 *)
(***************************************************************************)
AgentKind ==
  [given |-> agents, required |-> {"git_name", "git_email"},
   defaulted |-> {"provider", "status"}, create |-> CreateAgentPath,
   fields |-> UpdateAgentParams, clears |-> {"custom_env"}, replaces |-> {"extra_args"},
   in |-> UpdateAgentPath, out |-> Kept(UpdateAgentParams), set |-> updateAgent,
   views |-> Shows(agents, {GetAgent}) \cup Shows(agents \ {"custom_env"}, {ListAgents})]
  ++ Plain

RuntimeKind ==
  [given |-> runtimes, required |-> {"provider"}, defaulted |-> {"status"},
   create |-> RegisterRuntimePath,
   views |-> Shows(runtimes \ {"session_expires_at"}, {ToDomainRuntime})]
  ++ Plain

SkillKind ==
  [given |-> skills, required |-> {"name"}, create |-> CreateSkillPath,
   fields |-> skills, filled |-> {"name"}, clears |-> skills,
   in |-> updateSkillRequest, read |-> StoreGetSkill, merge |-> SkillServiceUpdate,
   out |-> FromDomainUpdateSkillParams, set |-> updateSkill,
   views |-> Shows(skills, {ListSkills, ListAgentSkills})]
  ++ Plain

ServerKind ==
  [given |-> mcp_servers, required |-> {"name", "auth_type"}, secret |-> {"env_vars"},
   create |-> CreateMcpServerPath,
   fields |-> mcp_servers, filled |-> {"name", "auth_type"},
   clears |-> {"url", "type", "env_vars"},
   in |-> updateMcpServerRequest ** encryptMCPEnvVars, read |-> StoreGetMcpServer,
   merge |-> McpServiceUpdate, out |-> FromDomainUpdateMcpServerParams,
   set |-> updateMcpServer,
   views |-> Shows(mcp_servers \ {"status"}, {ListExecutionMcpServers})
     \cup Shows(mcp_servers \ {"status", "env_vars"}, {ListMcpServers, ListAgentMcpServers})]
  ++ Plain

CredentialKind ==
  [given |-> git_credentials, required |-> {"repo_url", "pat"}, defaulted |-> {"username"},
   secret |-> {"pat"}, create |-> CreateGitCredentialPath,
   fields |-> git_credentials,
   in |-> updateGitCredentialRequest ** EncryptPAT, read |-> StoreGetGitCredential,
   merge |-> ExistingCredential, out |-> buildUpdateGitCredentialParams,
   set |-> updateGitCredential,
   views |-> Shows(git_credentials, {AgentCredentials})
     \cup Shows(git_credentials \ {"pat"}, {MemberCredentials})]
  ++ Plain

TemplateKind ==
  [given |-> templates, defaulted |-> {"trigger"}, create |-> CreateWorkflowTemplatePath,
   fields |-> UpdateWorkflowTemplateParams, replaces |-> {"name", "description"},
   in |-> UpdateWorkflowTemplatePath, read |-> StoreGetWorkflowTemplate,
   merge |-> normalizeUpdateWorkflowTemplateParams,
   out |-> Kept(UpdateWorkflowTemplateParams), set |-> updateWorkflowTemplate,
   views |-> Shows(templates, {TemplateAnswer, ListWorkflowTemplates})]
  ++ Plain

TemplateNodeKind ==
  [given |-> template_nodes, required |-> {"node_type", "assignee_type"},
   defaulted |-> {"sort_order", "max_reject_cycles"}, create |-> CreateTemplateNodePath,
   views |-> Shows(template_nodes, {ToDomainWorkflowTemplateNode, StoreListTemplateNodes})]
  ++ Plain

TaskNodeKind ==
  [given |-> template_nodes, required |-> {"node_type", "assignee_type"},
   defaulted |-> {"sort_order", "max_reject_cycles"}, create |-> CreateTaskNodePath,
   views |-> Shows(task_nodes \ {"depends_on"}, {ToDomainTaskNode, StoreGetTaskNode, ListNodes})
     \cup Shows(task_nodes \ {"depends_on", "readonly_dirs", "full_control_dirs"},
                {ListTaskNodesByProject})]
  ++ Plain

TaskKind ==
  [given |-> tasks \ {"status"}, defaulted |-> {"type", "priority", "status"},
   create |-> CreateTaskPath,
   fields |-> UpdateTaskParams, filled |-> {"status", "priority"}, clears |-> {"labels"},
   in |-> updateTaskRequest, read |-> StoreGetTask, merge |-> ExistingTask,
   out |-> buildUpdateTaskParams ** FromDomainUpdateTaskParams, set |-> updateTask,
   views |-> Shows(tasks, TaskLists \cup {ToDomainTask, GetTask})]
  ++ Plain

TransitionKind ==
  [given |-> node_transitions,
   required |-> {"from_status", "to_status", "action", "operator_type"},
   create |-> CreateNodeTransitionPath, views |-> Shows(node_transitions, {ListNodeTransitions})]
  ++ Plain

UsageKind ==
  [given |-> token_usage, create |-> ReportTokenUsagePath,
   views |-> Shows(token_usage, {ToDomainTokenUsage})]
  ++ Plain

CommentKind ==
  [given |-> comments, defaulted |-> {"comment_type"}, create |-> CreateCommentPath,
   views |-> Shows(comments, ListComments \cup {ToDomainComment})]
  ++ Plain

WorkspaceKind ==
  [given |-> workspaces, create |-> CreateWorkspacePath,
   fields |-> UpdateWorkspaceParams, replaces |-> UpdateWorkspaceParams,
   in |-> UpdateWorkspacePath, out |-> Kept(UpdateWorkspaceParams), set |-> updateWorkspace,
   views |-> Shows(workspaces, {ToDomainWorkspace, GetWorkspace, ListWorkspaces})]
  ++ Plain

ProjectKind ==
  [given |-> projects, required |-> {"name", "repo_url"}, defaulted |-> {"status"},
   create |-> CreateProjectPath,
   fields |-> UpdateProjectParams, filled |-> {"status"}, needed |-> {"name"},
   replaces |-> {"description", "repo_url", "context"},
   in |-> updateProjectRequest, read |-> StoreGetProject, merge |-> ExistingStatus,
   out |-> buildUpdateProjectParams ** FromDomainUpdateProjectParams,
   set |-> updateProject,
   views |-> Shows(projects, ListProjects \cup {StoreGetProject})]
  ++ Plain

MemoryKind ==
  [given |-> memories, required |-> {"type"}, defaulted |-> {"confidence"},
   create |-> MemberCreatesMemoryPath,
   views |-> Shows(memories, {ListMemories, SearchMemories})]
  ++ Plain

AgentsMemoryKind ==
  [given |-> memories, required |-> {"type"}, defaulted |-> {"confidence"},
   barred |-> {"verified"}, create |-> AgentCreatesMemoryPath,
   views |-> Shows(memories, {ListMemories, SearchMemories})]
  ++ Plain

MarketWorkflowKind ==
  [given |-> community_workflows, required |-> {"workflow_definition"},
   defaulted |-> {"version"}, create |-> CreateCommunityWorkflowPath,
   views |-> Shows(community_workflows \ {"is_official"}, {ListCommunityWorkflows})]
  ++ Plain

ImportedTemplateKind ==
  [given |-> community_workflows, required |-> {"workflow_definition"},
   defaulted |-> {"trigger"},
   create |-> CreateCommunityWorkflowPath ** ImportWorkflowPath ** StoreCreateWorkflowTemplate,
   views |-> Shows({"name", "description", "trigger"}, {ToDomainWorkflowTemplate})]
  ++ Plain

Kinds == [
  agent             |-> AgentKind,
  runtime           |-> RuntimeKind,
  skill             |-> SkillKind,
  server            |-> ServerKind,
  credential        |-> CredentialKind,
  template          |-> TemplateKind,
  template_node     |-> TemplateNodeKind,
  task_node         |-> TaskNodeKind,
  task              |-> TaskKind,
  transition        |-> TransitionKind,
  usage             |-> UsageKind,
  comment           |-> CommentKind,
  workspace         |-> WorkspaceKind,
  project           |-> ProjectKind,
  memory            |-> MemoryKind,
  agents_memory     |-> AgentsMemoryKind,
  market_workflow   |-> MarketWorkflowKind,
  imported_template |-> ImportedTemplateKind]

---------------------------------------------------------------------------
VARIABLES
  kind,    \* of the record
  row,     \* in the database
  editor,  \* what each request is at: its body, and the columns it has read
  edits,   \* begun so far
  said,    \* what was last asked of each field
  torn     \* fields that an edit wrote back as it had read them before another

recordVars == <<kind, row, editor, edits, said, torn>>

NoRow == <<>>
AtRest == <<>>
K == Kinds[kind]

RecordTypeOK ==
  /\ kind \in DOMAIN Kinds
  /\ \A f \in DOMAIN row : row[f] \in Values
  /\ \A f \in DOMAIN said : said[f] \in Values
  /\ \A e \in Editors : editor[e] # AtRest =>
       /\ DOMAIN editor[e].body = K.fields
       /\ DOMAIN editor[e].base = DOMAIN K.merge
  /\ edits \in 0..MaxEdits
  /\ torn \subseteq DOMAIN K.merge

RecordInit ==
  /\ kind \in DOMAIN Kinds
  /\ row = NoRow
  /\ editor = [e \in Editors |-> AtRest]
  /\ edits = 0
  /\ said = <<>>
  /\ torn = {}

\* What is asked of a field: the default stands for what is not given.
Asked(v, f) ==
  IF f \in K.barred THEN Empty
  ELSE IF v \notin {Null, Empty} THEN v
  ELSE IF f \in K.defaulted THEN Default ELSE Empty

Create(v) ==
  /\ row = NoRow
  /\ LET body == [f \in K.given |-> IF f \in K.required THEN V("x") ELSE v] IN
       /\ row' = Via(body, K.create)
       /\ said' = [f \in K.given \cup K.defaulted |-> Asked(At(body, f), f)]
  /\ UNCHANGED <<kind, editor, edits, torn>>

\* The bodies of edits: the given fields, all alike.
Body(given, v, mark) ==
  [f \in K.fields |->
     IF f \in K.needed \/ (f \in given /\ f \in K.filled) THEN mark
     ELSE IF f \in given THEN v ELSE Null]
Bodies(mark) ==
  {Body(given, v, mark) : given \in {K.fields} \cup {{f} : f \in K.fields}, v \in {mark, Empty}}

\* A task that is done is not edited any more.
Editable == kind = "task" => row.status = Default

\* The columns that the edit fills in from.
ReadColumns == [f \in DOMAIN K.merge |-> At(Via(row, K.read), f)]

ReadForUpdate(e, body) ==
  /\ row # NoRow
  /\ editor[e] = AtRest
  /\ Editable
  /\ edits < MaxEdits
  /\ edits' = edits + 1
  /\ editor' = [editor EXCEPT ![e] = [body |-> body, base |-> ReadColumns]]
  /\ UNCHANGED <<kind, row, said, torn>>

\* The fields an edit decides.
Named(body) ==
  {f \in K.fields : \/ body[f] \notin {Null, Empty}
                    \/ body[f] = Empty /\ f \in K.clears
                    \/ f \in K.replaces}

\* What goes to the statement: the body, over what was read.
\* Mutant: what was read is not looked at.
ParamsUnmerged(body, base) == Via(Via(body, K.in), K.out)
Params(body, base) ==
  LET new == Via(body, K.in) IN
    Via([f \in DOMAIN new |->
           IF f \in DOMAIN K.merge THEN K.merge[f][base[f]][new[f]] ELSE new[f]],
        K.out)

WriteBack(e) ==
  /\ editor[e] # AtRest
  /\ LET body == editor[e].body
         base == editor[e].base
         kept == DOMAIN K.merge \ Named(body) IN
       /\ row' = Merged(K.set, row, Params(body, base))
       /\ said' = [f \in DOMAIN said |->
                     IF f \notin Named(body) THEN said[f]
                     ELSE IF body[f] = Null THEN Empty ELSE body[f]]
       /\ torn' = (torn \ Named(body)) \cup {f \in kept : base[f] # ReadColumns[f]}
  /\ editor' = [editor EXCEPT ![e] = AtRest]
  /\ UNCHANGED <<kind, edits>>

RecordNext ==
  \/ \E v \in {Null, Empty, V("x")} : Create(v)
  \/ \E e \in Editors :
       \/ \E body \in Bodies(V(e)) : ReadForUpdate(e, body)
       \/ WriteBack(e)

RecordSpec == RecordInit /\ [][RecordNext]_recordVars

---------------------------------------------------------------------------
\* Properties.

\* Wherever a record is shown, each field that is shown there is what the request
\* that last named it said, through every layer on the way in and out, unless an
\* edit has written back what it had read before another.
ShownAsAsked ==
  row # NoRow =>
    \A view \in K.views : \A f \in view.fields \ torn :
      EmptyIfNull[At(Via(row, view.path), f)] = said[f]

\* A secret is in the database encrypted, once: not as it was given, and not with what
\* was encrypted already encrypted again.
SecretsSealed ==
  row # NoRow => \A f \in K.secret : row[f] \notin {Null, Empty} => row[f].seals = 1

RecordsKept == RecordTypeOK /\ ShownAsAsked /\ SecretsSealed
=============================================================================
