----------------------------- MODULE TaskLayers ------------------------------
(***************************************************************************)
(* The layers of workflow templates, tasks, their nodes, what happens to a *)
(* node, and comments.  Layers carry the names of the functions, statements *)
(* and types they are taken from.                                          *)
(***************************************************************************)
EXTENDS Layers

---------------------------------------------------------------------------
(* Workflow templates.  The trigger is its type, its configuration, whether it *)
(* is enabled and when it is due, which come and go together.               *)

templates == {"name", "description", "is_builtin", "trigger"}

ToDomainWorkflowTemplate == On({"description"}, EmptyIfNull) ++ Kept(templates)

createWorkflowTemplateRequest          == On(templates, EmptyIfNull)
buildCreateWorkflowTemplateParams      == On({"description"}, NullIfEmpty) ++ Kept(templates)
FromDomainCreateWorkflowTemplateParams == Kept(templates)
normalizeCreateWorkflowTemplateParams  == On({"trigger"}, DefaultIfEmpty) ++ Kept(templates)
createWorkflowTemplate                 == Kept(templates)
StoreCreateWorkflowTemplate ==
  FromDomainCreateWorkflowTemplateParams ** normalizeCreateWorkflowTemplateParams
    ** createWorkflowTemplate
CreateWorkflowTemplatePath ==
  createWorkflowTemplateRequest ** buildCreateWorkflowTemplateParams
    ** StoreCreateWorkflowTemplate

UpdateWorkflowTemplateParams           == templates \ {"is_builtin"}
updateWorkflowTemplateRequest          == On(UpdateWorkflowTemplateParams, EmptyIfNull)
buildUpdateWorkflowTemplateParams ==
  On({"description"}, NullIfEmpty) ++ Kept(UpdateWorkflowTemplateParams)
FromDomainUpdateWorkflowTemplateParams == Kept(UpdateWorkflowTemplateParams)
\* Within the transaction, a trigger that is not given is read from the row.
normalizeUpdateWorkflowTemplateParams  == On({"trigger"}, KeepIfEmpty)
updateWorkflowTemplate                 == On(UpdateWorkflowTemplateParams, Take)
UpdateWorkflowTemplatePath ==
  updateWorkflowTemplateRequest ** buildUpdateWorkflowTemplateParams
    ** FromDomainUpdateWorkflowTemplateParams

getWorkflowTemplate        == Kept(templates)
listWorkflowTemplates      == Kept(templates)
StoreGetWorkflowTemplate   == getWorkflowTemplate ** ToDomainWorkflowTemplate
toTemplateResponse         == Kept(templates)
TemplateAnswer             == ToDomainWorkflowTemplate ** toTemplateResponse
ListWorkflowTemplates      == listWorkflowTemplates ** TemplateAnswer

---------------------------------------------------------------------------
(* The nodes of a template, which an edit of the template deletes and inserts. *)

template_nodes ==
  {"name", "description", "sort_order", "node_type", "assignee_type", "assignee_id",
   "timeout_minutes", "readonly_dirs", "full_control_dirs", "artifact",
   "max_reject_cycles", "depends_on"}

ToDomainWorkflowTemplateNode == On({"description"}, EmptyIfNull) ++ Kept(template_nodes)

templateNodeRequest ==
  Kept({"assignee_id", "readonly_dirs", "full_control_dirs", "artifact", "depends_on"})
    ++ On(template_nodes, EmptyIfNull)
TemplateNodeDefaults ==
  On({"sort_order", "max_reject_cycles"}, DefaultIfEmpty) ++ Kept(template_nodes)
buildCreateTemplateNodeParams ==
  On({"description"}, NullIfEmpty) ++ On({"depends_on"}, EmptyIfNull) ++ Kept(template_nodes)
CreateTemplateNodeParams           == template_nodes
FromDomainCreateTemplateNodeParams == Kept(CreateTemplateNodeParams)
createTemplateNode                 == Kept(template_nodes)
CreateTemplateNodePath ==
  templateNodeRequest ** TemplateNodeDefaults ** buildCreateTemplateNodeParams
    ** FromDomainCreateTemplateNodeParams ** createTemplateNode

listTemplateNodes      == Kept(template_nodes)
StoreListTemplateNodes == listTemplateNodes ** ToDomainWorkflowTemplateNode

---------------------------------------------------------------------------
(* The nodes of a task, which are copied from those of the template. *)

task_nodes == template_nodes \ {"artifact"}

ToDomainTaskNode == On({"description"}, EmptyIfNull) ++ Kept(task_nodes)

\* The nodes of a template are numbered when they are inserted: no id that a request
\* could name as a dependency is among them, and none is resolved.
CopyTemplateNode ==
  On({"description"}, NullIfEmpty) ++ On({"max_reject_cycles"}, DefaultIfEmpty)
    ++ On({"depends_on"}, Always(Empty)) ++ Kept(task_nodes)
CreateTaskNodeParams           == task_nodes
FromDomainCreateTaskNodeParams == Kept(CreateTaskNodeParams)
createTaskNode                 == Kept(task_nodes)
CreateTaskNodePath ==
  CreateTemplateNodePath ** StoreListTemplateNodes
    ** CopyTemplateNode ** FromDomainCreateTaskNodeParams ** createTaskNode

getTaskNode            == Kept(task_nodes)
listTaskNodes          == Kept(task_nodes)
StoreGetTaskNode       == getTaskNode ** ToDomainTaskNode
ListNodes              == listTaskNodes ** ToDomainTaskNode
ListTaskNodesByProject ==
  Kept(task_nodes \ {"readonly_dirs", "full_control_dirs"}) ** ToDomainTaskNode

---------------------------------------------------------------------------
(* Tasks. *)

tasks == {"title", "description", "constraints", "type", "priority", "status",
          "due_date", "labels"}

ToDomainTask == On({"description", "constraints"}, EmptyIfNull) ++ Kept(tasks)

createTaskRequest ==
  Kept({"due_date", "labels"}) ++ On(tasks \ {"status"}, EmptyIfNull)
\* What is missing, and the status a task begins with.
TaskDefaults ==
  On({"type", "priority", "status"}, DefaultIfEmpty) ++ On({"labels"}, EmptyIfNull)
    ++ Kept(tasks)
ParseDueDate == On({"due_date"}, NullIfEmpty) ++ Kept(tasks)
buildCreateTaskParams ==
  On({"description", "constraints"}, NullIfEmpty) ++ Kept(tasks)
CreateTaskParams           == tasks
FromDomainCreateTaskParams == Kept(CreateTaskParams)
createTask                 == Kept(tasks)
CreateTaskPath ==
  createTaskRequest ** TaskDefaults ** ParseDueDate ** buildCreateTaskParams
    ** FromDomainCreateTaskParams ** createTask

UpdateTaskParams  == tasks \ {"type"}
updateTaskRequest ==
  Kept({"due_date", "labels"}) ++ On(UpdateTaskParams, EmptyIfNull)
\* The handler fills in what a request leaves out from the task it has read; an
\* empty list of labels is one.
ExistingTask == On({"labels"}, KeepIfNull) ++ On(UpdateTaskParams, KeepIfEmpty)
buildUpdateTaskParams ==
  On({"description", "constraints"}, NullIfEmpty) ++ Kept(UpdateTaskParams)
FromDomainUpdateTaskParams == Kept(UpdateTaskParams)
updateTask                 == On(UpdateTaskParams, Take)

getTask            == Kept(tasks)
listTasks          == Kept(tasks)
listAllTasks       == Kept(tasks)
listTasksPaginated == Kept(tasks)
StoreGetTask       == getTask ** ToDomainTask
taskToResponse     == Kept(tasks)
enrichWithNodes    == Kept(tasks)
GetTask            == StoreGetTask ** taskToResponse
TaskLists ==
  {list ** ToDomainTask ** enrichWithNodes : list \in {listTasks, listAllTasks, listTasksPaginated}}

---------------------------------------------------------------------------
(* The transitions of a node, which the server writes, and what it has cost. *)

node_transitions ==
  {"from_status", "to_status", "action", "target_node_id", "comment",
   "operator_id", "operator_type"}

ToDomainNodeTransition == On({"comment"}, EmptyIfNull) ++ Kept(node_transitions)
FromDomainCreateNodeTransitionParams == Kept(node_transitions)
createNodeTransition   == Kept(node_transitions)
CreateNodeTransitionPath   == FromDomainCreateNodeTransitionParams ** createNodeTransition
listNodeTransitions    == Kept(node_transitions)
ListNodeTransitions    == listNodeTransitions ** ToDomainNodeTransition

token_usage == {"input_tokens", "output_tokens", "total_tokens", "cost_estimate"}

ToDomainTokenUsage               == Kept(token_usage)
ReportTokenUsageReq              == On(token_usage, EmptyIfNull)
buildCreateTokenUsageParams      == On({"cost_estimate"}, NullIfEmpty) ++ Kept(token_usage)
FromDomainCreateTokenUsageParams == Kept(token_usage)
createTokenUsage                 == Kept(token_usage)
ReportTokenUsagePath ==
  ReportTokenUsageReq ** buildCreateTokenUsageParams ** FromDomainCreateTokenUsageParams
    ** createTokenUsage

---------------------------------------------------------------------------
(* Comments. *)

comments == {"node_id", "source_node_id", "parent_id", "content", "comment_type", "mentions"}

ToDomainComment == Kept(comments)

createCommentRequest ==
  On({"content", "comment_type"}, EmptyIfNull) ++ Kept(comments)
CommentDefaults ==
  On({"comment_type"}, DefaultIfEmpty) ++ On({"mentions"}, EmptyIfNull) ++ Kept(comments)
buildCreateCommentParams      == Kept(comments)
FromDomainCreateCommentParams == Kept(comments)
createComment                 == Kept(comments)
CreateCommentPath ==
  createCommentRequest ** CommentDefaults ** buildCreateCommentParams
    ** FromDomainCreateCommentParams ** createComment

listComments                 == Kept(comments)
listTaskLevelComments        == Kept(comments)
listNodeComments             == Kept(comments)
listExecutionContextComments == Kept(comments)
ListComments ==
  {list ** ToDomainComment :
     list \in {listComments, listTaskLevelComments, listNodeComments,
               listExecutionContextComments}}
=============================================================================
