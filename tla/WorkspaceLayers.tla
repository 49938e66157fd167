--------------------------- MODULE WorkspaceLayers ---------------------------
(***************************************************************************)
(* The layers of workspaces, projects, memories and the workflows of the   *)
(* market.  Layers carry the names of the functions, statements and types  *)
(* they are taken from.                                                    *)
(***************************************************************************)
EXTENDS Layers

---------------------------------------------------------------------------
(* Workspaces. *)

workspaces == {"name", "description", "issue_prefix"}

ToDomainWorkspace == On({"description"}, EmptyIfNull) ++ Kept(workspaces)

createWorkspaceRequest          == On(workspaces, EmptyIfNull)
buildCreateWorkspaceParams      == On({"description"}, NullIfEmpty) ++ Kept(workspaces)
FromDomainCreateWorkspaceParams == Kept(workspaces)
createWorkspace                 == Kept(workspaces)
CreateWorkspacePath ==
  createWorkspaceRequest ** buildCreateWorkspaceParams ** FromDomainCreateWorkspaceParams
    ** createWorkspace

UpdateWorkspaceParams      == workspaces \ {"issue_prefix"}
updateWorkspaceRequest     == On(UpdateWorkspaceParams, EmptyIfNull)
buildUpdateWorkspaceParams == On({"description"}, NullIfEmpty) ++ Kept(UpdateWorkspaceParams)
FromDomainUpdateWorkspaceParams == Kept(UpdateWorkspaceParams)
updateWorkspace            == On(UpdateWorkspaceParams, Take)
UpdateWorkspacePath ==
  updateWorkspaceRequest ** buildUpdateWorkspaceParams ** FromDomainUpdateWorkspaceParams

getWorkspace             == Kept(workspaces)
listWorkspacesByMemberID == Kept(workspaces)
GetWorkspace             == getWorkspace ** ToDomainWorkspace
ListWorkspaces           == listWorkspacesByMemberID ** ToDomainWorkspace

---------------------------------------------------------------------------
(* Projects. *)

projects == {"name", "description", "icon", "status", "repo_url", "context"}

ToDomainProject ==
  On({"description", "icon", "repo_url", "context"}, EmptyIfNull) ++ Kept(projects)

createProjectRequest          == On(projects, EmptyIfNull)
ProjectDefaults               == On({"status"}, DefaultIfEmpty) ++ Kept(projects)
\* Pointers to the texts, the empty ones too.
buildCreateProjectParams      == Kept(projects)
FromDomainCreateProjectParams == Kept(projects)
createProject                 == Kept(projects)
CreateProjectPath ==
  createProjectRequest ** ProjectDefaults ** buildCreateProjectParams
    ** FromDomainCreateProjectParams ** createProject

UpdateProjectParams  == projects \ {"icon"}
updateProjectRequest == On(UpdateProjectParams, EmptyIfNull)
\* Of what a request leaves out, only the status is read from the project.
ExistingStatus                == On({"status"}, KeepIfEmpty)
buildUpdateProjectParams      == Kept(UpdateProjectParams)
FromDomainUpdateProjectParams == Kept(UpdateProjectParams)
updateProject                 == On(UpdateProjectParams, Take)

getProject                    == Kept(projects)
listProjects                  == Kept(projects)
listProjectsByAgentMembership == Kept(projects)
StoreGetProject               == getProject ** ToDomainProject
ListProjects ==
  {list ** ToDomainProject : list \in {listProjects, listProjectsByAgentMembership}}

---------------------------------------------------------------------------
(* Memories. *)

memories == {"source_task_id", "type", "title", "content", "tags", "confidence",
             "verified", "metadata"}

ToDomainMemory == Kept(memories)

createMemoryRequest ==
  Kept({"tags", "metadata"}) ++ On(memories, EmptyIfNull)
MemoryDefaults ==
  On({"source_task_id"}, NullIfEmpty) ++ On({"tags", "metadata"}, EmptyIfNull)
    ++ On({"confidence"}, DefaultIfEmpty) ++ Kept(memories)
\* What an agent remembers is not verified, whatever it says.
AgentsUnverified           == On({"verified"}, Always(Empty)) ++ Kept(memories)
buildCreateMemoryParams      == Kept(memories)
FromDomainCreateMemoryParams == Kept(memories)
createMemory                 == Kept(memories)
StoreCreateMemory    == FromDomainCreateMemoryParams ** createMemory
MemberCreatesMemoryPath ==
  createMemoryRequest ** MemoryDefaults ** buildCreateMemoryParams ** StoreCreateMemory
AgentCreatesMemoryPath ==
  createMemoryRequest ** AgentsUnverified ** MemoryDefaults ** buildCreateMemoryParams
    ** StoreCreateMemory

listMemoriesByWorkspace == Kept(memories)
searchMemories          == Kept(memories)
SearchMemoriesRow       == Kept(memories)
ListMemories            == listMemoriesByWorkspace ** ToDomainMemory
SearchMemories          == searchMemories ** SearchMemoriesRow

---------------------------------------------------------------------------
(* Workflows of the market, and the template that an import makes of one. *)

community_workflows ==
  {"name", "description", "author", "version", "workflow_definition", "required_skills",
   "required_mcp_servers", "recommended_agent_instructions", "is_official"}

ToDomainCommunityWorkflow == On({"description"}, EmptyIfNull) ++ Kept(community_workflows)

WorkflowLists ==
  {"workflow_definition", "required_skills", "required_mcp_servers",
   "recommended_agent_instructions"}
createCommunityWorkflowRequest ==
  Kept(WorkflowLists) ++ On(community_workflows, EmptyIfNull)
WorkflowDefaults == On({"version"}, DefaultIfEmpty) ++ Kept(community_workflows)
\* Whether a workflow is official is not passed on.
buildCreateCommunityWorkflowParams ==
  On({"description"}, NullIfEmpty) ++ Kept(community_workflows \ {"is_official"})
FromDomainCreateCommunityWorkflowParams == Kept(community_workflows \ {"is_official"})
createCommunityWorkflow ==
  On({"is_official"}, EmptyIfNull) ++ Kept(community_workflows)
CreateCommunityWorkflowPath ==
  createCommunityWorkflowRequest ** WorkflowDefaults ** buildCreateCommunityWorkflowParams
    ** FromDomainCreateCommunityWorkflowParams ** createCommunityWorkflow

listCommunityWorkflows == Kept(community_workflows)
getCommunityWorkflow   == Kept(community_workflows)
ListCommunityWorkflows == listCommunityWorkflows ** ToDomainCommunityWorkflow
\* The name and the description become a template's.
ImportWorkflowPath ==
  getCommunityWorkflow ** ToDomainCommunityWorkflow
    ** (On({"description"}, NullIfEmpty) ++ Kept({"name"}))
=============================================================================
