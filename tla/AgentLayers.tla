----------------------------- MODULE AgentLayers -----------------------------
(***************************************************************************)
(* The layers that agents, their runtimes, skills, MCP servers and the git *)
(* credentials of projects pass on their way into the database and out of  *)
(* it.  Layers carry the names of the functions, statements and types they *)
(* are taken from.  A mask is modelled as what it leaves readable: nothing. *)
(***************************************************************************)
EXTENDS Layers

---------------------------------------------------------------------------
(* Agents. *)

agents == {"name", "provider", "instructions", "model", "status",
           "custom_env", "extra_args", "git_name", "git_email"}

ToDomainAgent == On({"model", "git_name", "git_email"}, EmptyIfNull) ++ Kept(agents)

createAgentRequest ==
  Kept({"custom_env", "extra_args"}) ++ On(agents, EmptyIfNull)
AgentDefaults ==
  On({"provider", "status"}, DefaultIfEmpty) ++ On({"extra_args"}, EmptyIfNull) ++ Kept(agents)
buildCreateAgentParams ==
  On({"model", "git_name", "git_email"}, NullIfEmpty) ++ Kept(agents)
CreateAgentParams           == agents
FromDomainCreateAgentParams == Kept(CreateAgentParams)
createAgent                 == Kept(agents)
StoreCreateAgent            == FromDomainCreateAgentParams ** createAgent
CreateAgentPath ==
  createAgentRequest ** AgentDefaults ** buildCreateAgentParams ** StoreCreateAgent

\* The name and the provider of an agent stay.
UpdateAgentParams == agents \ {"name", "provider"}
updateAgentRequest ==
  Kept({"custom_env"}) ++ On(UpdateAgentParams, EmptyIfNull)
buildUpdateAgentParams ==
  On({"model", "git_name", "git_email"}, NullIfEmpty) ++ Kept(UpdateAgentParams)
FromDomainUpdateAgentParams ==
  On({"instructions", "status"}, NullIfEmpty) ++ Kept(UpdateAgentParams)
updateAgent == On(UpdateAgentParams, KeepIfNull)
UpdateAgentPath == updateAgentRequest ** buildUpdateAgentParams ** FromDomainUpdateAgentParams

getAgent        == Kept(agents)
listAgents      == Kept(agents)
StoreGetAgent   == getAgent ** ToDomainAgent
StoreListAgents == listAgents ** ToDomainAgent

\* The environment is for those who may write.
agentToResponse        == Kept(agents \ {"custom_env"})
agentToResponseWithEnv == Kept({"custom_env"}) ++ agentToResponse
GetAgent   == StoreGetAgent ** agentToResponseWithEnv
ListAgents == StoreListAgents ** agentToResponse

---------------------------------------------------------------------------
(* Runtimes, which are registered and not edited. *)

runtimes == {"daemon_id", "provider", "version", "status",
             "session_token_hash", "session_expires_at", "public_key"}

ToDomainRuntime ==
  On({"version", "session_token_hash", "public_key"}, EmptyIfNull) ++ Kept(runtimes)

registerRuntimeRequest == On(runtimes, EmptyIfNull)
RuntimeDefaults        == On({"status"}, DefaultIfEmpty) ++ Kept(runtimes)
buildCreateRuntimeParams ==
  On({"version", "session_token_hash", "public_key"}, NullIfEmpty)
    ++ Kept(runtimes \ {"session_expires_at"})
FromDomainCreateRuntimeParams == Kept(runtimes)
createRuntime                 == Kept(runtimes)
StoreCreateRuntime == FromDomainCreateRuntimeParams ** createRuntime
RegisterRuntimePath ==
  registerRuntimeRequest ** RuntimeDefaults ** buildCreateRuntimeParams ** StoreCreateRuntime

---------------------------------------------------------------------------
(* Skills. *)

skills == {"name", "description", "category", "prompt_template"}

ToDomainSkill == On(skills \ {"name"}, EmptyIfNull) ++ Kept(skills)

createSkillRequest          == On(skills, EmptyIfNull)
buildCreateSkillParams      == On(skills \ {"name"}, NullIfEmpty) ++ Kept(skills)
FromDomainCreateSkillParams == Kept(skills)
createSkill                 == Kept(skills)
CreateSkillPath ==
  createSkillRequest ** buildCreateSkillParams ** FromDomainCreateSkillParams ** createSkill

\* The service fills in what a request leaves out from the row it has read.
updateSkillRequest          == Kept(skills)
SkillServiceUpdate          == On(skills, KeepIfNull)
FromDomainUpdateSkillParams == Kept(skills)
updateSkill                 == On(skills, Take)

getSkill       == Kept(skills)
listSkills     == Kept(skills)
StoreGetSkill  == getSkill ** ToDomainSkill
skillResponse  == Kept(skills)
ListSkills     == listSkills ** ToDomainSkill ** skillResponse

\* An agent's own list has pointers, where the others have texts.
listAgentSkills          == Kept(skills)
ToDomainListAgentSkillsRow == Kept(skills)
ListAgentSkills          == listAgentSkills ** ToDomainListAgentSkillsRow

---------------------------------------------------------------------------
(* MCP servers, whose environment is encrypted. *)

mcp_servers == {"name", "url", "type", "auth_type", "env_vars", "status"}

ToDomainMcpServer == On({"type"}, EmptyIfNull) ++ Kept(mcp_servers)

createMcpServerRequest ==
  Kept({"env_vars"}) ++ On(mcp_servers, EmptyIfNull)
buildCreateMcpServerParams == Kept(mcp_servers \ {"status"})
encryptMCPEnvVars          == On({"env_vars"}, Seal) ++ Kept(mcp_servers)
fromDomainCreateMcpServerParams == On({"status"}, EmptyIfNull) ++ Kept(mcp_servers)
createMcpServer                 == Kept(mcp_servers)
StoreCreateMcpServer == fromDomainCreateMcpServerParams ** createMcpServer
CreateMcpServerPath ==
  createMcpServerRequest ** buildCreateMcpServerParams ** encryptMCPEnvVars
    ** StoreCreateMcpServer

\* What is not given stays as it was read; the environment that was read is
\* encrypted already.
updateMcpServerRequest == Kept(mcp_servers)
McpServiceUpdate       == On(mcp_servers, KeepIfNull)
FromDomainUpdateMcpServerParams ==
  On({"status"}, Always(Default)) ++ Kept(mcp_servers)
updateMcpServer == On(mcp_servers, Take)

getMcpServer      == Kept(mcp_servers)
listMcpServers    == Kept(mcp_servers)
StoreGetMcpServer == getMcpServer ** ToDomainMcpServer
maskMCPServerEnvVars == Kept(mcp_servers \ {"env_vars"})
mcpServerResponse == Kept(mcp_servers)
ListMcpServers    ==
  listMcpServers ** ToDomainMcpServer ** maskMCPServerEnvVars ** mcpServerResponse

listAgentMcpServers             == Kept(mcp_servers)
ToDomainListAgentMcpServersRow  == Kept(mcp_servers)
StoreListAgentMcpServers        == listAgentMcpServers ** ToDomainListAgentMcpServersRow
decryptMCPEnvVars               == On({"env_vars"}, Unseal) ++ Kept(mcp_servers)
maskAgentMcpEnvVarsForDisplay   == Kept(mcp_servers \ {"env_vars"})
ListAgentMcpServers     == StoreListAgentMcpServers ** maskAgentMcpEnvVarsForDisplay
ListExecutionMcpServers == StoreListAgentMcpServers ** decryptMCPEnvVars

---------------------------------------------------------------------------
(* Git credentials, whose token is encrypted by the handlers. *)

git_credentials == {"repo_url", "username", "pat"}

ToDomainGitCredential == Kept(git_credentials)

createGitCredentialRequest == On(git_credentials, EmptyIfNull)
CredentialDefaults ==
  On({"username"}, DefaultIfEmpty) ++ On({"pat"}, Seal) ++ Kept(git_credentials)
buildCreateGitCredentialParams == Kept(git_credentials)
createGitCredential            == Kept(git_credentials)
CreateGitCredentialPath ==
  createGitCredentialRequest ** CredentialDefaults ** buildCreateGitCredentialParams
    ** createGitCredential

updateGitCredentialRequest     == On(git_credentials, EmptyIfNull)
EncryptPAT                     == On({"pat"}, Seal) ++ Kept(git_credentials)
ExistingCredential             == On(git_credentials, KeepIfEmpty)
buildUpdateGitCredentialParams == Kept(git_credentials)
updateGitCredential            == On(git_credentials, Take)

getGitCredential           == Kept(git_credentials)
getGitCredentialsByProject == Kept(git_credentials)
StoreGetGitCredential      == getGitCredential ** ToDomainGitCredential
DecryptPAT          == On({"pat"}, Unseal) ++ Kept(git_credentials)
maskedCredential    == Kept(git_credentials \ {"pat"})
AgentCredentials    == getGitCredentialsByProject ** ToDomainGitCredential ** DecryptPAT
MemberCredentials   == AgentCredentials ** maskedCredential
=============================================================================
