------------------------ MODULE RuntimeStatus_proofs ------------------------
(***************************************************************************)
(* What TLAPS proves of RuntimeStatus, for any number of runtimes and any  *)
(* limits.                                                                 *)
(***************************************************************************)
EXTENDS RuntimeStatus, TLAPS

\* An age stays in its range (the comparisons with now() of the jobs).
LEMMA OlderInRange ==
  ASSUME NEW limit \in Nat, NEW age \in 0..(limit + 1)
  PROVE  Older(age, limit) \in 0..(limit + 1) /\ Older(age, limit) >= age
  BY DEF Older

\* Every step keeps the types.
LEMMA TypeStep == TypeOK /\ [Next]_vars => TypeOK'
<1> USE LimitsAssumption
<1> SUFFICES ASSUME TypeOK, [Next]_vars
             PROVE  TypeOK'
  OBVIOUS
<1>1. CASE Tick
  <2>1. \A r \in Runtimes : Older(beat[r], StaleAfter) \in 0..(StaleAfter + 1)
    BY OlderInRange DEF TypeOK
  <2>2. beat' \in [Runtimes -> 0..(StaleAfter + 1)]
    BY <1>1, <2>1 DEF Tick, TypeOK
  <2>3. agentAge' \in 0..(OfflineAfter + 1) /\ nodeAge' \in 0..(ClaimAfter + 1)
    BY <1>1, OlderInRange DEF Tick, TypeOK
  <2> QED
    BY <1>1, <2>2, <2>3 DEF Tick, TypeOK
<1>2. ASSUME NEW r \in Runtimes, OfRuntime(r)
      PROVE  TypeOK'
  <2>1. CASE StartDaemon(r) \/ StopDaemon(r)
    BY <2>1 DEF StartDaemon, StopDaemon, TypeOK, runtimeVars, agentVars, nodeVars
  <2>2. CASE InsertRuntime(r)
    BY <2>2 DEF InsertRuntime, TypeOK, agentVars, nodeVars
  <2>3. CASE AnnounceAgent(r) \/ RegistrationCutShort(r)
    BY <2>3 DEF AnnounceAgent, RegistrationCutShort, Becomes, TypeOK, AgentStatus,
                runtimeVars, agentVars, nodeVars
  <2>4. CASE Heartbeat(r)
    BY <2>4 DEF Heartbeat, TypeOK, RuntimeStates, agentVars, nodeVars
  <2> QED
    BY <1>2, <2>1, <2>2, <2>3, <2>4 DEF OfRuntime
<1>3. ASSUME NEW status \in AgentStatus, UpdateAgent(status)
      PROVE  TypeOK'
  BY <1>3 DEF UpdateAgent, Becomes, TypeOK, runtimeVars, nodeVars
<1>4. CASE Claim \/ Finish
  BY <1>4 DEF Claim, Finish, TypeOK, NodeStates, runtimeVars, agentVars
<1>5. CASE Job
  <2>1. CASE MarkStaleRuntimes
    BY <2>1 DEF MarkStaleRuntimes, TypeOK, RuntimeStates, agentVars, nodeVars
  <2>2. CASE UpdateOfflineAgents \/ AutoRecoverIdleAgents
    BY <2>2 DEF UpdateOfflineAgents, AutoRecoverIdleAgents, Becomes, TypeOK,
                AgentStatus, runtimeVars, nodeVars
  <2>3. CASE OfflineAgentFallback \/ ReleaseClaimTimeoutNodes
    BY <2>3 DEF OfflineAgentFallback, ReleaseClaimTimeoutNodes, TakeNode, TypeOK,
                NodeStates, runtimeVars, agentVars
  <2> QED
    BY <1>5, <2>1, <2>2, <2>3 DEF Job
<1>6. CASE UNCHANGED vars
  BY <1>6 DEF TypeOK, vars, runtimeVars, agentVars, nodeVars
<1> QED
  BY <1>1, <1>2, <1>3, <1>4, <1>5, <1>6 DEF Next

\* The tables of runtimes and agents hold what their columns allow.
THEOREM RuntimeTypes == Spec => []TypeOK
<1>1. Init => TypeOK
  BY LimitsAssumption DEF Init, TypeOK, NodeStates
<1> QED
  BY <1>1, TypeStep, PTL DEF Spec

-----------------------------------------------------------------------------
\* A row that has had a heartbeat and is not online is silent.  Heartbeat writes
\* the status with the time, and MarkStaleRuntimes reads both in one statement.
RowsSilent == \A r \in heard : runtime[r] = "online" \/ beat[r] > StaleAfter

\* Every step keeps RowsSilent.
LEMMA RowsSilentStep == TypeOK /\ RowsSilent /\ [Next]_vars => RowsSilent'
<1> USE LimitsAssumption
<1> SUFFICES ASSUME TypeOK, RowsSilent, [Next]_vars
             PROVE  RowsSilent'
  OBVIOUS
<1>1. CASE Tick
  <2> SUFFICES ASSUME NEW r \in heard
               PROVE  runtime[r] = "online" \/ beat'[r] > StaleAfter
    BY <1>1 DEF Tick, RowsSilent
  <2>1. beat[r] \in 0..(StaleAfter + 1) /\ beat'[r] = Older(beat[r], StaleAfter)
    BY <1>1 DEF Tick, TypeOK
  <2>2. /\ Older(beat[r], StaleAfter) \in 0..(StaleAfter + 1)
        /\ Older(beat[r], StaleAfter) >= beat[r]
    BY <2>1, OlderInRange
  <2>3. runtime[r] = "online" \/ beat[r] > StaleAfter
    BY DEF RowsSilent
  <2> QED
    BY <2>1, <2>2, <2>3
<1>2. CASE \E r \in Runtimes : InsertRuntime(r)
  BY <1>2 DEF InsertRuntime, RowsSilent, TypeOK
<1>3. CASE \E r \in Runtimes : Heartbeat(r)
  BY <1>3 DEF Heartbeat, RowsSilent, TypeOK
<1>4. CASE MarkStaleRuntimes
  BY <1>4 DEF MarkStaleRuntimes, Stale, RowsSilent, TypeOK
<1>5. CASE UNCHANGED runtimeVars
  BY <1>5 DEF runtimeVars, RowsSilent
<1>6. [Next]_vars => \/ Tick \/ MarkStaleRuntimes \/ UNCHANGED runtimeVars
                     \/ \E r \in Runtimes : InsertRuntime(r) \/ Heartbeat(r)
  BY DEF Next, OfRuntime, Job, vars, StartDaemon, StopDaemon, AnnounceAgent,
         RegistrationCutShort, UpdateAgent, Claim, Finish, UpdateOfflineAgents,
         AutoRecoverIdleAgents, OfflineAgentFallback, ReleaseClaimTimeoutNodes,
         TakeNode
<1> QED
  BY <1>1, <1>2, <1>3, <1>4, <1>5, <1>6

\* A step that makes the agent offline is an edit or the heartbeat job.
LEMMA WhoMakesOffline ==
  ASSUME [Next]_vars, agent # "offline", agent' = "offline", edits' = edits, TypeOK
  PROVE  UpdateOfflineAgents
<1>1. ~ \E status \in AgentStatus : UpdateAgent(status)
  BY DEF UpdateAgent, TypeOK
<1> QED
  BY <1>1 DEF Next, OfRuntime, Job, vars, Tick, StartDaemon, StopDaemon, InsertRuntime,
              AnnounceAgent, RegistrationCutShort, Heartbeat, Claim, Finish,
              MarkStaleRuntimes, AutoRecoverIdleAgents, OfflineAgentFallback,
              ReleaseClaimTimeoutNodes, TakeNode, Becomes, agentVars

\* The heartbeat job makes an agent offline only when no runtime of it sends
\* heartbeats, however registrations and heartbeats interleave with its halves.
THEOREM OfflineIsSilent == Spec => OfflineOnlyWhenSilent
<1>1. Init => TypeOK /\ RowsSilent
  BY LimitsAssumption DEF Init, TypeOK, NodeStates, RowsSilent
<1>2. TypeOK /\ RowsSilent /\ [Next]_vars => (TypeOK /\ RowsSilent)'
  BY TypeStep, RowsSilentStep
<1>3. TypeOK /\ RowsSilent /\ [Next]_vars =>
        [(agent # "offline" /\ agent' = "offline" /\ edits' = edits)
           => \A r \in Runtimes : Silent(r)]_vars
  BY WhoMakesOffline DEF UpdateOfflineAgents, Unreachable, RowsSilent, Silent
<1> QED
  BY <1>1, <1>2, <1>3, PTL DEF Spec, OfflineOnlyWhenSilent
=============================================================================
