--------------------------- MODULE RuntimeStatus ---------------------------
(***************************************************************************)
(* One agent, the runtimes registered for it, and one node of work: how    *)
(* heartbeats, registrations, edits and the jobs of the scheduler decide   *)
(* whether the agent counts as online, and when its work is taken from it. *)
(*                                                                         *)
(* Timestamps are kept as ages, which Tick increases; an age above its     *)
(* limit stays just above it, since the code only asks whether the limit   *)
(* is passed.  A job here is one SQL statement.  Nothing orders the        *)
(* statements: they may run on several instances, and each is run again    *)
(* whatever became of the others.                                          *)
(***************************************************************************)
EXTENDS Naturals

CONSTANTS
  Runtimes,      \* the runtimes that may be registered for the agent
  StaleAfter,    \* ticks without a heartbeat that make a runtime stale (100 s)
  ClaimAfter,    \* ticks after which a claim times out (30 min)
  OfflineAfter,  \* ticks an agent is offline before its work is taken (1 h)
  Kinds,         \* the kinds of node considered, of {"standard", "manual"}
  MaxEdits       \* bound: edits of the agent by members

ASSUME LimitsAssumption ==
  /\ StaleAfter \in Nat
  /\ ClaimAfter \in Nat
  /\ OfflineAfter \in Nat
  /\ MaxEdits \in Nat

VARIABLES
  runtime,      \* status of each row of runtimes, "none" if there is no row
  heard,        \* the rows whose last_heartbeat is not NULL
  beat,         \* the age of the last heartbeat
  registering,  \* registrations that have inserted their row, and no more
  daemon,       \* the daemons that run, on the agent's machines
  agent,        \* agents.status
  agentAge,     \* the age of agents.updated_at
  kind,         \* node_type of the node
  node,         \* whether the agent holds the node
  nodeAge,      \* the age of its updated_at while it is held
  edits         \* edits so far

agentVars   == <<agent, agentAge>>
runtimeVars == <<runtime, heard, beat>>
nodeVars    == <<kind, node, nodeAge>>
vars == <<runtimeVars, registering, daemon, agentVars, nodeVars, edits>>

AgentStatus   == {"online", "offline", "busy", "paused"}
RuntimeStates == {"online", "offline", "error"}
NodeStates    == {"free", "held", "manual"}

TypeOK ==
  /\ runtime \in [Runtimes -> RuntimeStates \cup {"none"}]
  /\ heard \subseteq Runtimes
  /\ beat \in [Runtimes -> 0..(StaleAfter + 1)]
  /\ registering \subseteq Runtimes
  /\ daemon \subseteq Runtimes
  /\ agent \in AgentStatus
  /\ agentAge \in 0..(OfflineAfter + 1)
  /\ kind \in Kinds
  /\ node \in NodeStates
  /\ nodeAge \in 0..(ClaimAfter + 1)
  /\ edits \in 0..MaxEdits

\* An agent is created offline unless the request says otherwise.
Init ==
  /\ runtime = [r \in Runtimes |-> "none"]
  /\ heard = {}
  /\ beat = [r \in Runtimes |-> 0]
  /\ registering = {}
  /\ daemon = {}
  /\ agent \in AgentStatus
  /\ agentAge = 0
  /\ kind \in Kinds
  /\ node = "free"
  /\ nodeAge = 0
  /\ edits = 0

Becomes(status) == agent' = status /\ agentAge' = 0

-----------------------------------------------------------------------------
\* Time and the daemons, which are outside the server.

Older(age, limit) == IF age > limit THEN age ELSE age + 1

Tick ==
  /\ beat' = [r \in Runtimes |->
                IF r \in heard THEN Older(beat[r], StaleAfter) ELSE beat[r]]
  /\ agentAge' = Older(agentAge, OfflineAfter)
  /\ nodeAge' = IF node = "held" THEN Older(nodeAge, ClaimAfter) ELSE nodeAge
  /\ UNCHANGED <<runtime, heard, registering, daemon, agent, kind, node, edits>>

StartDaemon(r) ==
  /\ daemon' = daemon \cup {r}
  /\ UNCHANGED <<runtimeVars, registering, agentVars, nodeVars, edits>>

StopDaemon(r) ==
  /\ daemon' = daemon \ {r}
  /\ UNCHANGED <<runtimeVars, registering, agentVars, nodeVars, edits>>

-----------------------------------------------------------------------------
\* Requests.

\* Mutant: an empty status of the request is not replaced by "online".
InsertRuntimeNoDefault(r) ==
  /\ runtime[r] = "none"
  /\ \E status \in RuntimeStates \cup {""} : runtime' = [runtime EXCEPT ![r] = status]
  /\ registering' = registering \cup {r}
  /\ UNCHANGED <<heard, beat, daemon, agentVars, nodeVars, edits>>

\* Register inserts the row, with the status of the request and no heartbeat...
InsertRuntime(r) ==
  /\ runtime[r] = "none"
  /\ \E status \in RuntimeStates : runtime' = [runtime EXCEPT ![r] = status]
  /\ registering' = registering \cup {r}
  /\ UNCHANGED <<heard, beat, daemon, agentVars, nodeVars, edits>>

\* ... and then sets the agent online, whatever it was.
AnnounceAgent(r) ==
  /\ r \in registering
  /\ registering' = registering \ {r}
  /\ Becomes("online")
  /\ UNCHANGED <<runtimeVars, daemon, nodeVars, edits>>

\* That second statement fails, which Register ignores, or the server crashes.
RegistrationCutShort(r) ==
  /\ r \in registering
  /\ registering' = registering \ {r}
  /\ UNCHANGED <<runtimeVars, daemon, agentVars, nodeVars, edits>>

\* A heartbeat writes the row of the runtime, not the agent.
Heartbeat(r) ==
  /\ r \in daemon
  /\ runtime[r] # "none"
  /\ runtime' = [runtime EXCEPT ![r] = "online"]
  /\ heard' = heard \cup {r}
  /\ beat' = [beat EXCEPT ![r] = 0]
  /\ UNCHANGED <<registering, daemon, agentVars, nodeVars, edits>>

\* An edit writes any status, or keeps the one there is.
UpdateAgent(status) ==
  /\ edits < MaxEdits
  /\ Becomes(status)
  /\ edits' = edits + 1
  /\ UNCHANGED <<runtimeVars, registering, daemon, nodeVars>>

\* A claim does not look at the agent's status.
Claim ==
  /\ daemon # {}
  /\ node = "free"
  /\ node' = "held"
  /\ nodeAge' = 0
  /\ UNCHANGED <<runtimeVars, registering, daemon, agentVars, kind, edits>>

\* The agent completes the node, or a person resolves it; there is another.
Finish ==
  /\ \/ node = "held" /\ daemon # {}
     \/ node = "manual"
  /\ node' = "free"
  /\ nodeAge' = 0
  /\ UNCHANGED <<runtimeVars, registering, daemon, agentVars, kind, edits>>

-----------------------------------------------------------------------------
\* The jobs.

\* last_heartbeat < now - 100 s: a NULL is not.
Stale(r) == runtime[r] = "online" /\ r \in heard /\ beat[r] > StaleAfter

MarkStaleRuntimes ==
  /\ runtime' = [r \in Runtimes |-> IF Stale(r) THEN "offline" ELSE runtime[r]]
  /\ UNCHANGED <<heard, beat, registering, daemon, agentVars, nodeVars, edits>>

\* Mutant: one runtime offline is enough.
UnreachableOnOne ==
  /\ agent = "online"
  /\ \E r \in Runtimes : runtime[r] = "offline"

\* Mutant: agents that are offline already are updated again.
UnreachableAgain ==
  /\ agent \in {"online", "offline"}
  /\ \E r \in Runtimes : runtime[r] = "offline"
  /\ \A r \in Runtimes : runtime[r] # "online"

Unreachable ==
  /\ agent = "online"
  /\ \E r \in Runtimes : runtime[r] = "offline"
  /\ \A r \in Runtimes : runtime[r] # "online"

UpdateOfflineAgents ==
  /\ Unreachable
  /\ Becomes("offline")
  /\ UNCHANGED <<runtimeVars, registering, daemon, nodeVars, edits>>

\* Mutant: a node in manual intervention still keeps its last assignee busy.
IdleWithoutNode == agent = "busy" /\ node = "free"

Idle == agent = "busy" /\ node # "held"

AutoRecoverIdleAgents ==
  /\ Idle
  /\ Becomes("online")
  /\ UNCHANGED <<runtimeVars, registering, daemon, nodeVars, edits>>

TakeNode ==
  /\ node' = "manual"
  /\ nodeAge' = 0
  /\ UNCHANGED <<runtimeVars, registering, daemon, agentVars, kind, edits>>

OfflineTooLong == agent = "offline" /\ agentAge > OfflineAfter

OfflineAgentFallback ==
  /\ node = "held"
  /\ OfflineTooLong
  /\ TakeNode

ReleaseClaimTimeoutNodes ==
  /\ node = "held"
  /\ kind # "manual"
  /\ nodeAge > ClaimAfter
  /\ TakeNode

-----------------------------------------------------------------------------
OfRuntime(r) ==
  \/ StartDaemon(r)
  \/ StopDaemon(r)
  \/ InsertRuntime(r)
  \/ AnnounceAgent(r)
  \/ RegistrationCutShort(r)
  \/ Heartbeat(r)

Job ==
  \/ MarkStaleRuntimes
  \/ UpdateOfflineAgents
  \/ AutoRecoverIdleAgents
  \/ OfflineAgentFallback
  \/ ReleaseClaimTimeoutNodes

Next ==
  \/ Tick
  \/ \E r \in Runtimes : OfRuntime(r)
  \/ \E status \in AgentStatus : UpdateAgent(status)
  \/ Claim
  \/ Finish
  \/ Job

Spec == Init /\ [][Next]_vars

\* Time passes, and each job is run again and again by its ticker.
FairSpec ==
  /\ Spec
  /\ WF_vars(Tick)
  /\ WF_vars(MarkStaleRuntimes)
  /\ WF_vars(UpdateOfflineAgents)
  /\ WF_vars(AutoRecoverIdleAgents)
  /\ WF_vars(OfflineAgentFallback)
  /\ WF_vars(ReleaseClaimTimeoutNodes)

-----------------------------------------------------------------------------
\* Properties.

\* No heartbeat of this runtime came within the limit.
Silent(r) == r \in heard => beat[r] > StaleAfter

\* Only an edit makes an agent offline while one of its runtimes keeps sending
\* heartbeats.  The job goes by the status of the rows, which a heartbeat, a
\* registration and the other half of the job write in any order.
OfflineOnlyWhenSilent ==
  [][(agent # "offline" /\ agent' = "offline" /\ edits' = edits)
       => \A r \in Runtimes : Silent(r)]_vars

\* No daemon runs, one has sent a heartbeat once, and no row claims to be
\* online that never got one.
Dead ==
  /\ daemon = {}
  /\ \E r \in heard : TRUE
  /\ \A r \in Runtimes : runtime[r] = "online" => r \in heard

\* Nothing takes a manual node from an agent that is busy or paused, or makes
\* a busy agent that holds one idle.
Stranded == kind = "manual" /\ node = "held" /\ agent \in {"busy", "paused"}

\* A dead agent that counts as online or busy becomes offline: for a busy one
\* that takes the claim timeout, the recovery of idle agents and both halves of
\* the heartbeat job, in this order.  And it does not keep the task waiting: its
\* node goes to a human.
DeadAgentIsDropped ==
  /\ (Dead /\ ~Stranded) ~> (agent \in {"offline", "paused"} \/ ~Dead \/ Stranded)
  /\ (Dead /\ node = "held" /\ ~Stranded) ~> (node # "held" \/ ~Dead \/ Stranded)
=============================================================================
