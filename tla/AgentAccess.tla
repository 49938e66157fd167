---------------------------- MODULE AgentAccess -----------------------------
(***************************************************************************)
(* What an agent is let do: its row, its tokens, the rows that grant it a  *)
(* permission, and the answers about them that Redis keeps for a minute.   *)
(* Creating an agent is a chain of statements without a transaction,       *)
(* deleting one leaves its cached answers alone, and a check reads the     *)
(* cache, asks the database and writes the cache in three steps, while     *)
(* rows come and go.  A request of the API has a deadline, after which it  *)
(* starts no statement.  Streams of events and of log lines have none:     *)
(* they only tell the agent things, and are not in this module.            *)
(*                                                                         *)
(* Most routes look for the agent in its workspace.  The workflows of the  *)
(* community are open to whoever has a token.                              *)
(*                                                                         *)
(* One agent and one permission, which it is given by default and again by *)
(* its role: the columns a row must be unique in include a NULL, so both   *)
(* rows are there.  Grant and Revoke are methods of the service that no    *)
(* route calls yet.                                                        *)
(***************************************************************************)
EXTENDS Naturals

CONSTANTS
  Handlers,   \* requests that may be under way at once
  Sessions,   \* bound: session tokens
  TTL,        \* how long an answer is kept (60 s)
  Timeout,    \* how long a request may take (60 s)
  MaxTime,    \* bound: the clock
  MaxFaults,  \* bound: statements that fail
  None        \* nothing

ASSUME AgentAccessAssumption ==
  /\ {TTL, Timeout, MaxTime, MaxFaults} \subseteq Nat
  /\ TTL + Timeout < MaxTime
  /\ None \notin Sessions

VARIABLES
  agent,     \* its row
  apiKey,    \* the row of its API token is there
  sessions,  \* the rows of its session tokens
  rows,      \* the rows that grant it the permission
  cache,     \* the answer Redis keeps, and until when
  req,       \* what a handler is doing
  now,
  faults,    \* so far
  lastly,    \* for each answer, when the database gave it up for the other
  goneAt     \* when the agent was deleted

agentVars == <<agent, apiKey, sessions, goneAt>>
permVars  == <<rows, lastly>>
vars == <<agentVars, permVars, cache, req, now, faults>>

\* A row is named for who first inserts one; one granted later, too, is one of
\* these two.
Kinds == {"default", "role"}
Idle  == [step |-> "idle"]
Steps == {"token", "default", "role", "grant", "revoke", "scan", "del",
          "session", "access", "get", "query", "set", "allowed", "community"}
\* The clock starts so late that nothing was ever the case a while ago.
Start == TTL + Timeout + 1

TypeOK ==
  /\ agent \in {"unborn", "there", "gone"}
  /\ apiKey \in BOOLEAN
  /\ sessions \subseteq Sessions
  /\ rows \subseteq Kinds
  /\ cache \in [has : BOOLEAN, until : 0..(MaxTime + TTL)] \cup {None}
  /\ req \in [Handlers -> [step : Steps, own : BOOLEAN, by : 0..(MaxTime + Timeout),
                           row : Kinds, has : BOOLEAN] \cup {Idle}]
  /\ now \in Start..MaxTime
  /\ faults \in 0..MaxFaults
  /\ lastly \in [BOOLEAN -> 0..MaxTime]
  /\ goneAt \in 0..MaxTime

Init ==
  /\ agent = "unborn"
  /\ apiKey = FALSE
  /\ sessions = {}
  /\ rows = {}
  /\ cache = None
  /\ req = [h \in Handlers |-> Idle]
  /\ now = Start
  /\ faults = 0
  /\ lastly = [has \in BOOLEAN |-> 0]
  /\ goneAt = 0

-----------------------------------------------------------------------------
\* The context of a request: it starts no statement after its deadline.
At(h, step) == req[h].step = step /\ now <= req[h].by
Moves(h, step) == req' = [req EXCEPT ![h].step = step]
Answers(h)     == req' = [req EXCEPT ![h] = Idle]
Opens(h, step, own, row) ==
  /\ req[h] = Idle
  /\ req' = [req EXCEPT ![h] = [step |-> step, own |-> own, by |-> now + Timeout,
                                row |-> row, has |-> FALSE]]

\* HasAgentPermission, for a wildcard row of any kind.
Has == rows # {}

\* The rows change, and what the database says of them may.
SetRows(new) ==
  /\ rows' = new
  /\ lastly' = IF (new # {}) = Has THEN lastly ELSE [lastly EXCEPT ![Has] = now]

\* A row of an agent that is not there fails its foreign key.
CreateAgentPermission(kind) ==
  IF agent = "there" THEN SetRows(rows \cup {kind}) ELSE UNCHANGED permVars

-----------------------------------------------------------------------------
\* Creation: the agent, its API token, its permissions, and the cache.

CreateAgent(h) ==
  /\ agent = "unborn"
  /\ agent' = "there"
  /\ Opens(h, "token", FALSE, "default")
  /\ UNCHANGED <<apiKey, sessions, goneAt, permVars, cache, now, faults>>

\* Tokens have no foreign key.
InsertAPIToken(h) ==
  /\ At(h, "token")
  /\ apiKey' = TRUE
  /\ Moves(h, "default")
  /\ UNCHANGED <<agent, sessions, goneAt, permVars, cache, now, faults>>

\* Whatever becomes of the insert, the loop goes on.
GrantDefaultPermissions(h) ==
  /\ At(h, "default")
  /\ CreateAgentPermission("default")
  /\ Moves(h, "role")
  /\ UNCHANGED <<agentVars, cache, now, faults>>

\* One that fails ends the loop, before the cache is looked at.
GrantRolePermissions(h) ==
  /\ At(h, "role")
  /\ CreateAgentPermission("role")
  /\ IF agent = "there" THEN Moves(h, "scan") ELSE Answers(h)
  /\ UNCHANGED <<agentVars, cache, now, faults>>

\* With its tokens and, by the foreign key, its permissions.
DeleteAgent ==
  /\ agent = "there"
  /\ agent' = "gone"
  /\ apiKey' = FALSE
  /\ sessions' = {}
  /\ goneAt' = now
  /\ SetRows({})
  /\ UNCHANGED <<cache, req, now, faults>>

-----------------------------------------------------------------------------
\* The service's Grant and Revoke.

Grant(h, kind) ==
  /\ Opens(h, "grant", FALSE, kind)
  /\ UNCHANGED <<agentVars, permVars, cache, now, faults>>

InsertGranted(h) ==
  /\ At(h, "grant")
  /\ CreateAgentPermission(req[h].row)
  /\ IF agent = "there" THEN Moves(h, "scan") ELSE Answers(h)
  /\ UNCHANGED <<agentVars, cache, now, faults>>

Revoke(h, kind) ==
  /\ kind \in rows
  /\ Opens(h, "revoke", FALSE, kind)
  /\ UNCHANGED <<agentVars, permVars, cache, now, faults>>

\* A row that another request has deleted is no error.
RevokeAgentPermission(h) ==
  /\ At(h, "revoke")
  /\ SetRows(rows \ {req[h].row})
  /\ Moves(h, "scan")
  /\ UNCHANGED <<agentVars, cache, now, faults>>

\* Invalidate: the keys that SCAN finds are deleted.
Scan(h) ==
  /\ At(h, "scan")
  /\ IF cache # None THEN Moves(h, "del") ELSE Answers(h)
  /\ UNCHANGED <<agentVars, permVars, cache, now, faults>>

DeleteKey(h) ==
  /\ At(h, "del")
  /\ cache' = None
  /\ Answers(h)
  /\ UNCHANGED <<agentVars, permVars, now, faults>>

-----------------------------------------------------------------------------
\* Tokens.

ExchangeAPITokenForSession(h) ==
  /\ apiKey
  /\ Opens(h, "session", FALSE, "default")
  /\ UNCHANGED <<agentVars, permVars, cache, now, faults>>

\* (When the bound is reached, one stands for two.)
InsertSession(h, s) ==
  /\ At(h, "session")
  /\ sessions' = sessions \cup {s}
  /\ Answers(h)
  /\ UNCHANGED <<agent, apiKey, goneAt, permVars, cache, now, faults>>

\* A request with a token of the agent's, of either type: of the routes of a
\* workspace, or of the community's workflows, which anyone with a token may
\* create, and import into any workspace.
AuthenticateAPIKey(h) ==
  /\ apiKey \/ sessions # {}
  /\ \E step \in {"access", "community"} : Opens(h, step, TRUE, "default")
  /\ UNCHANGED <<agentVars, permVars, cache, now, faults>>

\* Mutant: a token is enough.
TokenIsEnough(h) ==
  /\ At(h, "access")
  /\ Moves(h, "get")
  /\ UNCHANGED <<agentVars, permVars, cache, now, faults>>

\* The middleware of the workspace looks for the agent.
CheckWorkspace(h) ==
  /\ At(h, "access")
  /\ IF agent = "there" THEN Moves(h, "get") ELSE Answers(h)
  /\ UNCHANGED <<agentVars, permVars, cache, now, faults>>

-----------------------------------------------------------------------------
\* HasPermission of the cache.  It is asked for the agent's own requests, and
\* when somebody assigns a node to it.

AskAboutAgent(h) ==
  /\ agent = "there"
  /\ Opens(h, "get", FALSE, "default")
  /\ UNCHANGED <<agentVars, permVars, cache, now, faults>>

Decides(h, has) == IF has THEN Moves(h, "allowed") ELSE Answers(h)

Get(h) ==
  /\ At(h, "get")
  /\ IF cache # None THEN Decides(h, cache.has) ELSE Moves(h, "query")
  /\ UNCHANGED <<agentVars, permVars, cache, now, faults>>

HasAgentPermission(h) ==
  /\ At(h, "query")
  /\ req' = [req EXCEPT ![h].step = "set", ![h].has = Has]
  /\ UNCHANGED <<agentVars, permVars, cache, now, faults>>

\* Mutant: the answer is cached on a context without a deadline.
SetLate(h) ==
  /\ req[h].step = "set"
  /\ cache' = [has |-> req[h].has, until |-> now + TTL]
  /\ Decides(h, req[h].has)
  /\ UNCHANGED <<agentVars, permVars, now, faults>>

\* Mutant: kept twice as long.
SetTwice(h) ==
  /\ At(h, "set")
  /\ cache' = [has |-> req[h].has, until |-> now + 2 * TTL]
  /\ Decides(h, req[h].has)
  /\ UNCHANGED <<agentVars, permVars, now, faults>>

Set(h) ==
  /\ At(h, "set")
  /\ cache' = [has |-> req[h].has, until |-> now + TTL]
  /\ Decides(h, req[h].has)
  /\ UNCHANGED <<agentVars, permVars, now, faults>>

\* The handler goes on with what it asked for.
Acts(h) ==
  /\ At(h, "allowed") \/ At(h, "community")
  /\ Answers(h)
  /\ UNCHANGED <<agentVars, permVars, cache, now, faults>>

-----------------------------------------------------------------------------
\* Time, and what goes wrong.

\* Redis drops a key whose time is over.
Tick ==
  /\ now < MaxTime
  /\ now' = now + 1
  /\ cache' = IF cache # None /\ cache.until <= now + 1 THEN None ELSE cache
  /\ UNCHANGED <<agentVars, permVars, req, faults>>

\* The deadline has passed.
Expires(h) ==
  /\ req[h] # Idle
  /\ now > req[h].by
  /\ Answers(h)
  /\ UNCHANGED <<agentVars, permVars, cache, now, faults>>

\* What a request does after a statement, or a command of Redis, that failed.
AfterFailure ==
  [step \in Steps |->
     CASE step = "default" -> "role"
       [] step = "get" -> "query"
       [] OTHER -> "idle"]

Fails(h) ==
  /\ faults < MaxFaults
  /\ faults' = faults + 1
  /\ \E step \in Steps :
       /\ At(h, step)
       /\ CASE step = "set" -> Decides(h, req[h].has)
            [] step # "set" /\ AfterFailure[step] = "idle" -> Answers(h)
            [] OTHER -> Moves(h, AfterFailure[step])
  /\ UNCHANGED <<agentVars, permVars, cache, now>>

-----------------------------------------------------------------------------
OfRequest(h) ==
  \/ CreateAgent(h)
  \/ InsertAPIToken(h)
  \/ GrantDefaultPermissions(h)
  \/ GrantRolePermissions(h)
  \/ InsertGranted(h)
  \/ \E kind \in Kinds : Grant(h, kind) \/ Revoke(h, kind)
  \/ RevokeAgentPermission(h)
  \/ Scan(h)
  \/ DeleteKey(h)
  \/ ExchangeAPITokenForSession(h)
  \/ \E s \in Sessions : InsertSession(h, s)
  \/ AuthenticateAPIKey(h)
  \/ CheckWorkspace(h)
  \/ AskAboutAgent(h)
  \/ Get(h)
  \/ HasAgentPermission(h)
  \/ Set(h)
  \/ Acts(h)
  \/ Expires(h)
  \/ Fails(h)

Next ==
  \/ \E h \in Handlers : OfRequest(h)
  \/ DeleteAgent
  \/ Tick

Spec == Init /\ [][Next]_vars

-----------------------------------------------------------------------------
\* Properties.

\* What the database says, or said a while ago.
SaidWithin(has, while) == Has = has \/ now <= lastly[has] + while

\* An answer that Redis gives was the database's at some time within the life
\* of a cached answer and of a request: a check that was asked before a grant or
\* a revocation may cache its answer after the invalidation, but not for longer.
CacheNotOld == cache # None => SaidWithin(cache.has, TTL + Timeout)

\* Once the requests that were under way have run out, a deleted agent does
\* nothing more in a workspace: not with a token that an exchange or its own
\* creation inserted after the deletion, nor on a permission that is still
\* cached.  Only such a token lets it into the community's workflows.
DeletedActsNoMore ==
  \A h \in Handlers :
    agent = "gone" /\ now > goneAt + Timeout =>
      /\ At(h, "allowed") => ~req[h].own
      /\ At(h, "community") => apiKey \/ sessions # {}
=============================================================================
