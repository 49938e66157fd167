------------------------------ MODULE Accounts ------------------------------
(***************************************************************************)
(* Members, their workspaces and their tokens.  Registration is five       *)
(* statements with no transaction around them; a login counts its failures *)
(* and keeps its tokens under keys of Redis that time out; every request   *)
(* with a token passes the check of that key before its handler runs, and  *)
(* the handler that deletes a workspace counts the member's workspaces     *)
(* first.  Handlers run side by side, may stop at any point, and Redis may *)
(* be away for a while.                                                    *)
(*                                                                         *)
(* A member is known by his email.  No statement that a route reaches      *)
(* gives a member a workspace that is not his own, so every membership is  *)
(* one of an owner.  The count of failures is kept up to the limit it is   *)
(* compared with: what is above it is treated alike.                       *)
(***************************************************************************)
EXTENDS Naturals, FiniteSets

CONSTANTS
  Emails,       \* people
  Handlers,     \* requests that may be under way at once
  Spaces,       \* bound: workspaces that may be created
  Tokens,       \* bound: JWTs that are valid at once
  LockAfter,    \* failures that lock an account (5)
  MaxWrong,     \* bound: logins with a wrong password
  MaxFaults,    \* bound: handlers that stop halfway, times that Redis goes away
  None          \* nobody, nothing

ASSUME AccountsAssumption ==
  /\ LockAfter \in Nat \ {0, 1}
  /\ {MaxWrong, MaxFaults} \subseteq Nat
  /\ None \notin Emails \cup Spaces
  /\ IsFiniteSet(Spaces)

VARIABLES
  members,  \* the row of a member: absent, without a password, or with one
  spaces,   \* a workspace: not yet there, there, or deleted
  owners,   \* workspace_members
  fails,    \* login_attempts: how many, and whether the key has a time to live
  locked,   \* whose key login_lockout is there
  stored,   \* the keys jwt:<jti>
  holder,   \* who was handed a token that has not run out
  up,       \* Redis answers
  req,      \* what a handler is doing
  wrong, faults   \* so far

dbVars    == <<members, spaces, owners>>
loginVars == <<fails, locked>>
tokenVars == <<stored, holder>>
counters  == <<wrong, faults>>
vars == <<dbVars, loginVars, tokenVars, up, req, counters>>

NoKey   == [n |-> 0, expires |-> FALSE]
Keys(m) == [n : 0..m, expires : BOOLEAN]
Idle    == [step |-> "idle"]
Steps   == {"workspace", "member", "owner", "password", "jti",
            "lockout", "verify", "find", "failure", "expiry", "lock", "success",
            "create", "role", "count", "delete"}

TypeOK ==
  /\ members \in [Emails -> {"absent", "bare", "ready"}]
  /\ spaces \in [Spaces -> {"unused", "there", "deleted"}]
  /\ owners \subseteq Spaces \X Emails
  /\ fails \in [Emails -> Keys(LockAfter)]
  /\ locked \subseteq Emails
  /\ stored \subseteq Tokens
  /\ holder \in [Tokens -> Emails \cup {None}]
  /\ up \in BOOLEAN
  /\ req \in [Handlers -> [step : Steps, op : {"register", "login", "create", "delete"},
                           who : Emails, right : BOOLEAN, space : Spaces \cup {None},
                           seen : SUBSET Spaces] \cup {Idle}]
  /\ wrong \in 0..MaxWrong
  /\ faults \in 0..MaxFaults

Init ==
  /\ members = [e \in Emails |-> "absent"]
  /\ spaces = [w \in Spaces |-> "unused"]
  /\ owners = {}
  /\ fails = [e \in Emails |-> NoKey]
  /\ locked = {}
  /\ stored = {}
  /\ holder = [t \in Tokens |-> None]
  /\ up = TRUE
  /\ req = [h \in Handlers |-> Idle]
  /\ wrong = 0
  /\ faults = 0

-----------------------------------------------------------------------------
At(h, step)   == req[h].step = step
Who(h)        == req[h].who
Space(h)      == req[h].space
Moves(h, step) == req' = [req EXCEPT ![h].step = step]
Answers(h)    == req' = [req EXCEPT ![h] = Idle]
Opens(h, op, e, step, right, w) ==
  /\ req[h] = Idle
  /\ req' = [req EXCEPT ![h] = [step |-> step, op |-> op, who |-> e, right |-> right,
                                space |-> w, seen |-> {}]]

Owned(e) == {w \in Spaces : <<w, e>> \in owners}

\* The bound on workspaces: there is one left for the request.
Making == {h \in Handlers : At(h, "workspace") \/ At(h, "create")}
Room   == Cardinality({w \in Spaces : spaces[w] = "unused"}) > Cardinality(Making)

\* Mutant: a counter that goes on above what it is compared with.
Counted(key, m) == [key EXCEPT !.n = key.n + 1]

\* INCR, which makes a key that has no time to live.
Incremented(key, m) ==
  [key EXCEPT !.n = IF key.n < m THEN key.n + 1 ELSE m]

\* EXPIRE, which does nothing where there is no key.
Expiring(key) == IF key.n = 0 THEN key ELSE [key EXCEPT !.expires = TRUE]

-----------------------------------------------------------------------------
\* Registration: the workspace, the member, the membership, the password.

Register(h, e) ==
  /\ Room
  /\ Opens(h, "register", e, "workspace", TRUE, None)
  /\ UNCHANGED <<dbVars, loginVars, tokenVars, up, counters>>

InsertsSpace(w) == spaces[w] = "unused" /\ spaces' = [spaces EXCEPT ![w] = "there"]

CreateWorkspace(h, w) ==
  /\ At(h, "workspace")
  /\ InsertsSpace(w)
  /\ req' = [req EXCEPT ![h].step = "member", ![h].space = w]
  /\ UNCHANGED <<members, owners, loginVars, tokenVars, up, counters>>

\* The email is unique: a second registration ends here, and leaves its
\* workspace behind.
CreateMember(h) ==
  /\ At(h, "member")
  /\ IF members[Who(h)] = "absent"
     THEN members' = [members EXCEPT ![Who(h)] = "bare"] /\ Moves(h, "owner")
     ELSE UNCHANGED members /\ Answers(h)
  /\ UNCHANGED <<spaces, owners, loginVars, tokenVars, up, counters>>

\* Mutant: the password is set before the membership is there.
PasswordFirst(h) ==
  /\ At(h, "owner")
  /\ members' = [members EXCEPT ![Who(h)] = "ready"]
  /\ owners' = owners
  /\ Moves(h, "jti")
  /\ UNCHANGED <<spaces, loginVars, tokenVars, up, counters>>

CreateWorkspaceMember(h) ==
  /\ At(h, "owner")
  /\ owners' = owners \cup {<<Space(h), Who(h)>>}
  /\ Moves(h, "password")
  /\ UNCHANGED <<members, spaces, loginVars, tokenVars, up, counters>>

UpdateMemberPasswordHash(h) ==
  /\ At(h, "password")
  /\ members' = [members EXCEPT ![Who(h)] = "ready"]
  /\ Moves(h, "jti")
  /\ UNCHANGED <<spaces, owners, loginVars, tokenVars, up, counters>>

\* Mutant: the token is handed out and its key is never set.
AnswersOnly(h, t) ==
  /\ At(h, "jti")
  /\ holder[t] = None /\ t \notin stored
  /\ holder' = [holder EXCEPT ![t] = Who(h)]
  /\ Answers(h)
  /\ UNCHANGED <<dbVars, loginVars, stored, up, counters>>

\* The last step of a registration and of a login: a new token, its key, which
\* lives as long as the token, and the answer, whether the key could be set or
\* not.
StoreJTI(h, t) ==
  /\ At(h, "jti")
  /\ holder[t] = None /\ t \notin stored
  /\ holder' = [holder EXCEPT ![t] = Who(h)]
  /\ stored' = IF up THEN stored \cup {t} ELSE stored
  /\ Answers(h)
  /\ UNCHANGED <<dbVars, loginVars, up, counters>>

-----------------------------------------------------------------------------
\* Login.

Login(h, e, right) ==
  /\ Opens(h, "login", e, "lockout", right, None)
  /\ right \/ wrong < MaxWrong
  /\ wrong' = IF right THEN wrong ELSE wrong + 1
  /\ UNCHANGED <<dbVars, loginVars, tokenVars, up, faults>>

\* A Redis that does not answer locks nobody out.
CheckLoginLockout(h) ==
  /\ At(h, "lockout")
  /\ IF up /\ Who(h) \in locked THEN Answers(h) ELSE Moves(h, "verify")
  /\ UNCHANGED <<dbVars, loginVars, tokenVars, up, counters>>

\* GetMemberByEmail and the comparison.
VerifyPassword(h) ==
  /\ At(h, "verify")
  /\ Moves(h, IF members[Who(h)] = "ready" /\ req[h].right THEN "find" ELSE "failure")
  /\ UNCHANGED <<dbVars, loginVars, tokenVars, up, counters>>

\* Who has no workspace cannot log in, and that counts as a failure as well.
FindWorkspace(h) ==
  /\ At(h, "find")
  /\ Moves(h, IF Owned(Who(h)) # {} THEN "success" ELSE "failure")
  /\ UNCHANGED <<dbVars, loginVars, tokenVars, up, counters>>

AfterFailure(n) == IF n = 1 THEN "expiry" ELSE IF n >= LockAfter THEN "lock" ELSE "idle"

\* INCR of login_attempts, and what its answer calls for.
RecordLoginFailure(h) ==
  /\ At(h, "failure")
  /\ LET key  == Incremented(fails[Who(h)], LockAfter)
         step == IF up THEN AfterFailure(key.n) ELSE "idle"
     IN  /\ fails' = IF up THEN [fails EXCEPT ![Who(h)] = key] ELSE fails
         /\ IF step = "idle" THEN Answers(h) ELSE Moves(h, step)
  /\ UNCHANGED <<dbVars, locked, tokenVars, up, counters>>

ExpireAttempts(h) ==
  /\ At(h, "expiry")
  /\ fails' = IF up THEN [fails EXCEPT ![Who(h)] = Expiring(@)] ELSE fails
  /\ Answers(h)
  /\ UNCHANGED <<dbVars, locked, tokenVars, up, counters>>

SetLockout(h) ==
  /\ At(h, "lock")
  /\ locked' = IF up THEN locked \cup {Who(h)} ELSE locked
  /\ Answers(h)
  /\ UNCHANGED <<dbVars, fails, tokenVars, up, counters>>

RecordLoginSuccess(h) ==
  /\ At(h, "success")
  /\ fails' = IF up THEN [fails EXCEPT ![Who(h)] = NoKey] ELSE fails
  /\ Moves(h, "jti")
  /\ UNCHANGED <<dbVars, locked, tokenVars, up, counters>>

-----------------------------------------------------------------------------
\* A request with a token: AuthMiddleware, and the handler.

FirstStep(op) == IF op = "create" THEN "create" ELSE "role"

\* A token whose key is gone is refused, unless Redis does not answer.
Accepted(t) == ~up \/ t \in stored

Call(h, t, op, w) ==
  /\ holder[t] # None
  /\ Accepted(t)
  /\ op = "create" => Room
  /\ Opens(h, op, holder[t], FirstStep(op), TRUE, w)
  /\ UNCHANGED <<dbVars, loginVars, tokenVars, up, counters>>

\* The workspace and its membership, in one transaction.
CreateForMember(h, w) ==
  /\ At(h, "create")
  /\ InsertsSpace(w)
  /\ owners' = owners \cup {<<w, Who(h)>>}
  /\ Answers(h)
  /\ UNCHANGED <<members, loginVars, tokenVars, up, counters>>

\* The middleware of the workspace, and of the role.
CheckAccess(h) ==
  /\ At(h, "role")
  /\ IF <<Space(h), Who(h)>> \in owners THEN Moves(h, "count") ELSE Answers(h)
  /\ UNCHANGED <<dbVars, loginVars, tokenVars, up, counters>>

\* Mutant: the last one may go, too.
CountsNone(h) ==
  /\ At(h, "count")
  /\ LET mine == Owned(Who(h)) IN
       IF spaces[Space(h)] = "there" /\ Cardinality(mine) >= 1
       THEN req' = [req EXCEPT ![h].step = "delete", ![h].seen = mine]
       ELSE Answers(h)
  /\ UNCHANGED <<dbVars, loginVars, tokenVars, up, counters>>

\* The two reads of the handler, in one step: what the first of them finds
\* matters for its answer alone.
CountWorkspaces(h) ==
  /\ At(h, "count")
  /\ LET mine == Owned(Who(h)) IN
       IF spaces[Space(h)] = "there" /\ Cardinality(mine) > 1
       THEN req' = [req EXCEPT ![h].step = "delete", ![h].seen = mine]
       ELSE Answers(h)
  /\ UNCHANGED <<dbVars, loginVars, tokenVars, up, counters>>

\* With the memberships of it, which the database deletes.
DeleteWorkspace(h) ==
  /\ At(h, "delete")
  /\ spaces' = [spaces EXCEPT ![Space(h)] = "deleted"]
  /\ owners' = {row \in owners : row[1] # Space(h)}
  /\ Answers(h)
  /\ UNCHANGED <<members, loginVars, tokenVars, up, counters>>

-----------------------------------------------------------------------------
\* Time, and what goes wrong.

AttemptsExpire(e) ==
  /\ fails[e].expires
  /\ fails' = [fails EXCEPT ![e] = NoKey]
  /\ UNCHANGED <<dbVars, locked, tokenVars, up, req, counters>>

\* Mutant: a lock without a time to live.
LockStays(e) ==
  /\ e \in locked
  /\ members[e] = "absent"
  /\ locked' = locked \ {e}
  /\ UNCHANGED <<dbVars, fails, tokenVars, up, req, counters>>

LockExpires(e) ==
  /\ e \in locked
  /\ locked' = locked \ {e}
  /\ UNCHANGED <<dbVars, fails, tokenVars, up, req, counters>>

\* A token and its key run out at the same time.
TokenExpires(t) ==
  /\ holder[t] # None
  /\ holder' = [holder EXCEPT ![t] = None]
  /\ stored' = stored \ {t}
  /\ UNCHANGED <<dbVars, loginVars, up, req, counters>>

\* A statement fails, the request is cancelled or the process stops.
Stop(h) ==
  /\ req[h] # Idle
  /\ faults < MaxFaults
  /\ faults' = faults + 1
  /\ Answers(h)
  /\ UNCHANGED <<dbVars, loginVars, tokenVars, up, wrong>>

RedisGoes ==
  /\ up
  /\ faults < MaxFaults
  /\ up' = FALSE
  /\ faults' = faults + 1
  /\ UNCHANGED <<dbVars, loginVars, tokenVars, req, wrong>>

RedisReturns ==
  /\ ~up
  /\ up' = TRUE
  /\ UNCHANGED <<dbVars, loginVars, tokenVars, req, counters>>

-----------------------------------------------------------------------------
OfRequest(h) ==
  \/ \E w \in Spaces : CreateWorkspace(h, w) \/ CreateForMember(h, w)
  \/ CreateMember(h)
  \/ CreateWorkspaceMember(h)
  \/ UpdateMemberPasswordHash(h)
  \/ \E t \in Tokens : StoreJTI(h, t)
  \/ CheckLoginLockout(h)
  \/ VerifyPassword(h)
  \/ FindWorkspace(h)
  \/ RecordLoginFailure(h)
  \/ ExpireAttempts(h)
  \/ SetLockout(h)
  \/ RecordLoginSuccess(h)
  \/ CheckAccess(h)
  \/ CountWorkspaces(h)
  \/ DeleteWorkspace(h)

OfTime ==
  \/ \E e \in Emails :
       AttemptsExpire(e) \/ LockExpires(e)
  \/ \E t \in Tokens : TokenExpires(t)

Next ==
  \/ \E h \in Handlers :
       \/ OfRequest(h)
       \/ Stop(h)
       \/ \E e \in Emails : Register(h, e) \/ \E right \in BOOLEAN : Login(h, e, right)
       \/ \E t \in Tokens : Call(h, t, "create", None)
                            \/ \E w \in Spaces : Call(h, t, "delete", w)
  \/ OfTime
  \/ RedisGoes
  \/ RedisReturns

Spec == Init /\ [][Next]_vars

\* Handlers run, keys and tokens run out, Redis comes back; and whoever knows
\* his password keeps trying.
FairSpec ==
  /\ Spec
  /\ \A h \in Handlers : WF_vars(OfRequest(h))
  /\ \A e \in Emails :
       /\ WF_vars(AttemptsExpire(e))
       /\ WF_vars(LockExpires(e))
       /\ SF_vars(\E h \in Handlers : Login(h, e, TRUE))
  /\ \A t \in Tokens : WF_vars(TokenExpires(t))
  /\ WF_vars(RedisReturns)

-----------------------------------------------------------------------------
\* Properties.

\* Whoever has a password has a workspace, wherever another registration of the
\* same email stopped.  A member's last workspace goes only by a request whose
\* count is out of date: another request of the same member has deleted the
\* others since.
Stranded(ms, os) == {e \in Emails : ms[e] = "ready" /\ {w \in Spaces : <<w, e>> \in os} = {}}

StrandedByStaleCountOnly ==
  [][\A e \in Stranded(members', owners') \ Stranded(members, owners) :
       \E h \in Handlers : At(h, "delete") /\ Who(h) = e /\ req[h].seen # Owned(e)]_vars

CanLogIn(e) == members[e] = "ready" /\ Owned(e) # {}

\* Whoever knows his password and keeps trying gets, again and again, a token
\* that is accepted, although others try wrong passwords for a while, although a
\* failed EXPIRE may leave the count of failures for ever, and although a token
\* made while Redis is away is refused once it is back.
OwnerGetsIn ==
  \A e \in Emails :
    <>[]CanLogIn(e) => []<>(\E t \in Tokens : holder[t] = e /\ t \in stored)
=============================================================================
