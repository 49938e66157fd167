-------------------------- MODULE Accounts_proofs ---------------------------
(***************************************************************************)
(* Theorems about Accounts, for any number of people, requests under way,  *)
(* workspaces and tokens.                                                  *)
(***************************************************************************)
EXTENDS Accounts, FiniteSetTheorems, TLAPS

-----------------------------------------------------------------------------
(* Types.                                                                  *)

Ops     == {"register", "login", "create", "delete"}
Request == [step : Steps, op : Ops, who : Emails, right : BOOLEAN,
            space : Spaces \cup {None}, seen : SUBSET Spaces]

\* How a step may change what a handler is doing: it goes on, answers, or opens
\* a request.
Others(h) ==
  /\ req' \in [Handlers -> Request \cup {Idle}]
  /\ \A g \in Handlers : g # h => req'[g] = req[g]

Goes(h, step, w, mine) ==
  /\ Others(h)
  /\ req'[h].step = step /\ req'[h].who = req[h].who
  /\ req'[h].space = w /\ req'[h].seen = mine

Ended(h) == Others(h) /\ req'[h] = Idle

Opened(h, e, step) == Others(h) /\ req'[h].step = step /\ req'[h].who = e

\* The type invariant, conjunct by conjunct.
LEMMA Types ==
  TypeOK <=>
    /\ members \in [Emails -> {"absent", "bare", "ready"}]
    /\ spaces \in [Spaces -> {"unused", "there", "deleted"}]
    /\ owners \subseteq Spaces \X Emails
    /\ fails \in [Emails -> Keys(LockAfter)]
    /\ locked \subseteq Emails
    /\ stored \subseteq Tokens
    /\ holder \in [Tokens -> Emails \cup {None}]
    /\ up \in BOOLEAN
    /\ req \in [Handlers -> Request \cup {Idle}]
    /\ wrong \in 0 .. MaxWrong
    /\ faults \in 0 .. MaxFaults
BY DEF TypeOK, Request, Ops

\* A handler whose step is not that of an idle one has a request.
LEMMA HasRequest ==
  ASSUME TypeOK, NEW h \in Handlers, req[h].step \in Steps
  PROVE  req[h] \in Request
<1>1. req[h] \in Request \cup {Idle} /\ Idle.step \notin Steps
  BY Types DEF Idle, Steps
<1> QED BY <1>1

\* A request that goes on keeps its member, and what it does not change.
LEMMA RequestMoves ==
  ASSUME TypeOK, NEW h \in Handlers, req[h].step \in Steps, NEW step \in Steps
  PROVE  /\ Moves(h, step) => Goes(h, step, req[h].space, req[h].seen)
         /\ \A w \in Spaces \cup {None} :
              req' = [req EXCEPT ![h].step = step, ![h].space = w]
                => Goes(h, step, w, req[h].seen)
         /\ \A mine \in SUBSET Spaces :
              req' = [req EXCEPT ![h].step = step, ![h].seen = mine]
                => Goes(h, step, req[h].space, mine)
<1>1. ASSUME NEW r \in Request, req' = [req EXCEPT ![h] = r], r.step = step, r.who = req[h].who
      PROVE  Goes(h, step, r.space, r.seen)
  BY <1>1, Types DEF Goes, Others
<1>2. PICK q \in Request : q = req[h]
  BY HasRequest
<1>3. ASSUME Moves(h, step) PROVE Goes(h, step, req[h].space, req[h].seen)
  <2>1. PICK r : r = [q EXCEPT !.step = step]
    OBVIOUS
  <2>2. r \in Request /\ r.step = step /\ r.who = q.who /\ r.space = q.space /\ r.seen = q.seen
    BY <2>1 DEF Request
  <2>3. req' = [req EXCEPT ![h] = r]
    BY <1>2, <1>3, <2>1 DEF Moves
  <2>4. Goes(h, step, r.space, r.seen)
    BY <1>1, <1>2, <2>2, <2>3
  <2> QED BY <1>2, <2>2, <2>4
<1>4. ASSUME NEW w \in Spaces \cup {None}, req' = [req EXCEPT ![h].step = step, ![h].space = w]
      PROVE  Goes(h, step, w, req[h].seen)
  <2>1. PICK r : r = [q EXCEPT !.step = step, !.space = w]
    OBVIOUS
  <2>2. r \in Request /\ r.step = step /\ r.who = q.who /\ r.space = w /\ r.seen = q.seen
    BY <2>1 DEF Request
  <2>3. req' = [req EXCEPT ![h] = r]
    BY <1>2, <1>4, <2>1
  <2>4. Goes(h, step, r.space, r.seen)
    BY <1>1, <1>2, <2>2, <2>3
  <2> QED BY <1>2, <2>2, <2>4
<1>5. ASSUME NEW mine \in SUBSET Spaces,
             req' = [req EXCEPT ![h].step = step, ![h].seen = mine]
      PROVE  Goes(h, step, req[h].space, mine)
  <2>1. PICK r : r = [q EXCEPT !.step = step, !.seen = mine]
    OBVIOUS
  <2>2. r \in Request /\ r.step = step /\ r.who = q.who /\ r.space = q.space /\ r.seen = mine
    BY <2>1 DEF Request
  <2>3. req' = [req EXCEPT ![h] = r]
    BY <1>2, <1>5, <2>1
  <2>4. Goes(h, step, r.space, r.seen)
    BY <1>1, <1>2, <2>2, <2>3
  <2> QED BY <1>2, <2>2, <2>4
<1> QED BY <1>3, <1>4, <1>5

\* An answer leaves the handler idle.
LEMMA RequestEnds ==
  ASSUME TypeOK, NEW h \in Handlers, Answers(h)
  PROVE  Ended(h)
BY Types DEF Answers, Ended, Others

\* A request that is opened is of its member, at its first step.
LEMMA RequestOpens ==
  ASSUME TypeOK, NEW h \in Handlers, NEW e \in Emails, NEW step \in Steps, NEW op \in Ops,
         NEW right \in BOOLEAN, NEW w \in Spaces \cup {None}, Opens(h, op, e, step, right, w)
  PROVE  Opened(h, e, step)
<1>1. PICK r \in Request : r = [step |-> step, op |-> op, who |-> e, right |-> right,
                                space |-> w, seen |-> {}]
  BY DEF Request
<1>2. r.step = step /\ r.who = e
  BY <1>1
<1>3. req' = [req EXCEPT ![h] = r]
  BY <1>1 DEF Opens
<1> QED BY <1>2, <1>3, Types DEF Opened, Others

\* What a request does next, and where it goes.
LEMMA RequestSteps ==
  ASSUME TypeOK, NEW h \in Handlers
  PROVE  /\ \A w \in Spaces : CreateWorkspace(h, w) => Goes(h, "member", w, req[h].seen)
         /\ CreateMember(h) => Ended(h) \/ Goes(h, "owner", req[h].space, req[h].seen)
         /\ CreateWorkspaceMember(h) => Goes(h, "password", req[h].space, req[h].seen)
         /\ UpdateMemberPasswordHash(h) => Goes(h, "jti", req[h].space, req[h].seen)
         /\ \A t \in Tokens : StoreJTI(h, t) => Ended(h)
         /\ CheckLoginLockout(h) => Ended(h) \/ Goes(h, "verify", req[h].space, req[h].seen)
         /\ VerifyPassword(h) => \E step \in {"find", "failure"} :
                                   Goes(h, step, req[h].space, req[h].seen)
         /\ FindWorkspace(h) => \E step \in {"success", "failure"} :
                                  Goes(h, step, req[h].space, req[h].seen)
         /\ RecordLoginFailure(h) =>
              Ended(h) \/ \E step \in {"expiry", "lock"} :
                            Goes(h, step, req[h].space, req[h].seen)
         /\ ExpireAttempts(h) \/ SetLockout(h) => Ended(h)
         /\ RecordLoginSuccess(h) => Goes(h, "jti", req[h].space, req[h].seen)
<1>1. \A step \in Steps : At(h, step) => req[h].step \in Steps
  BY DEF At
<1>2. {"workspace", "member", "owner", "password", "jti", "lockout", "verify", "find", "failure",
       "expiry", "lock", "success"} \subseteq Steps
  BY DEF Steps
<1>3. ASSUME NEW w \in Spaces, CreateWorkspace(h, w) PROVE Goes(h, "member", w, req[h].seen)
  BY <1>1, <1>2, <1>3, RequestMoves DEF CreateWorkspace
<1>4. ASSUME CreateMember(h) PROVE Ended(h) \/ Goes(h, "owner", req[h].space, req[h].seen)
  BY <1>1, <1>2, <1>4, RequestMoves, RequestEnds DEF CreateMember
<1>5. ASSUME CreateWorkspaceMember(h) PROVE Goes(h, "password", req[h].space, req[h].seen)
  BY <1>1, <1>2, <1>5, RequestMoves DEF CreateWorkspaceMember
<1>6. ASSUME UpdateMemberPasswordHash(h) PROVE Goes(h, "jti", req[h].space, req[h].seen)
  BY <1>1, <1>2, <1>6, RequestMoves DEF UpdateMemberPasswordHash
<1>7. ASSUME NEW t \in Tokens, StoreJTI(h, t) PROVE Ended(h)
  BY <1>7, RequestEnds DEF StoreJTI
<1>8. ASSUME CheckLoginLockout(h)
      PROVE  Ended(h) \/ Goes(h, "verify", req[h].space, req[h].seen)
  BY <1>1, <1>2, <1>8, RequestMoves, RequestEnds DEF CheckLoginLockout
<1>9. ASSUME VerifyPassword(h)
      PROVE  \E step \in {"find", "failure"} : Goes(h, step, req[h].space, req[h].seen)
  BY <1>1, <1>2, <1>9, RequestMoves DEF VerifyPassword
<1>10. ASSUME FindWorkspace(h)
       PROVE  \E step \in {"success", "failure"} : Goes(h, step, req[h].space, req[h].seen)
  BY <1>1, <1>2, <1>10, RequestMoves DEF FindWorkspace
<1>11. ASSUME RecordLoginFailure(h)
       PROVE  Ended(h) \/ \E step \in {"expiry", "lock"} :
                            Goes(h, step, req[h].space, req[h].seen)
  <2>1. PICK step \in {"expiry", "lock", "idle"} :
               IF step = "idle" THEN Answers(h) ELSE Moves(h, step)
    BY <1>11 DEF RecordLoginFailure, AfterFailure
  <2>2. At(h, "failure")
    BY <1>11 DEF RecordLoginFailure
  <2> QED BY <1>1, <1>2, <2>1, <2>2, RequestMoves, RequestEnds
<1>12. ASSUME ExpireAttempts(h) \/ SetLockout(h) PROVE Ended(h)
  BY <1>12, RequestEnds DEF ExpireAttempts, SetLockout
<1>13. ASSUME RecordLoginSuccess(h) PROVE Goes(h, "jti", req[h].space, req[h].seen)
  BY <1>1, <1>2, <1>13, RequestMoves DEF RecordLoginSuccess
<1> QED BY <1>3, <1>4, <1>5, <1>6, <1>7, <1>8, <1>9, <1>10, <1>11, <1>12, <1>13

\* The same for the requests with a token, and for those that open or stop.
LEMMA CallSteps ==
  ASSUME TypeOK, NEW h \in Handlers
  PROVE  /\ \A w \in Spaces : CreateForMember(h, w) => Ended(h)
         /\ CheckAccess(h) => Ended(h) \/ Goes(h, "count", req[h].space, req[h].seen)
         /\ CountWorkspaces(h) => Ended(h) \/ Goes(h, "delete", req[h].space, Owned(Who(h)))
         /\ DeleteWorkspace(h) \/ Stop(h) => Ended(h)
         /\ \A e \in Emails : Register(h, e) => Opened(h, e, "workspace")
         /\ \A e \in Emails, right \in BOOLEAN : Login(h, e, right) => Opened(h, e, "lockout")
         /\ \A t \in Tokens :
              Call(h, t, "create", None) => Opened(h, holder[t], "create")
         /\ \A t \in Tokens, w \in Spaces :
              Call(h, t, "delete", w) => Opened(h, holder[t], "role")
<1>1. \A step \in Steps : At(h, step) => req[h].step \in Steps
  BY DEF At
<1>2. {"workspace", "lockout", "create", "role", "count", "delete"} \subseteq Steps
      /\ {"register", "login", "create", "delete"} \subseteq Ops
  BY DEF Steps, Ops
<1>3. ASSUME NEW w \in Spaces, CreateForMember(h, w) PROVE Ended(h)
  BY <1>3, RequestEnds DEF CreateForMember
<1>4. ASSUME CheckAccess(h) PROVE Ended(h) \/ Goes(h, "count", req[h].space, req[h].seen)
  BY <1>1, <1>2, <1>4, RequestMoves, RequestEnds DEF CheckAccess
<1>5. ASSUME CountWorkspaces(h)
      PROVE  Ended(h) \/ Goes(h, "delete", req[h].space, Owned(Who(h)))
  <2>1. Owned(Who(h)) \in SUBSET Spaces
    BY DEF Owned
  <2>2. \/ Answers(h)
        \/ req' = [req EXCEPT ![h].step = "delete", ![h].seen = Owned(Who(h))]
    BY <1>5 DEF CountWorkspaces
  <2>3. At(h, "count")
    BY <1>5 DEF CountWorkspaces
  <2> QED BY <1>1, <1>2, <2>1, <2>2, <2>3, RequestMoves, RequestEnds
<1>6. ASSUME DeleteWorkspace(h) \/ Stop(h) PROVE Ended(h)
  BY <1>6, RequestEnds DEF DeleteWorkspace, Stop
<1>7. ASSUME NEW e \in Emails, Register(h, e) PROVE Opened(h, e, "workspace")
  BY <1>2, <1>7, RequestOpens DEF Register
<1>8. ASSUME NEW e \in Emails, NEW right \in BOOLEAN, Login(h, e, right)
      PROVE  Opened(h, e, "lockout")
  BY <1>2, <1>8, RequestOpens DEF Login
<1>9. ASSUME NEW t \in Tokens, NEW op \in {"create", "delete"}, NEW w \in Spaces \cup {None},
             Call(h, t, op, w)
      PROVE  Opened(h, holder[t], FirstStep(op))
  <2>1. holder[t] \in Emails /\ FirstStep(op) \in Steps
    BY <1>2, <1>9, Types DEF Call, FirstStep
  <2> QED BY <1>2, <1>9, <2>1, RequestOpens DEF Call
<1> QED BY <1>3, <1>4, <1>5, <1>6, <1>7, <1>8, <1>9 DEF FirstStep

\* The count of failures stays a count up to the limit.
LEMMA KeyTypes ==
  ASSUME NEW key \in Keys(LockAfter)
  PROVE  /\ Incremented(key, LockAfter) \in Keys(LockAfter)
         /\ Expiring(key) \in Keys(LockAfter)
         /\ NoKey \in Keys(LockAfter)
<1>1. LockAfter \in Nat /\ key.n \in 0 .. LockAfter /\ key.expires \in BOOLEAN
  BY AccountsAssumption DEF Keys
<1>2. PICK n \in 0 .. LockAfter : n = IF key.n < LockAfter THEN key.n + 1 ELSE LockAfter
  BY <1>1
<1>3. [key EXCEPT !.n = n] \in Keys(LockAfter) /\ [key EXCEPT !.expires = TRUE] \in Keys(LockAfter)
  BY <1>1, <1>2 DEF Keys
<1>4. NoKey \in Keys(LockAfter)
  BY <1>1 DEF NoKey, Keys
<1> QED BY <1>2, <1>3, <1>4 DEF Incremented, Expiring

\* A registration that has made its workspace knows it.
Placed == \A h \in Handlers : req[h].step \in {"member", "owner"} => req[h].space \in Spaces

\* Every step keeps the types, given that a registration knows its workspace.
LEMMA NextTypeOK == TypeOK /\ Placed /\ [Next]_vars => TypeOK'
<1> SUFFICES ASSUME TypeOK, Placed, [Next]_vars PROVE TypeOK'
  OBVIOUS
<1> DEFINE Requests == [Handlers -> Request \cup {Idle}]
           DbTyped == /\ members' \in [Emails -> {"absent", "bare", "ready"}]
                      /\ spaces' \in [Spaces -> {"unused", "there", "deleted"}]
                      /\ owners' \subseteq Spaces \X Emails
           LoginTyped == fails' \in [Emails -> Keys(LockAfter)] /\ locked' \subseteq Emails
           TokenTyped == stored' \subseteq Tokens /\ holder' \in [Tokens -> Emails \cup {None}]
           CountsTyped   == wrong' \in 0 .. MaxWrong /\ faults' \in 0 .. MaxFaults
<1>0. /\ UNCHANGED dbVars => DbTyped
      /\ UNCHANGED loginVars => LoginTyped
      /\ UNCHANGED tokenVars => TokenTyped
      /\ UNCHANGED counters => CountsTyped
      /\ UNCHANGED up => up' \in BOOLEAN
      /\ UNCHANGED req => req' \in Requests
  BY Types DEF dbVars, loginVars, tokenVars, counters
<1>1. DbTyped /\ LoginTyped /\ TokenTyped /\ CountsTyped /\ up' \in BOOLEAN /\ req' \in Requests
        => TypeOK'
  BY DEF TypeOK, Request, Ops
<1>2. ASSUME NEW h \in Handlers, NEW step \in Steps, req[h].step = step
      PROVE  Who(h) \in Emails /\ Space(h) \in Spaces \cup {None}
  BY <1>2, HasRequest DEF Request, Who, Space
<1>3. {"workspace", "member", "owner", "password", "jti", "lockout", "verify", "find", "failure",
       "expiry", "lock", "success", "create", "role", "count", "delete"} \subseteq Steps
  BY DEF Steps
<1>4. ASSUME NEW h \in Handlers, OfRequest(h) PROVE TypeOK'
  <2> HIDE DEF Requests, DbTyped, LoginTyped, TokenTyped, CountsTyped
  <2>0. ASSUME NEW step, NEW w, NEW mine,
               Ended(h) \/ Goes(h, step, w, mine)
        PROVE  req' \in Requests
    BY <2>0 DEF Ended, Goes, Others, Requests
  <2>1. ASSUME NEW w \in Spaces, CreateWorkspace(h, w) PROVE TypeOK'
    <3>1. DbTyped
      BY <2>1, Types DEF CreateWorkspace, InsertsSpace, DbTyped
    <3>2. req' \in Requests
      BY <2>0, <2>1, RequestSteps
    <3> QED BY <1>0, <1>1, <2>1, <3>1, <3>2 DEF CreateWorkspace
  <2>2. ASSUME NEW w \in Spaces, CreateForMember(h, w) PROVE TypeOK'
    <3>1. Who(h) \in Emails
      BY <1>2, <1>3, <2>2 DEF CreateForMember, At
    <3>2. DbTyped
      BY <2>2, <3>1, Types DEF CreateForMember, InsertsSpace, DbTyped
    <3>3. req' \in Requests
      BY <2>0, <2>2, CallSteps
    <3> QED BY <1>0, <1>1, <2>2, <3>2, <3>3 DEF CreateForMember
  <2>3. CASE CreateMember(h)
    <3>1. DbTyped
      BY <2>3, Types DEF CreateMember, DbTyped
    <3>2. req' \in Requests
      BY <2>0, <2>3, RequestSteps
    <3> QED BY <1>0, <1>1, <2>3, <3>1, <3>2 DEF CreateMember
  <2>4. CASE UpdateMemberPasswordHash(h)
    <3>1. DbTyped
      BY <2>4, Types DEF UpdateMemberPasswordHash, DbTyped
    <3>2. req' \in Requests
      BY <2>0, <2>4, RequestSteps
    <3> QED BY <1>0, <1>1, <2>4, <3>1, <3>2 DEF UpdateMemberPasswordHash
  <2>5. ASSUME NEW t \in Tokens, StoreJTI(h, t) PROVE TypeOK'
    <3>1. Who(h) \in Emails
      BY <1>2, <1>3, <2>5 DEF StoreJTI, At
    <3>2. TokenTyped
      BY <2>5, <3>1, Types DEF StoreJTI, TokenTyped
    <3>3. req' \in Requests
      BY <2>0, <2>5, RequestSteps
    <3> QED BY <1>0, <1>1, <2>5, <3>2, <3>3 DEF StoreJTI
  <2>6. ASSUME CheckLoginLockout(h) \/ VerifyPassword(h) \/ FindWorkspace(h)
                 \/ CheckAccess(h) \/ CountWorkspaces(h)
        PROVE  TypeOK'
    <3>1. req' \in Requests
      BY <2>0, <2>6, RequestSteps, CallSteps
    <3> QED BY <1>0, <1>1, <2>6, <3>1
            DEF CheckLoginLockout, VerifyPassword, FindWorkspace, CheckAccess, CountWorkspaces
  <2>7. ASSUME RecordLoginFailure(h) \/ ExpireAttempts(h) \/ SetLockout(h)
                 \/ RecordLoginSuccess(h)
        PROVE  TypeOK'
    <3>1. Who(h) \in Emails
      BY <1>2, <1>3, <2>7
         DEF RecordLoginFailure, ExpireAttempts, SetLockout, RecordLoginSuccess, At
    <3>2. fails[Who(h)] \in Keys(LockAfter)
      BY <3>1, Types
    <3>3. fails' \in [Emails -> Keys(LockAfter)]
      BY <2>7, <3>1, <3>2, KeyTypes, Types
         DEF RecordLoginFailure, ExpireAttempts, SetLockout, RecordLoginSuccess
    <3>4. locked' \subseteq Emails
      BY <2>7, <3>1, Types
         DEF RecordLoginFailure, ExpireAttempts, SetLockout, RecordLoginSuccess
    <3>5. req' \in Requests
      BY <2>0, <2>7, RequestSteps
    <3> QED BY <1>0, <1>1, <2>7, <3>3, <3>4, <3>5
            DEF RecordLoginFailure, ExpireAttempts, SetLockout, RecordLoginSuccess, LoginTyped
  <2>8. CASE CreateWorkspaceMember(h)
    <3>1. Who(h) \in Emails /\ Space(h) \in Spaces
      BY <1>2, <1>3, <2>8 DEF CreateWorkspaceMember, At, Placed, Space
    <3>2. DbTyped
      BY <2>8, <3>1, Types DEF CreateWorkspaceMember, DbTyped
    <3>3. req' \in Requests
      BY <2>0, <2>8, RequestSteps
    <3> QED BY <1>0, <1>1, <2>8, <3>2, <3>3 DEF CreateWorkspaceMember
  <2>9. CASE DeleteWorkspace(h)
    <3>1. DbTyped
      BY <2>9, Types DEF DeleteWorkspace, DbTyped
    <3>2. req' \in Requests
      BY <2>0, <2>9, CallSteps
    <3> QED BY <1>0, <1>1, <2>9, <3>1, <3>2 DEF DeleteWorkspace
  <2> QED BY <1>4, <2>1, <2>2, <2>3, <2>4, <2>5, <2>6, <2>7, <2>8, <2>9 DEF OfRequest
<1>5. ASSUME NEW h \in Handlers,
             \/ Stop(h)
             \/ \E e \in Emails : Register(h, e) \/ \E right \in BOOLEAN : Login(h, e, right)
             \/ \E t \in Tokens : \/ Call(h, t, "create", None)
                                  \/ \E w \in Spaces : Call(h, t, "delete", w)
      PROVE  TypeOK'
  <2>1. req' \in Requests
    <3>1. ASSUME NEW e, NEW step, Ended(h) \/ Opened(h, e, step) PROVE req' \in Requests
      BY <3>1 DEF Ended, Opened, Others
    <3> HIDE DEF Requests
    <3> QED BY <1>5, <3>1, CallSteps
  <2>2. CountsTyped
    <3>1. /\ wrong \in 0 .. MaxWrong /\ faults \in 0 .. MaxFaults
          /\ MaxWrong \in Nat /\ MaxFaults \in Nat
      BY Types, AccountsAssumption
    <3>2. CASE Stop(h)
      BY <3>1, <3>2 DEF Stop
    <3>3. ASSUME NEW e \in Emails, NEW right \in BOOLEAN, Login(h, e, right) PROVE CountsTyped
      <4>1. faults' = faults /\ wrong' \in {wrong, wrong + 1}
            /\ (wrong' = wrong + 1 => wrong < MaxWrong \/ wrong' = wrong)
        BY <3>3 DEF Login
      <4> QED BY <3>1, <4>1
    <3>4. ASSUME UNCHANGED counters PROVE CountsTyped
      BY <3>1, <3>4 DEF counters
    <3> HIDE DEF CountsTyped
    <3> QED BY <1>5, <3>2, <3>3, <3>4 DEF Register, Call
  <2> HIDE DEF Requests, DbTyped, LoginTyped, TokenTyped, CountsTyped
  <2> QED BY <1>0, <1>1, <1>5, <2>1, <2>2 DEF Stop, Register, Login, Call, counters
<1>6. CASE OfTime
  <2>1. LoginTyped /\ TokenTyped
    BY <1>6, KeyTypes, Types
       DEF OfTime, AttemptsExpire, LockExpires, TokenExpires, loginVars, tokenVars
  <2> HIDE DEF Requests, DbTyped, LoginTyped, TokenTyped, CountsTyped
  <2> QED BY <1>0, <1>1, <1>6, <2>1 DEF OfTime, AttemptsExpire, LockExpires, TokenExpires
<1>7. CASE RedisGoes \/ RedisReturns
  <2>1. CountsTyped
    <3>1. /\ wrong \in 0 .. MaxWrong /\ faults \in 0 .. MaxFaults
          /\ MaxWrong \in Nat /\ MaxFaults \in Nat
      BY Types, AccountsAssumption
    <3> QED BY <1>7, <3>1 DEF RedisGoes, RedisReturns, counters
  <2> HIDE DEF Requests, DbTyped, LoginTyped, TokenTyped, CountsTyped
  <2> QED BY <1>0, <1>1, <1>7, <2>1 DEF RedisGoes, RedisReturns
<1>8. CASE UNCHANGED vars
  <2> HIDE DEF Requests, DbTyped, LoginTyped, TokenTyped, CountsTyped
  <2> QED BY <1>0, <1>1, <1>8 DEF vars
<1> HIDE DEF Requests, DbTyped, LoginTyped, TokenTyped, CountsTyped
<1> QED BY <1>4, <1>5, <1>6, <1>7, <1>8 DEF Next

\* Only CreateWorkspace brings a registration to where it must know one.
LEMMA NextPlaced == TypeOK /\ Placed /\ [Next]_vars => Placed'
<1> SUFFICES ASSUME TypeOK, Placed, [Next]_vars PROVE Placed'
  OBVIOUS
<1>1. ASSUME NEW h \in Handlers, NEW step, NEW w, NEW mine, NEW e,
             \/ Ended(h)
             \/ Goes(h, step, w, mine) /\ (step \in {"member", "owner"} => w \in Spaces)
             \/ Opened(h, e, step) /\ step \notin {"member", "owner"}
      PROVE  Placed'
  BY <1>1 DEF Ended, Goes, Opened, Others, Placed, Idle
<1>2. ASSUME NEW h \in Handlers, OfRequest(h) PROVE Placed'
  <2>1. ASSUME CreateMember(h) PROVE Placed'
    <3>1. req[h].space \in Spaces
      BY <2>1 DEF CreateMember, At, Placed
    <3> QED BY <1>1, <2>1, <3>1, RequestSteps
  <2>2. ASSUME NEW step \in {"verify", "find", "failure", "success", "jti", "expiry", "lock",
                             "password", "count", "delete"},
               NEW w, NEW mine, Goes(h, step, w, mine)
        PROVE  Placed'
    BY <1>1, <2>2
  <2>3. ASSUME NEW w \in Spaces, NEW mine, Goes(h, "member", w, mine) PROVE Placed'
    BY <1>1, <2>3
  <2>4. ASSUME Ended(h) PROVE Placed'
    BY <1>1, <2>4
  <2> HIDE DEF Placed
  <2>5. ASSUME CreateWorkspaceMember(h) \/ UpdateMemberPasswordHash(h) \/ RecordLoginSuccess(h)
        PROVE  Placed'
    BY <2>2, <2>5, RequestSteps
  <2>6. ASSUME CheckLoginLockout(h) \/ VerifyPassword(h) \/ FindWorkspace(h)
                 \/ RecordLoginFailure(h) \/ ExpireAttempts(h) \/ SetLockout(h)
        PROVE  Placed'
    BY <2>2, <2>4, <2>6, RequestSteps
  <2>7. ASSUME CheckAccess(h) \/ CountWorkspaces(h) \/ DeleteWorkspace(h) PROVE Placed'
    BY <2>2, <2>4, <2>7, CallSteps
  <2>8. ASSUME NEW w \in Spaces, CreateWorkspace(h, w) PROVE Placed'
    BY <2>3, <2>8, RequestSteps
  <2>9. ASSUME NEW w \in Spaces, CreateForMember(h, w) PROVE Placed'
    BY <2>4, <2>9, CallSteps
  <2>10. ASSUME NEW t \in Tokens, StoreJTI(h, t) PROVE Placed'
    BY <2>4, <2>10, RequestSteps
  <2> QED BY <1>2, <2>1, <2>5, <2>6, <2>7, <2>8, <2>9, <2>10 DEF OfRequest
<1>3. ASSUME NEW h \in Handlers,
             \/ Stop(h)
             \/ \E e \in Emails : Register(h, e) \/ \E right \in BOOLEAN : Login(h, e, right)
             \/ \E t \in Tokens : \/ Call(h, t, "create", None)
                                  \/ \E w \in Spaces : Call(h, t, "delete", w)
      PROVE  Placed'
  BY <1>1, <1>3, CallSteps
<1>4. ASSUME UNCHANGED req PROVE Placed'
  BY <1>4 DEF Placed
<1> QED BY <1>2, <1>3, <1>4
        DEF Next, OfTime, AttemptsExpire, LockExpires, TokenExpires, RedisGoes, RedisReturns, vars

\* At the start nobody is there and no handler does anything.
LEMMA InitTyped == Init => TypeOK /\ Placed
<1> SUFFICES ASSUME Init PROVE TypeOK /\ Placed
  OBVIOUS
<1>1. MaxWrong \in Nat /\ MaxFaults \in Nat /\ NoKey \in Keys(LockAfter)
  BY AccountsAssumption DEF NoKey, Keys
<1>2. TypeOK
  BY <1>1, Types DEF Init
<1> QED BY <1>2 DEF Init, Placed, Idle

\* Every row, key and request keeps its type.
THEOREM TypeCorrect == Spec => []TypeOK
<1>1. Init => TypeOK /\ Placed
  BY InitTyped
<1>2. TypeOK /\ Placed /\ [Next]_vars => (TypeOK /\ Placed)'
  BY NextTypeOK, NextPlaced
<1> QED BY <1>1, <1>2, PTL DEF Spec

-----------------------------------------------------------------------------
(* Who has a password has a workspace.                                     *)

Typed == TypeOK /\ Placed

Joining(h) == req[h].step \in {"owner", "password"}
Holding(h) == req[h].step \in {"member", "owner"}
Leaving(h) == req[h].step \in {"count", "delete"}
ForMembers == {"jti", "find", "success", "create", "role", "count", "delete"}

\* A token, and whatever only those who have a password can ask for, is with
\* members who have one.
Insiders ==
  /\ \A t \in Tokens : holder[t] # None => members[holder[t]] = "ready"
  /\ \A h \in Handlers :
       req[h].step \in ForMembers => members[Who(h)] = "ready"

\* One registration at most is past the row of the member, who has no password yet.
OneJoins ==
  /\ \A h \in Handlers : Joining(h) => members[Who(h)] = "bare"
  /\ \A h, g \in Handlers : Joining(h) /\ Joining(g) /\ Who(h) = Who(g) => h = g

\* A workspace has one owner, and none while its registration has not come to
\* that row.
OneOwner ==
  /\ \A row \in owners : spaces[row[1]] # "unused"
  /\ \A row, other \in owners : row[1] = other[1] => row = other
  /\ \A h \in Handlers : Holding(h) =>
       /\ spaces[Space(h)] # "unused"
       /\ \A row \in owners : row[1] # Space(h)
  /\ \A h, g \in Handlers : Holding(h) /\ Holding(g) /\ Space(h) = Space(g) => h = g

\* A workspace that is about to go has no other owner than who asked for it.
OwnWorkspace ==
  \A h \in Handlers : Leaving(h) =>
    /\ Space(h) \in Spaces /\ spaces[Space(h)] # "unused"
    /\ \A row \in owners : row[1] = Space(h) => row[2] = Who(h)
    /\ \A g \in Handlers : Holding(g) => Space(g) # Space(h)

\* The row of the owner stays there until his password does.
Housed ==
  \A h \in Handlers : At(h, "password") => <<Space(h), Who(h)>> \in owners

\* A workspace goes only if there was another one when they were counted.
Seen ==
  \A h \in Handlers :
    At(h, "delete") => req[h].seen \subseteq Spaces /\ Cardinality(req[h].seen) > 1

Strong == Insiders /\ OneJoins /\ OneOwner /\ OwnWorkspace /\ Housed /\ Seen

\* A step that leaves the tables alone, brings no handler to where one of the
\* invariants is about it, and nothing to who has no password.
Plain ==
  /\ UNCHANGED dbVars
  /\ \A t \in Tokens : holder'[t] # None => members[holder'[t]] = "ready"
  /\ \A h \in Handlers :
       \/ req'[h] = req[h]
       \/ /\ req'[h].step \notin {"member", "owner", "password", "count", "delete"}
          /\ req'[h].step \in ForMembers => members[req'[h].who] = "ready"

\* A plain step is about none of the invariants.
LEMMA PlainKeeps == Strong /\ Plain => Strong'
<1> SUFFICES ASSUME Strong, Plain PROVE Strong'
  OBVIOUS
<1>1. Insiders'
  BY DEF Strong, Plain, Insiders, Who, dbVars
<1>2. \A h \in Handlers :
        /\ Joining(h)' \/ Holding(h)' \/ Leaving(h)' \/ At(h, "password")' \/ At(h, "delete")'
             => req'[h] = req[h]
  BY DEF Plain, Joining, Holding, Leaving, At
<1>3. OneJoins'
  BY <1>2 DEF Strong, Plain, OneJoins, Joining, Who, dbVars
<1>4. OneOwner'
  BY <1>2 DEF Strong, Plain, OneOwner, Holding, Space, dbVars
<1>5. OwnWorkspace'
  BY <1>2 DEF Strong, Plain, OwnWorkspace, Holding, Leaving, Space, Who, dbVars
<1>6. Housed' /\ Seen'
  BY <1>2 DEF Strong, Plain, Housed, Seen, At, Space, Who, dbVars
<1> QED BY <1>1, <1>3, <1>4, <1>5, <1>6 DEF Strong

\* How most requests go on.
LEMMA PlainRequests ==
  ASSUME Typed, Insiders, NEW h \in Handlers,
         \/ \E t \in Tokens : StoreJTI(h, t)
         \/ CheckLoginLockout(h)
         \/ VerifyPassword(h)
         \/ FindWorkspace(h)
         \/ RecordLoginFailure(h)
         \/ ExpireAttempts(h)
         \/ SetLockout(h)
         \/ RecordLoginSuccess(h)
         \/ Stop(h)
         \/ \E e \in Emails : Register(h, e) \/ \E right \in BOOLEAN : Login(h, e, right)
         \/ \E t \in Tokens : \/ Call(h, t, "create", None)
                              \/ \E w \in Spaces : Call(h, t, "delete", w)
  PROVE  Plain
<1> DEFINE Special == {"member", "owner", "password", "count", "delete"}
<1>0. TypeOK
  BY DEF Typed
<1>1. ASSUME NEW step, NEW e, step \notin Special, step \in ForMembers => members[e] = "ready",
             \/ Ended(h)
             \/ Goes(h, step, req[h].space, req[h].seen) /\ e = req[h].who
             \/ Opened(h, e, step),
             UNCHANGED dbVars,
             \A t \in Tokens : holder'[t] # None => members[holder'[t]] = "ready"
      PROVE  Plain
  BY <1>1 DEF Plain, Ended, Goes, Opened, Others, Idle, ForMembers
<1>2. \A t \in Tokens : holder[t] # None => members[holder[t]] = "ready"
  BY DEF Insiders
<1>3. ASSUME NEW t \in Tokens, StoreJTI(h, t) PROVE Plain
  <2>1. members[Who(h)] = "ready"
    BY <1>3 DEF StoreJTI, At, Insiders, ForMembers
  <2>2. \A u \in Tokens : holder'[u] # None => members[holder'[u]] = "ready"
    BY <1>0, <1>2, <1>3, <2>1, Types DEF StoreJTI
  <2>3. Ended(h)
    BY <1>0, <1>3, RequestSteps
  <2>4. "idle" \notin Special /\ "idle" \notin ForMembers
    BY DEF ForMembers
  <2> QED BY <1>1, <1>3, <2>2, <2>3, <2>4 DEF StoreJTI
<1>4. CASE CheckLoginLockout(h)
  <2>1. "verify" \notin Special /\ "verify" \notin ForMembers
    BY DEF ForMembers
  <2> QED BY <1>0, <1>1, <1>2, <1>4, <2>1, RequestSteps DEF CheckLoginLockout, tokenVars
<1>5. CASE VerifyPassword(h)
  <2>1. PICK step \in {"find", "failure"} : Goes(h, step, req[h].space, req[h].seen)
    BY <1>0, <1>5, RequestSteps
  <2>2. step \notin Special /\ "failure" \notin ForMembers
    BY DEF ForMembers
  <2>3. step = "find" => members[Who(h)] = "ready"
    <3>1. h \in Handlers /\ req \in [Handlers -> Request \cup {Idle}]
      BY <1>0, Types
    <3>2. Moves(h, IF members[Who(h)] = "ready" /\ req[h].right THEN "find" ELSE "failure")
      BY <1>5 DEF VerifyPassword
    <3>3. ASSUME members[Who(h)] # "ready" PROVE req'[h].step = "failure"
      <4>1. Goes(h, "failure", req[h].space, req[h].seen)
        BY <1>0, <1>5, <3>2, <3>3, RequestMoves DEF VerifyPassword, At, Steps
      <4> QED BY <4>1 DEF Goes
    <3> QED BY <2>1, <3>3 DEF Goes
  <2> QED BY <1>1, <1>2, <1>5, <2>1, <2>2, <2>3 DEF VerifyPassword, tokenVars, Who
<1>6. CASE FindWorkspace(h)
  <2>1. members[Who(h)] = "ready"
    BY <1>6 DEF FindWorkspace, At, Insiders, ForMembers
  <2>2. PICK step \in {"success", "failure"} : Goes(h, step, req[h].space, req[h].seen)
    BY <1>0, <1>6, RequestSteps
  <2> QED BY <1>1, <1>2, <1>6, <2>1, <2>2 DEF FindWorkspace, tokenVars, Who
<1>7. CASE RecordLoginFailure(h)
  <2>1. \A step \in {"expiry", "lock"} : step \notin Special /\ step \notin ForMembers
    BY DEF ForMembers
  <2> QED BY <1>0, <1>1, <1>2, <1>7, <2>1, RequestSteps DEF RecordLoginFailure, tokenVars
<1>8. ASSUME Ended(h), UNCHANGED <<dbVars, holder>> PROVE Plain
  <2>1. "idle" \notin Special /\ "idle" \notin ForMembers
    BY DEF ForMembers
  <2> QED BY <1>1, <1>2, <1>8, <2>1
<1>9. CASE ExpireAttempts(h) \/ SetLockout(h) \/ Stop(h)
  BY <1>0, <1>8, <1>9, RequestSteps, CallSteps DEF ExpireAttempts, SetLockout, Stop, tokenVars
<1>10. CASE RecordLoginSuccess(h)
  <2>1. members[Who(h)] = "ready"
    BY <1>10 DEF RecordLoginSuccess, At, Insiders, ForMembers
  <2>2. Goes(h, "jti", req[h].space, req[h].seen)
    BY <1>0, <1>10, RequestSteps
  <2> QED BY <1>1, <1>2, <1>10, <2>1, <2>2 DEF RecordLoginSuccess, tokenVars, Who
<1>11. ASSUME NEW e \in Emails, NEW right \in BOOLEAN, Register(h, e) \/ Login(h, e, right)
       PROVE  Plain
  <2>1. \A step \in {"workspace", "lockout"} : step \notin Special /\ step \notin ForMembers
    BY DEF ForMembers
  <2>2. PICK step \in {"workspace", "lockout"} : Opened(h, e, step)
    BY <1>0, <1>11, CallSteps
  <2> QED BY <1>1, <1>2, <1>11, <2>1, <2>2 DEF Register, Login, tokenVars
<1>12. ASSUME NEW t \in Tokens,
              Call(h, t, "create", None) \/ \E w \in Spaces : Call(h, t, "delete", w)
       PROVE  Plain
  <2>1. members[holder[t]] = "ready" /\ UNCHANGED <<dbVars, holder>>
    BY <1>2, <1>12 DEF Call, tokenVars
  <2>2. PICK step \in {"create", "role"} : Opened(h, holder[t], step)
    BY <1>0, <1>12, CallSteps
  <2> QED BY <1>1, <1>2, <2>1, <2>2
<1> QED BY <1>3, <1>4, <1>5, <1>6, <1>7, <1>9, <1>10, <1>11, <1>12

\* What is not a request.
LEMMA PlainRest ==
  ASSUME Typed, Insiders, OfTime \/ RedisGoes \/ RedisReturns \/ UNCHANGED vars
  PROVE  Plain
<1>1. UNCHANGED <<dbVars, req>>
  BY DEF OfTime, AttemptsExpire, LockExpires, TokenExpires, RedisGoes, RedisReturns, vars
<1>2. \A t \in Tokens : holder'[t] \in {holder[t], None}
  BY Types DEF OfTime, AttemptsExpire, LockExpires, TokenExpires, RedisGoes, RedisReturns, vars,
               tokenVars, Typed
<1> QED BY <1>1, <1>2 DEF Plain, Insiders

\* What the invariants say of one handler, and of two, for the steps that do
\* matter to them.
LEMMA RegistrationKeeps ==
  ASSUME Typed, Strong, NEW h \in Handlers,
         \/ \E w \in Spaces : CreateWorkspace(h, w)
         \/ CreateMember(h)
         \/ CreateWorkspaceMember(h)
         \/ UpdateMemberPasswordHash(h)
  PROVE  Strong'
<1> USE DEF Who, Space
<1>0. /\ TypeOK /\ Insiders /\ OneJoins /\ OneOwner /\ OwnWorkspace /\ Housed /\ Seen
      /\ members \in [Emails -> {"absent", "bare", "ready"}]
      /\ spaces \in [Spaces -> {"unused", "there", "deleted"}]
      /\ owners \subseteq Spaces \X Emails
      /\ holder \in [Tokens -> Emails \cup {None}] /\ None \notin Emails
      /\ \A g \in Handlers : req[g].step \in Steps => req[g].who \in Emails
  BY Types, HasRequest, AccountsAssumption DEF Typed, Strong, Request
<1>1. ASSUME NEW w \in Spaces, CreateWorkspace(h, w) PROVE Strong'
  <2>1. /\ Others(h) /\ req'[h].step = "member" /\ req'[h].space = w
        /\ members' = members /\ owners' = owners /\ holder' = holder
        /\ spaces[w] = "unused" /\ spaces' = [spaces EXCEPT ![w] = "there"]
    BY <1>0, <1>1, RequestSteps DEF CreateWorkspace, InsertsSpace, Goes, tokenVars
  <2>2. \A v \in Spaces : spaces[v] # "unused" => spaces'[v] # "unused" /\ v # w
    BY <1>0, <2>1
  <2>3. Insiders' /\ OneJoins' /\ Housed' /\ Seen'
    BY <1>0, <2>1 DEF Others, Insiders, OneJoins, Joining, Housed, Seen, At, ForMembers
  <2>4. \A g \in Handlers : Holding(g) => req[g].space \in Spaces /\ spaces[req[g].space] # "unused"
    BY <1>0 DEF OneOwner, Typed, Placed, Holding
  <2>5. OneOwner'
    <3>1. \A row \in owners : row[1] \in Spaces
      BY <1>0
    <3>2. spaces'[w] # "unused" /\ \A row \in owners : row[1] # w
      BY <1>0, <2>1, <2>2, <3>1 DEF OneOwner
    <3>3. ASSUME NEW g \in Handlers, Holding(g)'
          PROVE  /\ spaces'[req'[g].space] # "unused"
                 /\ \A row \in owners : row[1] # req'[g].space
      BY <1>0, <2>1, <2>2, <2>4, <3>2, <3>3 DEF Others, OneOwner, Holding
    <3>4. ASSUME NEW g \in Handlers, NEW k \in Handlers, Holding(g)', Holding(k)',
                 req'[g].space = req'[k].space
          PROVE  g = k
      BY <1>0, <2>1, <2>2, <2>4, <3>4 DEF Others, OneOwner, Holding
    <3>5. /\ \A row \in owners : spaces'[row[1]] # "unused"
          /\ \A row, other \in owners : row[1] = other[1] => row = other
      BY <1>0, <2>2, <3>1 DEF OneOwner
    <3> QED BY <2>1, <3>3, <3>4, <3>5 DEF OneOwner
  <2>6. OwnWorkspace'
    <3>1. ASSUME NEW g \in Handlers, Leaving(g)'
          PROVE  /\ req'[g] = req[g] /\ Leaving(g)
                 /\ req[g].space \in Spaces /\ spaces'[req[g].space] # "unused" /\ req[g].space # w
                 /\ \A row \in owners : row[1] = req[g].space => row[2] = req[g].who
      BY <1>0, <2>1, <2>2, <3>1 DEF Others, OwnWorkspace, Leaving
    <3>2. ASSUME NEW g \in Handlers, Leaving(g)', NEW k \in Handlers, Holding(k)'
          PROVE  req'[k].space # req'[g].space
      BY <1>0, <2>1, <3>1, <3>2 DEF Others, OwnWorkspace, Holding
    <3> QED BY <2>1, <3>1, <3>2 DEF OwnWorkspace
  <2> QED BY <2>3, <2>5, <2>6 DEF Strong
<1>2. CASE CreateMember(h)
  <2>1. CASE members[req[h].who] = "absent"
    <3>1. /\ Goes(h, "owner", req[h].space, req[h].seen)
          /\ members' = [members EXCEPT ![req[h].who] = "bare"]
          /\ spaces' = spaces /\ owners' = owners /\ holder' = holder
          /\ req[h].step = "member" /\ req[h].who \in Emails
      BY <1>0, <1>2, <2>1, RequestMoves DEF CreateMember, At, Steps, tokenVars
    <3>2. /\ Others(h) /\ req'[h].step = "owner" /\ req'[h].space = req[h].space
          /\ req'[h].who = req[h].who
      BY <3>1 DEF Goes
    <3>3. \A e \in Emails : members[e] # "absent" => members'[e] = members[e] /\ e # req[h].who
      BY <1>0, <2>1, <3>1
    <3>4. Insiders'
      BY <1>0, <3>1, <3>2, <3>3 DEF Others, Insiders, ForMembers, Steps
    <3>5. OneJoins'
      BY <1>0, <3>1, <3>2, <3>3 DEF Others, OneJoins, Joining, Steps
    <3>6. OneOwner' /\ OwnWorkspace'
      BY <1>0, <3>1, <3>2 DEF Others, OneOwner, OwnWorkspace, Holding, Leaving
    <3>7. Housed' /\ Seen'
      BY <1>0, <3>1, <3>2 DEF Others, Housed, Seen, At
    <3> QED BY <3>4, <3>5, <3>6, <3>7 DEF Strong
  <2>2. CASE members[req[h].who] # "absent"
    <3>1. Ended(h) /\ UNCHANGED <<dbVars, holder>>
      BY <1>0, <1>2, <2>2, RequestEnds DEF CreateMember, dbVars, tokenVars
    <3>2. Plain
      BY <1>0, <3>1 DEF Plain, Ended, Others, Idle, ForMembers, Insiders
    <3> QED BY <3>2, PlainKeeps
  <2> QED BY <2>1, <2>2
<1>3. CASE CreateWorkspaceMember(h)
  <2>1. /\ Goes(h, "password", req[h].space, req[h].seen)
        /\ owners' = owners \cup {<<req[h].space, req[h].who>>}
        /\ spaces' = spaces /\ members' = members /\ holder' = holder
        /\ req[h].step = "owner" /\ req[h].space \in Spaces
    BY <1>0, <1>3, RequestSteps DEF CreateWorkspaceMember, At, tokenVars, Typed, Placed
  <2>2. /\ Others(h) /\ req'[h].step = "password" /\ req'[h].space = req[h].space
        /\ req'[h].who = req[h].who
    BY <2>1 DEF Goes
  <2>3. Insiders' /\ OneJoins'
    BY <1>0, <2>1, <2>2 DEF Others, Insiders, OneJoins, Joining, ForMembers
  <2>4. /\ spaces[req[h].space] # "unused" /\ \A row \in owners : row[1] # req[h].space
        /\ \A g \in Handlers : Holding(g) /\ req[g].space = req[h].space => g = h
    BY <1>0, <2>1 DEF OneOwner, Holding
  <2>5. OneOwner'
    BY <1>0, <2>1, <2>2, <2>4 DEF Others, OneOwner, Holding
  <2>6. OwnWorkspace'
    BY <1>0, <2>1, <2>2, <2>4 DEF Others, OwnWorkspace, Holding, Leaving
  <2>7. Housed' /\ Seen'
    BY <1>0, <2>1, <2>2 DEF Others, Housed, Seen, At
  <2> QED BY <2>3, <2>5, <2>6, <2>7 DEF Strong
<1>4. CASE UpdateMemberPasswordHash(h)
  <2>1. /\ Goes(h, "jti", req[h].space, req[h].seen)
        /\ members' = [members EXCEPT ![req[h].who] = "ready"]
        /\ spaces' = spaces /\ owners' = owners /\ holder' = holder
        /\ req[h].step = "password" /\ req[h].who \in Emails
    BY <1>0, <1>4, RequestSteps DEF UpdateMemberPasswordHash, At, Steps, tokenVars
  <2>2. /\ Others(h) /\ req'[h].step = "jti" /\ req'[h].space = req[h].space
        /\ req'[h].who = req[h].who
    BY <2>1 DEF Goes
  <2>3. \A e \in Emails : members'[e] = IF e = req[h].who THEN "ready" ELSE members[e]
    BY <1>0, <2>1
  <2>4. Insiders'
    BY <1>0, <2>1, <2>2, <2>3 DEF Others, Insiders, ForMembers, Steps
  <2>5. OneJoins'
    BY <1>0, <2>1, <2>2, <2>3 DEF Others, OneJoins, Joining, Steps
  <2>6. OneOwner' /\ OwnWorkspace' /\ Housed' /\ Seen'
    BY <1>0, <2>1, <2>2
       DEF Others, OneOwner, OwnWorkspace, Housed, Seen, Holding, Leaving, At
  <2> QED BY <2>4, <2>5, <2>6 DEF Strong
<1> QED BY <1>1, <1>2, <1>3, <1>4

\* A workspace that is made has had no owner; one that goes takes its own rows
\* only, and none that a registration counts on.
LEMMA WorkspaceKeeps ==
  ASSUME Typed, Strong, NEW h \in Handlers,
         \/ \E w \in Spaces : CreateForMember(h, w)
         \/ CheckAccess(h)
         \/ CountWorkspaces(h)
         \/ DeleteWorkspace(h)
  PROVE  Strong'
<1> USE DEF Who, Space
<1>0. /\ TypeOK /\ Insiders /\ OneJoins /\ OneOwner /\ OwnWorkspace /\ Housed /\ Seen
      /\ spaces \in [Spaces -> {"unused", "there", "deleted"}]
      /\ owners \subseteq Spaces \X Emails
      /\ \A g \in Handlers : Holding(g) => req[g].space \in Spaces
  BY Types DEF Typed, Placed, Holding, Strong
<1>1. ASSUME Ended(h), UNCHANGED <<dbVars, holder>> PROVE Strong'
  <2>1. Plain
    BY <1>0, <1>1 DEF Plain, Ended, Others, Idle, ForMembers, Insiders
  <2> QED BY <2>1, PlainKeeps
<1>2. ASSUME NEW w \in Spaces, CreateForMember(h, w) PROVE Strong'
  <2>1. /\ Others(h) /\ req'[h].step = "idle"
        /\ members' = members /\ holder' = holder
        /\ owners' = owners \cup {<<w, req[h].who>>}
        /\ spaces[w] = "unused" /\ spaces' = [spaces EXCEPT ![w] = "there"]
    <3>1. Ended(h)
      BY <1>0, <1>2, CallSteps
    <3>2. Others(h) /\ req'[h].step = "idle"
      BY <3>1 DEF Ended, Idle
    <3> QED BY <1>2, <3>2 DEF CreateForMember, InsertsSpace, tokenVars
  <2>2. /\ \A v \in Spaces : spaces[v] # "unused" => spaces'[v] # "unused" /\ v # w
        /\ spaces'[w] # "unused"
    BY <1>0, <2>1
  <2>3. \A row \in owners : row[1] \in Spaces /\ row[1] # w /\ spaces'[row[1]] # "unused"
    BY <1>0, <2>2 DEF OneOwner
  <2>4. \A g \in Handlers : Holding(g) => req[g].space # w /\ spaces'[req[g].space] # "unused"
    BY <1>0, <2>2 DEF OneOwner
  <2>5. \A g \in Handlers : Leaving(g) => req[g].space # w /\ spaces'[req[g].space] # "unused"
    BY <1>0, <2>2 DEF OwnWorkspace
  <2>6. Insiders' /\ OneJoins' /\ Housed' /\ Seen'
    BY <1>0, <2>1 DEF Others, Insiders, OneJoins, Joining, Housed, Seen, At, ForMembers
  <2>7. OneOwner'
    BY <1>0, <2>1, <2>2, <2>3, <2>4 DEF Others, OneOwner, Holding
  <2>8. OwnWorkspace'
    BY <1>0, <2>1, <2>5 DEF Others, OwnWorkspace, Holding, Leaving
  <2> QED BY <2>6, <2>7, <2>8 DEF Strong
<1>3. CASE CheckAccess(h)
  <2>1. CASE <<req[h].space, req[h].who>> \in owners
    <3>1. /\ Goes(h, "count", req[h].space, req[h].seen) /\ UNCHANGED <<dbVars, holder>>
          /\ members[req[h].who] = "ready"
      BY <1>0, <1>3, <2>1, RequestMoves DEF CheckAccess, At, Steps, tokenVars, Insiders, ForMembers
    <3>2. /\ Others(h) /\ req'[h].step = "count" /\ req'[h].space = req[h].space
          /\ req'[h].who = req[h].who
          /\ members' = members /\ spaces' = spaces /\ owners' = owners
      BY <3>1 DEF Goes, dbVars
    <3>3. /\ req[h].space \in Spaces /\ spaces[req[h].space] # "unused"
          /\ \A row \in owners : row[1] = req[h].space => row[2] = req[h].who
          /\ \A g \in Handlers : Holding(g) => req[g].space # req[h].space
      BY <1>0, <2>1 DEF OneOwner
    <3>4. Insiders' /\ OneJoins' /\ OneOwner' /\ Housed' /\ Seen'
      BY <1>0, <3>1, <3>2
         DEF Others, Insiders, OneJoins, Joining, OneOwner, Holding, Housed, Seen, At
    <3>5. OwnWorkspace'
      BY <1>0, <3>2, <3>3 DEF Others, OwnWorkspace, Leaving, Holding
    <3> QED BY <3>4, <3>5 DEF Strong
  <2>2. CASE <<req[h].space, req[h].who>> \notin owners
    BY <1>0, <1>1, <1>3, <2>2, RequestEnds DEF CheckAccess, tokenVars
  <2> QED BY <2>1, <2>2
<1>4. CASE CountWorkspaces(h)
  <2>1. CASE spaces[req[h].space] = "there" /\ Cardinality(Owned(req[h].who)) > 1
    <3>1. Owned(req[h].who) \in SUBSET Spaces
      BY DEF Owned
    <3>2. /\ Goes(h, "delete", req[h].space, Owned(req[h].who)) /\ UNCHANGED <<dbVars, holder>>
          /\ req[h].step = "count"
      BY <1>0, <1>4, <2>1, <3>1, RequestMoves DEF CountWorkspaces, At, Steps, tokenVars
    <3>3. /\ Others(h) /\ req'[h].step = "delete" /\ req'[h].space = req[h].space
          /\ req'[h].who = req[h].who /\ req'[h].seen = Owned(req[h].who)
          /\ members' = members /\ spaces' = spaces /\ owners' = owners
      BY <3>2 DEF Goes, dbVars
    <3>4. members[req[h].who] = "ready"
      BY <1>0, <3>2 DEF Insiders, ForMembers
    <3>5. Insiders' /\ OneJoins' /\ OneOwner' /\ Housed'
      BY <1>0, <3>2, <3>3, <3>4
         DEF Others, Insiders, OneJoins, Joining, OneOwner, Holding, Housed, At
    <3>6. OwnWorkspace'
      BY <1>0, <3>2, <3>3 DEF Others, OwnWorkspace, Leaving, Holding
    <3>7. Seen'
      BY <1>0, <2>1, <3>1, <3>3 DEF Others, Seen, At
    <3> QED BY <3>5, <3>6, <3>7 DEF Strong
  <2>2. CASE ~ (spaces[req[h].space] = "there" /\ Cardinality(Owned(req[h].who)) > 1)
    BY <1>0, <1>1, <1>4, <2>2, RequestEnds DEF CountWorkspaces, tokenVars
  <2> QED BY <2>1, <2>2
<1>5. CASE DeleteWorkspace(h)
  <2>1. /\ Others(h) /\ req'[h].step = "idle" /\ req[h].step = "delete"
        /\ members' = members /\ holder' = holder
        /\ owners' = {row \in owners : row[1] # req[h].space}
        /\ spaces' = [spaces EXCEPT ![req[h].space] = "deleted"]
    <3>1. Ended(h)
      BY <1>0, <1>5, CallSteps
    <3>2. Others(h) /\ req'[h].step = "idle"
      BY <3>1 DEF Ended, Idle
    <3> QED BY <1>5, <3>2 DEF DeleteWorkspace, At, tokenVars
  <2>2. \A v \in Spaces : spaces[v] # "unused" => spaces'[v] # "unused"
    BY <1>0, <2>1
  <2>3. Insiders' /\ OneJoins' /\ Seen'
    BY <1>0, <2>1 DEF Others, Insiders, OneJoins, Joining, Seen, At, ForMembers
  <2>4. OneOwner' /\ OwnWorkspace'
    <3>1. \A row \in owners' : row \in owners /\ row[1] \in Spaces /\ spaces'[row[1]] # "unused"
      BY <1>0, <2>1, <2>2 DEF OneOwner
    <3> QED BY <1>0, <2>1, <2>2, <3>1 DEF Others, OneOwner, OwnWorkspace, Holding, Leaving
  <2>5. ASSUME NEW g \in Handlers, req'[g].step = "password"
        PROVE  <<req'[g].space, req'[g].who>> \in owners'
    <3>1. req'[g] = req[g] /\ <<req[g].space, req[g].who>> \in owners
      BY <1>0, <2>1, <2>5 DEF Others, Housed, At
    <3>2. members[req[g].who] = "bare" /\ members[req[h].who] = "ready"
      BY <1>0, <2>1, <2>5, <3>1 DEF OneJoins, Joining, Insiders, ForMembers
    <3>3. req[g].space # req[h].space
      BY <1>0, <2>1, <3>1, <3>2 DEF OwnWorkspace, Leaving
    <3> QED BY <2>1, <3>1, <3>3
  <2>6. Housed'
    BY <2>5 DEF Housed, At
  <2> QED BY <2>3, <2>4, <2>6 DEF Strong
<1> QED BY <1>2, <1>3, <1>4, <1>5

\* Every step is a plain one or one of the eight above.
LEMMA NextStrong == Typed /\ Strong /\ [Next]_vars => Strong'
<1> SUFFICES ASSUME Typed, Strong, [Next]_vars PROVE Strong'
  OBVIOUS
<1>0. Insiders
  BY DEF Strong
<1>1. ASSUME NEW h \in Handlers, OfRequest(h) PROVE Strong'
  <2>1. CASE \/ \E w \in Spaces : CreateWorkspace(h, w)
             \/ CreateMember(h)
             \/ CreateWorkspaceMember(h)
             \/ UpdateMemberPasswordHash(h)
    BY <2>1, RegistrationKeeps
  <2>2. CASE \/ \E w \in Spaces : CreateForMember(h, w)
             \/ CheckAccess(h)
             \/ CountWorkspaces(h)
             \/ DeleteWorkspace(h)
    BY <2>2, WorkspaceKeeps
  <2>3. ASSUME ~ \E w \in Spaces : CreateWorkspace(h, w) \/ CreateForMember(h, w),
               ~ CreateMember(h), ~ CreateWorkspaceMember(h), ~ UpdateMemberPasswordHash(h),
               ~ CheckAccess(h), ~ CountWorkspaces(h), ~ DeleteWorkspace(h)
        PROVE  Strong'
    <3>1. Plain
      BY <1>0, <1>1, <2>3, PlainRequests DEF OfRequest
    <3> QED BY <3>1, PlainKeeps
  <2> QED BY <2>1, <2>2, <2>3
<1>2. ASSUME NEW h \in Handlers,
             \/ Stop(h)
             \/ \E e \in Emails : Register(h, e) \/ \E right \in BOOLEAN : Login(h, e, right)
             \/ \E t \in Tokens : \/ Call(h, t, "create", None)
                                  \/ \E w \in Spaces : Call(h, t, "delete", w)
      PROVE  Strong'
  <2>1. Plain
    BY <1>0, <1>2, PlainRequests
  <2> QED BY <2>1, PlainKeeps
<1>3. ASSUME OfTime \/ RedisGoes \/ RedisReturns \/ UNCHANGED vars PROVE Strong'
  <2>1. Plain
    BY <1>0, <1>3, PlainRest
  <2> QED BY <2>1, PlainKeeps
<1> QED BY <1>1, <1>2, <1>3 DEF Next

\* At the start there is nothing to say anything of.
LEMMA InitStrong == Init => Strong
<1> SUFFICES ASSUME Init PROVE Strong
  OBVIOUS
<1>1. \A h \in Handlers : req[h].step = "idle"
  BY DEF Init, Idle
<1>2. owners = {} /\ \A t \in Tokens : holder[t] = None
  BY DEF Init
<1> QED BY <1>1, <1>2 DEF Strong, Insiders, OneJoins, OneOwner, OwnWorkspace, Housed, Seen,
                          Joining, Holding, Leaving, At, ForMembers

\* What is deleted was not the last workspace that was counted.
LEMMA OthersWereSeen ==
  ASSUME Typed, Seen, NEW h \in Handlers, At(h, "delete"), NEW w
  PROVE  \E v \in req[h].seen : v # w
<1>1. req[h].seen \subseteq Spaces /\ Cardinality(req[h].seen) > 1
  BY DEF Seen
<1>2. IsFiniteSet(req[h].seen)
  BY <1>1, FS_Subset, AccountsAssumption
<1>3. SUFFICES ASSUME req[h].seen \subseteq {w} PROVE FALSE
  OBVIOUS
<1>4. IsFiniteSet({w}) /\ Cardinality({w}) = 1
  BY FS_Singleton
<1>5. Cardinality(req[h].seen) <= 1 /\ Cardinality(req[h].seen) \in Nat
  BY <1>2, <1>3, <1>4, FS_Subset, FS_CardinalityType
<1> QED BY <1>1, <1>5

\* A member loses his last row of owners by DeleteWorkspace only, and then the
\* others that were counted have gone already.
LEMMA StrandingStep ==
  ASSUME Typed, Strong, [Next]_vars,
         NEW e \in Stranded(members', owners') \ Stranded(members, owners)
  PROVE  \E h \in Handlers : At(h, "delete") /\ Who(h) = e /\ req[h].seen # Owned(e)
<1> DEFINE Found == \E h \in Handlers : At(h, "delete") /\ Who(h) = e /\ req[h].seen # Owned(e)
<1>0. /\ TypeOK /\ OneOwner /\ OwnWorkspace /\ Housed /\ Seen /\ Insiders
      /\ members \in [Emails -> {"absent", "bare", "ready"}]
      /\ owners \subseteq Spaces \X Emails
  BY Types DEF Typed, Strong
<1>1. e \in Emails /\ members'[e] = "ready" /\ \A w \in Spaces : <<w, e>> \notin owners'
  BY DEF Stranded
<1>2. members[e] = "ready" => \E w \in Spaces : <<w, e>> \in owners
  BY <1>1 DEF Stranded
<1>3. ASSUME owners \subseteq owners', members'[e] = "ready" => members[e] = "ready" PROVE FALSE
  BY <1>1, <1>2, <1>3
<1>4. ASSUME NEW h \in Handlers, UpdateMemberPasswordHash(h) PROVE FALSE
  <2>1. /\ owners' = owners /\ members' = [members EXCEPT ![Who(h)] = "ready"]
        /\ <<Space(h), Who(h)>> \in owners
    BY <1>0, <1>4 DEF UpdateMemberPasswordHash, Housed
  <2>2. Space(h) \in Spaces
    BY <1>0, <2>1
  <2>3. e = Who(h) \/ members'[e] = members[e]
    BY <1>0, <1>1, <2>1
  <2> QED BY <1>1, <1>2, <2>1, <2>2, <2>3
<1>5. ASSUME NEW h \in Handlers, DeleteWorkspace(h) PROVE Found
  <2>1. /\ members' = members /\ owners' = {row \in owners : row[1] # Space(h)}
        /\ At(h, "delete")
    BY <1>5 DEF DeleteWorkspace
  <2>2. PICK w \in Spaces : <<w, e>> \in owners
    BY <1>1, <1>2, <2>1
  <2>3. w = Space(h)
    BY <1>1, <2>1, <2>2
  <2>4. Who(h) = e
    BY <1>0, <2>1, <2>2, <2>3 DEF OwnWorkspace, Leaving, At
  <2>5. ASSUME req[h].seen = Owned(e) PROVE FALSE
    <3>1. PICK v \in Owned(e) : v # Space(h)
      BY <1>0, <2>1, <2>5, OthersWereSeen
    <3>2. v \in Spaces /\ <<v, e>> \in owners
      BY <3>1 DEF Owned
    <3>3. <<v, e>> \in owners'
      BY <2>1, <3>1, <3>2
    <3> QED BY <1>1, <3>2, <3>3
  <2> QED BY <2>1, <2>4, <2>5
<1>6. ASSUME Plain PROVE FALSE
  BY <1>3, <1>6 DEF Plain, dbVars
<1>7. ASSUME NEW h \in Handlers,
             \/ \E w \in Spaces : CreateWorkspace(h, w) \/ CreateForMember(h, w)
             \/ CreateMember(h)
             \/ CreateWorkspaceMember(h)
             \/ CheckAccess(h)
             \/ CountWorkspaces(h)
      PROVE  FALSE
  <2>1. owners \subseteq owners'
    BY <1>7 DEF CreateWorkspace, CreateForMember, CreateMember, CreateWorkspaceMember, CheckAccess,
                CountWorkspaces, dbVars
  <2>2. members'[e] = "ready" => members[e] = "ready"
    <3>1. CASE CreateMember(h)
      BY <1>0, <1>1, <3>1 DEF CreateMember
    <3>2. CASE members' = members
      BY <3>2
    <3> QED BY <1>7, <3>1, <3>2
            DEF CreateWorkspace, CreateForMember, CreateWorkspaceMember, CheckAccess,
                CountWorkspaces, dbVars
  <2> QED BY <1>3, <2>1, <2>2
<1> HIDE DEF Found
<1>8. Found
  <2>1. ASSUME NEW h \in Handlers, OfRequest(h) PROVE Found
    <3>1. CASE \/ \E t \in Tokens : StoreJTI(h, t)
               \/ CheckLoginLockout(h)
               \/ VerifyPassword(h)
               \/ FindWorkspace(h)
               \/ RecordLoginFailure(h)
               \/ ExpireAttempts(h)
               \/ SetLockout(h)
               \/ RecordLoginSuccess(h)
      BY <1>0, <1>6, <3>1, PlainRequests
    <3> QED BY <1>4, <1>5, <1>7, <2>1, <3>1 DEF OfRequest
  <2>2. ASSUME NEW h \in Handlers,
               \/ Stop(h)
               \/ \E f \in Emails : Register(h, f) \/ \E right \in BOOLEAN : Login(h, f, right)
               \/ \E t \in Tokens : \/ Call(h, t, "create", None)
                                    \/ \E w \in Spaces : Call(h, t, "delete", w)
        PROVE  FALSE
    BY <1>0, <1>6, <2>2, PlainRequests
  <2>3. ASSUME OfTime \/ RedisGoes \/ RedisReturns \/ UNCHANGED vars PROVE FALSE
    BY <1>0, <1>6, <2>3, PlainRest
  <2> QED BY <2>1, <2>2, <2>3 DEF Next
<1> QED BY <1>8 DEF Found

\* Whoever has a password has a workspace, wherever registrations of the email
\* have stopped; he loses the last one only by a deletion whose count was out of
\* date.
THEOREM MembersAreHoused == Spec => StrandedByStaleCountOnly
<1>1. Init => Typed /\ Strong
  BY InitTyped, InitStrong DEF Typed
<1>2. Typed /\ Strong /\ [Next]_vars => (Typed /\ Strong)'
  <2>1. Typed /\ [Next]_vars => Typed'
    BY NextTypeOK, NextPlaced DEF Typed
  <2> QED BY <2>1, NextStrong
<1>3. Typed /\ Strong /\ [Next]_vars
        => [\A e \in Stranded(members', owners') \ Stranded(members, owners) :
              \E h \in Handlers : At(h, "delete") /\ Who(h) = e /\ req[h].seen # Owned(e)]_vars
  BY StrandingStep
<1>4. Spec => [](Typed /\ Strong)
  BY <1>1, <1>2, PTL DEF Spec
<1> QED BY <1>3, <1>4, PTL DEF Spec, StrandedByStaleCountOnly
=============================================================================
