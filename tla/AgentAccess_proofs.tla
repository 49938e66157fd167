------------------------- MODULE AgentAccess_proofs -------------------------
(***************************************************************************)
(* What TLAPS proves of AgentAccess, for any number of requests and        *)
(* sessions, any life of a cached answer, any deadline and any bounds.     *)
(***************************************************************************)
EXTENDS AgentAccess, TLAPS

Request == [step : Steps, own : BOOLEAN, by : 0..(MaxTime + Timeout),
            row : Kinds, has : BOOLEAN]
Answer  == [has : BOOLEAN, until : 0..(MaxTime + TTL)]

\* The constants, as the provers like them.
LEMMA Bounds == TTL \in Nat /\ Timeout \in Nat /\ MaxTime \in Nat /\ MaxFaults \in Nat
                /\ TTL + Timeout < MaxTime
  BY AgentAccessAssumption

LEMMA IdleApart ==
  /\ \A x \in Request \cup {Idle} : x # Idle => x \in Request
  /\ \A x \in Request \cup {Idle} : x.step \in Steps => x \in Request
  /\ Idle.step \notin Steps
  BY DEF Request, Idle, Steps

\* What a request that is at a step knows of itself.
LEMMA AtType ==
  ASSUME TypeOK, NEW h \in Handlers, NEW step \in Steps, At(h, step)
  PROVE  req[h] \in Request /\ req[h] # Idle /\ now <= req[h].by
<1>1. req[h] \in Request \cup {Idle}
  BY DEF TypeOK, Request
<1>2. req[h].step \in Steps
  BY DEF At
<1> QED
  BY <1>1, <1>2, IdleApart DEF At

\* The three ways in which a request changes keep its type.
LEMMA MovesType ==
  ASSUME TypeOK, NEW h \in Handlers, req[h] \in Request, NEW step \in Steps, Moves(h, step)
  PROVE  req' \in [Handlers -> Request \cup {Idle}]
  BY DEF TypeOK, Moves, Request

LEMMA AnswersType ==
  ASSUME TypeOK, NEW h \in Handlers, Answers(h)
  PROVE  req' \in [Handlers -> Request \cup {Idle}]
  BY DEF TypeOK, Answers, Request

LEMMA OpensType ==
  ASSUME TypeOK, NEW h \in Handlers, NEW step \in Steps, NEW own \in BOOLEAN,
         NEW kind \in Kinds, Opens(h, step, own, kind)
  PROVE  req' \in [Handlers -> Request \cup {Idle}]
<1>1. now + Timeout \in 0..(MaxTime + Timeout)
  BY Bounds DEF TypeOK, Start
<1>2. [step |-> step, own |-> own, by |-> now + Timeout, row |-> kind, has |-> FALSE]
        \in Request
  BY <1>1 DEF Request
<1> QED
  BY <1>2 DEF TypeOK, Opens, Request

LEMMA DecidesType ==
  ASSUME TypeOK, NEW h \in Handlers, req[h] \in Request, NEW has \in BOOLEAN,
         Decides(h, has)
  PROVE  req' \in [Handlers -> Request \cup {Idle}]
<1>1. CASE has
  BY <1>1, MovesType DEF Decides, Steps
<1>2. CASE ~has
  BY <1>2, AnswersType DEF Decides
<1> QED
  BY <1>1, <1>2

LEMMA SetRowsType ==
  ASSUME TypeOK, NEW new \in SUBSET Kinds, SetRows(new)
  PROVE  rows' \subseteq Kinds /\ lastly' \in [BOOLEAN -> 0..MaxTime]
<1>1. now \in 0..MaxTime
  BY Bounds DEF TypeOK, Start
<1>2. Has \in BOOLEAN
  BY DEF Has
<1>3. lastly' = lastly \/ lastly' = [lastly EXCEPT ![Has] = now]
  BY DEF SetRows
<1>4. lastly' \in [BOOLEAN -> 0..MaxTime]
  BY <1>1, <1>2, <1>3 DEF TypeOK
<1> QED
  BY <1>4 DEF SetRows

LEMMA InsertType ==
  ASSUME TypeOK, NEW kind \in Kinds, CreateAgentPermission(kind)
  PROVE  rows' \subseteq Kinds /\ lastly' \in [BOOLEAN -> 0..MaxTime]
<1>1. CASE agent = "there"
  <2>1. rows \cup {kind} \in SUBSET Kinds
    BY DEF TypeOK
  <2> QED
    BY <1>1, <2>1, SetRowsType DEF CreateAgentPermission
<1>2. CASE agent # "there"
  BY <1>2 DEF CreateAgentPermission, permVars, TypeOK
<1> QED
  BY <1>1, <1>2

ReqType  == [Handlers -> Request \cup {Idle}]
PermType == rows \subseteq Kinds /\ lastly \in [BOOLEAN -> 0..MaxTime]

\* Every step of a request keeps the types.
LEMMA RequestType ==
  ASSUME TypeOK, NEW h \in Handlers, OfRequest(h)
  PROVE  TypeOK'
<1> USE DEF TypeOK, agentVars, permVars, Request
<1>t. {"token", "default", "role", "grant", "revoke", "scan", "del",
       "session", "access", "get", "query", "set", "allowed", "community"} = Steps
  BY DEF Steps
<1>k. "default" \in Kinds /\ "role" \in Kinds
  BY DEF Kinds
<1>1. CASE CreateAgent(h)
  BY <1>1, <1>t, <1>k, OpensType DEF CreateAgent
<1>2. CASE InsertAPIToken(h)
  BY <1>2, <1>t, AtType, MovesType DEF InsertAPIToken
<1>3. CASE GrantDefaultPermissions(h)
  BY <1>3, <1>t, <1>k, AtType, MovesType, InsertType DEF GrantDefaultPermissions
<1>4. CASE GrantRolePermissions(h)
  BY <1>4, <1>t, <1>k, AtType, MovesType, AnswersType, InsertType DEF GrantRolePermissions
<1>5. CASE \E kind \in Kinds : Grant(h, kind) \/ Revoke(h, kind)
  BY <1>5, <1>t, OpensType DEF Grant, Revoke
<1>6. CASE InsertGranted(h)
  <2>1. req[h].row \in Kinds /\ req[h] \in Request
    BY <1>6, <1>t, AtType DEF InsertGranted
  <2> QED
    BY <1>6, <1>t, <2>1, MovesType, AnswersType, InsertType DEF InsertGranted
<1>7. CASE RevokeAgentPermission(h)
  <2>1. rows \ {req[h].row} \in SUBSET Kinds
    OBVIOUS
  <2> QED
    BY <1>7, <1>t, <2>1, AtType, MovesType, SetRowsType DEF RevokeAgentPermission
<1>8. CASE Scan(h)
  BY <1>8, <1>t, AtType, MovesType, AnswersType DEF Scan
<1>9. CASE DeleteKey(h)
  BY <1>9, AnswersType DEF DeleteKey
<1>10. CASE ExchangeAPITokenForSession(h)
  BY <1>10, <1>t, <1>k, OpensType DEF ExchangeAPITokenForSession
<1>11. CASE \E s \in Sessions : InsertSession(h, s)
  BY <1>11, AnswersType DEF InsertSession
<1>12. CASE AuthenticateAPIKey(h)
  BY <1>12, <1>t, <1>k, OpensType DEF AuthenticateAPIKey
<1>13. CASE CheckWorkspace(h)
  BY <1>13, <1>t, AtType, MovesType, AnswersType DEF CheckWorkspace
<1>14. CASE AskAboutAgent(h)
  BY <1>14, <1>t, <1>k, OpensType DEF AskAboutAgent
<1>15. CASE Get(h)
  <2>1. req[h] \in Request
    BY <1>15, <1>t, AtType DEF Get
  <2>2. CASE cache # None
    <3>1. cache.has \in BOOLEAN
      BY <2>2
    <3> QED
      BY <1>15, <2>1, <2>2, <3>1, DecidesType DEF Get
  <2>3. CASE cache = None
    BY <1>15, <1>t, <2>1, <2>3, MovesType DEF Get
  <2> QED
    BY <2>2, <2>3
<1>16. CASE HasAgentPermission(h)
  <2>1. req[h] \in Request
    BY <1>16, <1>t, AtType DEF HasAgentPermission
  <2>2. Has \in BOOLEAN
    BY DEF Has
  <2>3. "set" \in Steps
    BY <1>t
  <2>4. [req[h] EXCEPT !.step = "set", !.has = Has] \in Request
    BY <2>1, <2>2, <2>3
  <2>5. req' = [req EXCEPT ![h] = [req[h] EXCEPT !.step = "set", !.has = Has]]
    BY <1>16 DEF HasAgentPermission
  <2> QED
    BY <1>16, <2>4, <2>5 DEF HasAgentPermission
<1>17. CASE Set(h)
  <2>1. req[h] \in Request
    BY <1>17, <1>t, AtType DEF Set
  <2>2. now + TTL \in 0..(MaxTime + TTL)
    BY Bounds DEF Start
  <2>3. cache' \in Answer
    BY <1>17, <2>1, <2>2 DEF Set, Answer
  <2>4. req' \in ReqType
    BY <1>17, <2>1, DecidesType DEF Set, ReqType
  <2> QED
    BY <1>17, <2>3, <2>4 DEF Set, Answer, ReqType
<1>18. CASE Acts(h)
  BY <1>18, AnswersType DEF Acts
<1>19. CASE Expires(h)
  BY <1>19, AnswersType DEF Expires
<1>20. CASE Fails(h)
  <2>1. PICK step \in Steps :
          /\ At(h, step)
          /\ CASE step = "set" -> Decides(h, req[h].has)
               [] step # "set" /\ AfterFailure[step] = "idle" -> Answers(h)
               [] OTHER -> Moves(h, AfterFailure[step])
    BY <1>20 DEF Fails
  <2>2. req[h] \in Request
    BY <2>1, AtType
  <2>3. AfterFailure[step] \in {"role", "query", "idle"}
    BY DEF AfterFailure
  <2>4. Decides(h, req[h].has) \/ Answers(h) \/ \E next \in {"role", "query"} : Moves(h, next)
    BY <2>1, <2>3
  <2>5. req' \in ReqType
    BY <1>t, <2>2, <2>4, DecidesType, AnswersType, MovesType DEF ReqType
  <2>6. faults' \in 0..MaxFaults
    BY <1>20, Bounds DEF Fails
  <2> QED
    BY <1>20, <2>5, <2>6 DEF Fails, ReqType
<1> QED
  BY <1>1, <1>2, <1>3, <1>4, <1>5, <1>6, <1>7, <1>8, <1>9, <1>10, <1>11, <1>12, <1>13,
     <1>14, <1>15, <1>16, <1>17, <1>18, <1>19, <1>20 DEF OfRequest

LEMMA TypeInit == Init => TypeOK
<1> SUFFICES ASSUME Init PROVE TypeOK
  OBVIOUS
<1>1. now \in Start..MaxTime /\ 0 \in 0..MaxTime /\ 0 \in 0..MaxFaults
  BY Bounds DEF Init, Start
<1>2. req \in ReqType
  BY DEF Init, ReqType
<1>3. lastly \in [BOOLEAN -> 0..MaxTime]
  BY <1>1 DEF Init
<1> QED
  BY <1>1, <1>2, <1>3 DEF Init, TypeOK, ReqType, Request

LEMMA TypeStep == TypeOK /\ [Next]_vars => TypeOK'
<1> SUFFICES ASSUME TypeOK, [Next]_vars PROVE TypeOK'
  OBVIOUS
<1>1. CASE \E h \in Handlers : OfRequest(h)
  BY <1>1, RequestType
<1>2. CASE DeleteAgent
  <2>1. {} \in SUBSET Kinds
    OBVIOUS
  <2>2. goneAt' \in 0..MaxTime
    BY <1>2, Bounds DEF DeleteAgent, TypeOK, Start
  <2> QED
    BY <1>2, <2>1, <2>2, SetRowsType DEF DeleteAgent, TypeOK
<1>3. CASE Tick
  <2>1. now' \in Start..MaxTime
    BY <1>3, Bounds DEF Tick, TypeOK, Start
  <2>2. cache' \in [has : BOOLEAN, until : 0..(MaxTime + TTL)] \cup {None}
    BY <1>3 DEF Tick, TypeOK
  <2> QED
    BY <1>3, <2>1, <2>2 DEF Tick, TypeOK, agentVars, permVars
<1>4. CASE UNCHANGED vars
  BY <1>4 DEF vars, agentVars, permVars, TypeOK
<1> QED
  BY <1>1, <1>2, <1>3, <1>4 DEF Next

\* The types hold always.
THEOREM AccessTypes == Spec => []TypeOK
<1> QED
  BY TypeInit, TypeStep, PTL DEF Spec

-----------------------------------------------------------------------------
\* What Redis keeps.  An answer that the database gives is its own when it is
\* asked, and the request that asked puts it into the cache before its deadline.

\* The database says it, or said it, no earlier than a while before a time.
SaidBefore(has, time, while) == Has = has \/ time <= lastly[has] + while

Asked(h) == req[h] # Idle /\ req[h].step = "set"

CacheInv ==
  /\ \A h \in Handlers : req[h] # Idle => req[h].by <= now + Timeout
  /\ \A h \in Handlers : Asked(h) => SaidBefore(req[h].has, req[h].by, Timeout)
  /\ cache # None => /\ now <= cache.until
                     /\ cache.until <= now + TTL
                     /\ SaidBefore(cache.has, cache.until, TTL + Timeout)

\* What was said once stays said, for as long as the time was not too far ahead.
LEMMA SetRowsSaid ==
  ASSUME TypeOK, NEW new \in SUBSET Kinds, SetRows(new), NEW has \in BOOLEAN,
         NEW time \in Nat, NEW while \in Nat, time <= now + while,
         SaidBefore(has, time, while)
  PROVE  SaidBefore(has, time, while)'
<1>1. Has \in BOOLEAN /\ Has' \in BOOLEAN
  BY DEF Has
<1>2. now \in Nat /\ lastly \in [BOOLEAN -> Nat]
  BY Bounds DEF TypeOK, Start
<1>3. CASE Has' = Has
  <2>1. (new # {}) = Has
    BY <1>3 DEF SetRows, Has
  <2>2. lastly' = lastly
    BY <2>1 DEF SetRows
  <2> QED
    BY <1>3, <2>2 DEF SaidBefore
<1>4. CASE Has' # Has
  <2>1. (new # {}) # Has
    BY <1>4 DEF SetRows, Has
  <2>2. lastly' = [lastly EXCEPT ![Has] = now]
    BY <2>1 DEF SetRows
  <2>3. CASE has = Has
    <3>1. lastly'[has] = now
      BY <1>1, <1>2, <2>2, <2>3
    <3> QED
      BY <3>1 DEF SaidBefore
  <2>4. CASE has # Has
    <3>1. has = Has'
      BY <1>1, <1>4, <2>4
    <3> QED
      BY <3>1 DEF SaidBefore
  <2> QED
    BY <2>3, <2>4
<1> QED
  BY <1>3, <1>4

LEMMA PermSaid ==
  ASSUME TypeOK, UNCHANGED permVars \/ \E new \in SUBSET Kinds : SetRows(new),
         NEW has \in BOOLEAN, NEW time \in Nat, NEW while \in Nat,
         time <= now + while, SaidBefore(has, time, while)
  PROVE  SaidBefore(has, time, while)'
<1>1. CASE UNCHANGED permVars
  BY <1>1 DEF SaidBefore, Has, permVars
<1> QED
  BY <1>1, SetRowsSaid

\* A step that leaves the cache, or drops it, that opens no request in the middle
\* of a check, and that changes rows as SetRows does.
Harmless ==
  /\ UNCHANGED permVars \/ \E new \in SUBSET Kinds : SetRows(new)
  /\ cache' \in {cache, None}
  /\ now' = now
  /\ \A h \in Handlers : req'[h] # Idle =>
       /\ req'[h].by <= now + Timeout
       /\ req'[h].step = "set" => req'[h] = req[h]

LEMMA HarmlessStep ==
  ASSUME TypeOK, CacheInv, Harmless
  PROVE  CacheInv'
<1>1. now \in Nat /\ TTL \in Nat /\ Timeout \in Nat /\ TTL + Timeout \in Nat
  BY Bounds DEF TypeOK, Start
<1>2. ASSUME NEW h \in Handlers, req'[h] # Idle
      PROVE  req'[h].by <= now' + Timeout
  BY <1>2 DEF Harmless
<1>3. ASSUME NEW h \in Handlers, Asked(h)'
      PROVE  SaidBefore(req[h].has, req[h].by, Timeout)'
  <2>1. req'[h] # Idle /\ req'[h].step = "set"
    BY <1>3 DEF Asked
  <2>2. req'[h] = req[h]
    BY <2>1 DEF Harmless
  <2>3. Asked(h) /\ req[h] \in Request
    BY <2>1, <2>2 DEF Asked, TypeOK, Request
  <2>4. PICK r \in Request : r = req[h]
    BY <2>3
  <2>5. r.has \in BOOLEAN /\ r.by \in Nat /\ r.by <= now + Timeout
    BY <2>3, <2>4, <1>1, Bounds DEF Request, CacheInv, Asked
  <2>6. SaidBefore(r.has, r.by, Timeout)
    BY <2>3, <2>4 DEF CacheInv
  <2>7. SaidBefore(r.has, r.by, Timeout)'
    BY <2>5, <2>6, <1>1, PermSaid DEF Harmless
  <2>8. req'[h] = r
    BY <2>2, <2>4
  <2> QED
    BY <2>7, <2>8 DEF SaidBefore
<1>4. ASSUME cache' # None
      PROVE  /\ now' <= cache'.until
             /\ cache'.until <= now' + TTL
             /\ SaidBefore(cache.has, cache.until, TTL + Timeout)'
  <2>1. cache' = cache /\ now' = now
    BY <1>4 DEF Harmless
  <2>2. PICK c \in Answer : c = cache
    BY <1>4, <2>1 DEF TypeOK, Answer
  <2>3. c.has \in BOOLEAN /\ c.until \in Nat
    BY Bounds DEF Answer
  <2>4. c.until <= now + TTL /\ now <= c.until /\ SaidBefore(c.has, c.until, TTL + Timeout)
    BY <1>4, <2>1, <2>2 DEF CacheInv
  <2>5. c.until <= now + (TTL + Timeout)
    BY <1>1, <2>3, <2>4
  <2>6. SaidBefore(c.has, c.until, TTL + Timeout)'
    BY <1>1, <2>3, <2>4, <2>5, PermSaid DEF Harmless
  <2>7. cache' = c
    BY <2>1, <2>2
  <2> QED
    BY <2>1, <2>4, <2>6, <2>7 DEF SaidBefore
<1> QED
  BY <1>2, <1>3, <1>4 DEF CacheInv
-----------------------------------------------------------------------------
\* The ways in which requests change, and what they mean for it.
Settled ==
  \A h \in Handlers : req'[h] # Idle =>
    /\ req'[h].by <= now + Timeout
    /\ req'[h].step = "set" => req'[h] = req[h]

LEMMA MovesSettled ==
  ASSUME TypeOK, CacheInv, NEW h \in Handlers, req[h] \in Request,
         NEW step \in Steps, step # "set", Moves(h, step)
  PROVE  Settled
<1> SUFFICES ASSUME NEW g \in Handlers, req'[g] # Idle
             PROVE  /\ req'[g].by <= now + Timeout
                    /\ req'[g].step = "set" => req'[g] = req[g]
  BY DEF Settled
<1>1. CASE g = h
  <2>1. req[h] # Idle
    BY IdleApart DEF Request
  <2>2. req'[g].by = req[h].by /\ req'[g].step = step
    BY <1>1 DEF Moves, TypeOK, Request
  <2> QED
    BY <2>1, <2>2 DEF CacheInv
<1>2. CASE g # h
  <2>1. req'[g] = req[g]
    BY <1>2 DEF Moves, TypeOK
  <2> QED
    BY <2>1 DEF CacheInv
<1> QED
  BY <1>1, <1>2

LEMMA AnswersSettled ==
  ASSUME TypeOK, CacheInv, NEW h \in Handlers, Answers(h)
  PROVE  Settled
<1> SUFFICES ASSUME NEW g \in Handlers, req'[g] # Idle
             PROVE  /\ req'[g].by <= now + Timeout
                    /\ req'[g].step = "set" => req'[g] = req[g]
  BY DEF Settled
<1>1. g # h /\ req'[g] = req[g]
  BY DEF Answers, TypeOK
<1> QED
  BY <1>1 DEF CacheInv

LEMMA OpensSettled ==
  ASSUME TypeOK, CacheInv, NEW h \in Handlers, NEW step \in Steps, step # "set",
         NEW own, NEW kind, Opens(h, step, own, kind)
  PROVE  Settled
<1> SUFFICES ASSUME NEW g \in Handlers, req'[g] # Idle
             PROVE  /\ req'[g].by <= now + Timeout
                    /\ req'[g].step = "set" => req'[g] = req[g]
  BY DEF Settled
<1>1. CASE g = h
  <2>1. req'[g].by = now + Timeout /\ req'[g].step = step
    BY <1>1 DEF Opens, TypeOK
  <2>2. now + Timeout \in Nat
    BY Bounds DEF TypeOK, Start
  <2> QED
    BY <2>1, <2>2
<1>2. CASE g # h
  <2>1. req'[g] = req[g]
    BY <1>2 DEF Opens, TypeOK
  <2> QED
    BY <2>1 DEF CacheInv
<1> QED
  BY <1>1, <1>2

LEMMA DecidesSettled ==
  ASSUME TypeOK, CacheInv, NEW h \in Handlers, req[h] \in Request, NEW has \in BOOLEAN,
         Decides(h, has)
  PROVE  Settled
<1>1. CASE has
  BY <1>1, MovesSettled DEF Decides, Steps
<1>2. CASE ~has
  BY <1>2, AnswersSettled DEF Decides
<1> QED
  BY <1>1, <1>2

LEMMA InsertRows ==
  ASSUME TypeOK, NEW kind \in Kinds, CreateAgentPermission(kind)
  PROVE  UNCHANGED permVars \/ \E new \in SUBSET Kinds : SetRows(new)
<1>1. rows \cup {kind} \in SUBSET Kinds
  BY DEF TypeOK
<1> QED
  BY <1>1 DEF CreateAgentPermission

\* Every step of a request but a question and its answer is harmless.
LEMMA RequestHarmless ==
  ASSUME TypeOK, CacheInv, NEW h \in Handlers, OfRequest(h),
         ~HasAgentPermission(h), ~Set(h)
  PROVE  Harmless
<1> USE DEF Harmless, Settled
<1>t. {"token", "default", "role", "grant", "revoke", "scan", "del",
       "session", "access", "get", "query", "set", "allowed", "community"} = Steps
  BY DEF Steps
<1>k. "default" \in Kinds /\ "role" \in Kinds
  BY DEF Kinds
<1>1. CASE CreateAgent(h)
  BY <1>1, <1>t, OpensSettled DEF CreateAgent
<1>2. CASE InsertAPIToken(h)
  BY <1>2, <1>t, AtType, MovesSettled DEF InsertAPIToken
<1>3. CASE GrantDefaultPermissions(h)
  BY <1>3, <1>t, <1>k, AtType, MovesSettled, InsertRows DEF GrantDefaultPermissions
<1>4. CASE GrantRolePermissions(h)
  BY <1>4, <1>t, <1>k, AtType, MovesSettled, AnswersSettled, InsertRows
     DEF GrantRolePermissions
<1>5. CASE \E kind \in Kinds : Grant(h, kind) \/ Revoke(h, kind)
  BY <1>5, <1>t, OpensSettled DEF Grant, Revoke
<1>6. CASE InsertGranted(h)
  <2>1. req[h].row \in Kinds /\ req[h] \in Request
    BY <1>6, <1>t, AtType DEF InsertGranted, Request
  <2> QED
    BY <1>6, <1>t, <2>1, MovesSettled, AnswersSettled, InsertRows DEF InsertGranted
<1>7. CASE RevokeAgentPermission(h)
  <2>1. rows \ {req[h].row} \in SUBSET Kinds
    BY DEF TypeOK
  <2> QED
    BY <1>7, <1>t, <2>1, AtType, MovesSettled DEF RevokeAgentPermission
<1>8. CASE Scan(h)
  BY <1>8, <1>t, AtType, MovesSettled, AnswersSettled DEF Scan
<1>9. CASE DeleteKey(h)
  BY <1>9, AnswersSettled DEF DeleteKey
<1>10. CASE ExchangeAPITokenForSession(h)
  BY <1>10, <1>t, OpensSettled DEF ExchangeAPITokenForSession
<1>11. CASE \E s \in Sessions : InsertSession(h, s)
  BY <1>11, AnswersSettled DEF InsertSession
<1>12. CASE AuthenticateAPIKey(h)
  BY <1>12, <1>t, OpensSettled DEF AuthenticateAPIKey
<1>13. CASE CheckWorkspace(h)
  BY <1>13, <1>t, AtType, MovesSettled, AnswersSettled DEF CheckWorkspace
<1>14. CASE AskAboutAgent(h)
  BY <1>14, <1>t, OpensSettled DEF AskAboutAgent
<1>15. CASE Get(h)
  <2>1. req[h] \in Request
    BY <1>15, <1>t, AtType DEF Get
  <2>2. CASE cache # None
    <3>1. cache.has \in BOOLEAN
      BY <2>2 DEF TypeOK
    <3> QED
      BY <1>15, <2>1, <2>2, <3>1, DecidesSettled DEF Get
  <2>3. CASE cache = None
    BY <1>15, <1>t, <2>1, <2>3, MovesSettled DEF Get
  <2> QED
    BY <2>2, <2>3
<1>18. CASE Acts(h)
  BY <1>18, AnswersSettled DEF Acts
<1>19. CASE Expires(h)
  BY <1>19, AnswersSettled DEF Expires
<1>20. CASE Fails(h)
  <2>1. PICK step \in Steps :
          /\ At(h, step)
          /\ CASE step = "set" -> Decides(h, req[h].has)
               [] step # "set" /\ AfterFailure[step] = "idle" -> Answers(h)
               [] OTHER -> Moves(h, AfterFailure[step])
    BY <1>20 DEF Fails
  <2>2. req[h] \in Request
    BY <2>1, AtType
  <2>3. AfterFailure[step] \in {"role", "query", "idle"}
    BY DEF AfterFailure
  <2>4. Decides(h, req[h].has) \/ Answers(h) \/ \E next \in {"role", "query"} : Moves(h, next)
    BY <2>1, <2>3
  <2>5. req[h].has \in BOOLEAN
    BY <2>2 DEF Request
  <2>6. Settled
    BY <1>t, <2>2, <2>4, <2>5, DecidesSettled, AnswersSettled, MovesSettled
  <2> QED
    BY <1>20, <2>6 DEF Fails
<1> QED
  BY <1>1, <1>2, <1>3, <1>4, <1>5, <1>6, <1>7, <1>8, <1>9, <1>10, <1>11, <1>12, <1>13,
     <1>14, <1>15, <1>18, <1>19, <1>20 DEF OfRequest

\* The question: the database says it now, and the deadline is not far.
LEMMA AskStep ==
  ASSUME TypeOK, CacheInv, NEW h \in Handlers, HasAgentPermission(h)
  PROVE  CacheInv'
<1>1. req[h] \in Request /\ req[h] # Idle
  BY AtType DEF HasAgentPermission, Steps
<1>2. /\ now' = now /\ cache' = cache /\ UNCHANGED <<rows, lastly>>
      /\ req' = [req EXCEPT ![h] = [req[h] EXCEPT !.step = "set", !.has = Has]]
  BY DEF HasAgentPermission, permVars
<1>3. Has' = Has
  BY <1>2 DEF Has
<1>4. req'[h].has = Has /\ req'[h].by = req[h].by
  BY <1>1, <1>2 DEF TypeOK, Request
<1>5. \A g \in Handlers : g # h => req'[g] = req[g]
  BY <1>2 DEF TypeOK
<1>6. \A g \in Handlers : req'[g] # Idle => req'[g].by <= now' + Timeout
  BY <1>1, <1>2, <1>4, <1>5 DEF CacheInv
<1>7. ASSUME NEW g \in Handlers, Asked(g)'
      PROVE  SaidBefore(req[g].has, req[g].by, Timeout)'
  <2>1. CASE g = h
    BY <1>3, <1>4, <2>1 DEF SaidBefore
  <2>2. CASE g # h
    <3>1. req'[g] = req[g]
      BY <1>5, <2>2
    <3>2. Asked(g)
      BY <1>7, <3>1 DEF Asked
    <3> QED
      BY <1>2, <1>3, <3>1, <3>2 DEF CacheInv, SaidBefore
  <2> QED
    BY <2>1, <2>2
<1>8. cache' # None => /\ now' <= cache'.until
                       /\ cache'.until <= now' + TTL
                       /\ SaidBefore(cache.has, cache.until, TTL + Timeout)'
  BY <1>2, <1>3 DEF CacheInv, SaidBefore
<1> QED
  BY <1>6, <1>7, <1>8 DEF CacheInv

\* The answer: what a request was told is kept for as long as it is true of its
\* deadline, and a little longer.
LEMMA SetStep ==
  ASSUME TypeOK, CacheInv, NEW h \in Handlers, Set(h)
  PROVE  CacheInv'
<1>1. PICK r \in Request : r = req[h]
  BY AtType DEF Set, Steps
<1>2. r.has \in BOOLEAN /\ r.by \in Nat /\ now \in Nat /\ TTL \in Nat /\ Timeout \in Nat
  BY Bounds DEF Request, TypeOK, Start
<1>3. now <= r.by /\ Asked(h)
  BY <1>1, AtType DEF Set, At, Asked, Steps
<1>4. SaidBefore(r.has, r.by, Timeout)
  BY <1>1, <1>3 DEF CacheInv
<1>5. /\ cache' = [has |-> r.has, until |-> now + TTL]
      /\ now' = now /\ UNCHANGED <<rows, lastly>>
  BY <1>1 DEF Set, permVars
<1>6. Has' = Has
  BY <1>5 DEF Has
<1>7. Settled
  BY <1>1, <1>2, DecidesSettled DEF Set
<1>8. ASSUME NEW g \in Handlers, Asked(g)'
      PROVE  SaidBefore(req[g].has, req[g].by, Timeout)'
  <2>1. req'[g] = req[g]
    BY <1>7, <1>8 DEF Settled, Asked
  <2>2. Asked(g)
    BY <1>8, <2>1 DEF Asked
  <2> QED
    BY <1>5, <1>6, <2>1, <2>2 DEF CacheInv, SaidBefore
<1>9. SaidBefore(cache.has, cache.until, TTL + Timeout)'
  <2>1. cache'.has = r.has /\ cache'.until = now + TTL
    BY <1>5
  <2>2. lastly[r.has] \in Nat
    BY <1>2, Bounds DEF TypeOK
  <2>3. r.by <= lastly[r.has] + Timeout => now + TTL <= lastly[r.has] + (TTL + Timeout)
    BY <1>2, <1>3, <2>2
  <2> QED
    BY <1>4, <1>5, <1>6, <2>1, <2>3 DEF SaidBefore
<1>10. now' <= cache'.until /\ cache'.until <= now' + TTL
  BY <1>2, <1>5
<1>11. \A g \in Handlers : req'[g] # Idle => req'[g].by <= now' + Timeout
  BY <1>5, <1>7 DEF Settled
<1> QED
  BY <1>8, <1>9, <1>10, <1>11 DEF CacheInv

LEMMA TickStep ==
  ASSUME TypeOK, CacheInv, Tick
  PROVE  CacheInv'
<1>1. now \in Nat /\ now' = now + 1 /\ TTL \in Nat /\ Timeout \in Nat
  BY Bounds DEF Tick, TypeOK, Start
<1>2. UNCHANGED <<rows, lastly, req>> /\ Has' = Has
  BY DEF Tick, permVars, Has
<1>3. ASSUME NEW h \in Handlers, req'[h] # Idle
      PROVE  req'[h].by <= now' + Timeout
  <2>1. req[h] \in Request /\ req[h].by <= now + Timeout
    BY <1>2, <1>3 DEF TypeOK, Request, CacheInv
  <2>2. req[h].by \in Nat
    BY <2>1, Bounds DEF Request
  <2> QED
    BY <1>1, <1>2, <2>1, <2>2
<1>4. ASSUME NEW h \in Handlers, Asked(h)'
      PROVE  SaidBefore(req[h].has, req[h].by, Timeout)'
  BY <1>2, <1>4 DEF CacheInv, Asked, SaidBefore
<1>5. ASSUME cache' # None
      PROVE  /\ now' <= cache'.until
             /\ cache'.until <= now' + TTL
             /\ SaidBefore(cache.has, cache.until, TTL + Timeout)'
  <2>1. cache' = cache /\ ~(cache.until <= now + 1)
    BY <1>5 DEF Tick
  <2>2. cache.until \in Nat
    BY <1>5, <2>1, Bounds DEF TypeOK
  <2>3. cache.until <= now + TTL /\ SaidBefore(cache.has, cache.until, TTL + Timeout)
    BY <1>5, <2>1 DEF CacheInv
  <2>4. now' <= cache'.until /\ cache'.until <= now' + TTL
    BY <1>1, <2>1, <2>2, <2>3
  <2> QED
    BY <1>2, <2>1, <2>3, <2>4 DEF SaidBefore
<1> QED
  BY <1>3, <1>4, <1>5 DEF CacheInv

LEMMA CacheStep == TypeOK /\ CacheInv /\ [Next]_vars => CacheInv'
<1> SUFFICES ASSUME TypeOK, CacheInv, [Next]_vars PROVE CacheInv'
  OBVIOUS
<1>1. ASSUME NEW h \in Handlers, OfRequest(h)
      PROVE  CacheInv'
  <2>1. CASE HasAgentPermission(h)
    BY <2>1, AskStep
  <2>2. CASE Set(h)
    BY <2>2, SetStep
  <2>3. CASE ~HasAgentPermission(h) /\ ~Set(h)
    BY <1>1, <2>3, RequestHarmless, HarmlessStep
  <2> QED
    BY <2>1, <2>2, <2>3
<1>2. CASE DeleteAgent
  <2>1. {} \in SUBSET Kinds /\ SetRows({})
    BY <1>2 DEF DeleteAgent
  <2>2. cache' = cache /\ now' = now /\ req' = req
    BY <1>2 DEF DeleteAgent
  <2>3. Harmless
    BY <2>1, <2>2 DEF Harmless, CacheInv
  <2> QED
    BY <2>3, HarmlessStep
<1>3. CASE Tick
  BY <1>3, TickStep
<1>4. CASE UNCHANGED vars
  <2>1. UNCHANGED permVars /\ cache' = cache /\ now' = now /\ req' = req
    BY <1>4 DEF vars
  <2>2. Harmless
    BY <2>1 DEF Harmless, CacheInv
  <2> QED
    BY <2>2, HarmlessStep
<1> QED
  BY <1>1, <1>2, <1>3, <1>4 DEF Next

LEMMA CacheNow == TypeOK /\ CacheInv => CacheNotOld
<1> SUFFICES ASSUME TypeOK, CacheInv, cache # None
             PROVE  SaidWithin(cache.has, TTL + Timeout)
  BY DEF CacheNotOld
<1>1. cache.has \in BOOLEAN /\ cache.until \in Nat
  BY Bounds DEF TypeOK
<1>2. now \in Nat /\ lastly[cache.has] \in Nat /\ TTL + Timeout \in Nat
  BY <1>1, Bounds DEF TypeOK, Start
<1>3. now <= cache.until /\ SaidBefore(cache.has, cache.until, TTL + Timeout)
  BY DEF CacheInv
<1>4. CASE Has = cache.has
  BY <1>4 DEF SaidWithin
<1>5. CASE cache.until <= lastly[cache.has] + (TTL + Timeout)
  <2>1. now <= lastly[cache.has] + (TTL + Timeout)
    BY <1>1, <1>2, <1>3, <1>5
  <2> QED
    BY <2>1 DEF SaidWithin
<1> QED
  BY <1>3, <1>4, <1>5 DEF SaidBefore

\* A cached answer is never older than its life and that of a request, however
\* grants, revocations, checks and the deletion overlap.
THEOREM CacheIsRecent == Spec => []CacheNotOld
<1>1. Init => CacheInv
  BY DEF Init, CacheInv, Asked, Idle
<1>2. TypeOK /\ CacheInv /\ [Next]_vars => CacheInv'
  BY CacheStep
<1>3. TypeOK /\ CacheInv => CacheNotOld
  BY CacheNow
<1> QED
  BY <1>1, <1>2, <1>3, AccessTypes, PTL DEF Spec
-----------------------------------------------------------------------------
-----------------------------------------------------------------------------
\* What a deleted agent may still do.

\* The agent's own request that was let into its workspace.
Inside(h) == /\ req[h] # Idle
             /\ req[h].own
             /\ req[h].step \in {"get", "query", "set", "allowed"}

\* A request for a workflow of the community's.
Public(h) == req[h] # Idle /\ req[h].step = "community"

\* Tokens go with the agent: one that is there then was inserted afterwards.
TokenThere == apiKey \/ sessions # {}

GoneInv ==
  agent = "gone" => \A h \in Handlers :
    /\ Inside(h) => req[h].by <= goneAt + Timeout
    /\ Public(h) => req[h].by <= goneAt + Timeout \/ TokenThere

\* Nobody comes in but through the middleware of the workspace.
NobodyEnters ==
  \A h \in Handlers : Inside(h)' => Inside(h) /\ req'[h].by = req[h].by

LEMMA MovesInside ==
  ASSUME TypeOK, NEW h \in Handlers, req[h] \in Request, NEW step \in Steps, Moves(h, step),
         step \in {"get", "query", "set", "allowed"}
           => req[h].step \in {"get", "query", "set", "allowed"}
  PROVE  NobodyEnters
<1>1. req[h] # Idle
  BY IdleApart DEF Request
<1>2. req'[h].by = req[h].by /\ req'[h].own = req[h].own /\ req'[h].step = step
  BY DEF Moves, TypeOK, Request
<1>3. \A g \in Handlers : g # h => req'[g] = req[g]
  BY DEF Moves, TypeOK
<1> QED
  BY <1>1, <1>2, <1>3 DEF NobodyEnters, Inside

LEMMA AnswersInside ==
  ASSUME TypeOK, NEW h \in Handlers, Answers(h)
  PROVE  NobodyEnters
<1>1. req'[h] = Idle
  BY DEF Answers, TypeOK
<1>2. \A g \in Handlers : g # h => req'[g] = req[g]
  BY DEF Answers, TypeOK
<1> QED
  BY <1>1, <1>2 DEF NobodyEnters, Inside

LEMMA OpensInside ==
  ASSUME TypeOK, NEW h \in Handlers, NEW step, NEW own \in BOOLEAN, NEW kind,
         Opens(h, step, own, kind),
         own => step \notin {"get", "query", "set", "allowed"}
  PROVE  NobodyEnters
<1>1. req'[h].own = own /\ req'[h].step = step
  BY DEF Opens, TypeOK
<1>2. \A g \in Handlers : g # h => req'[g] = req[g]
  BY DEF Opens, TypeOK
<1> QED
  BY <1>1, <1>2 DEF NobodyEnters, Inside

LEMMA DecidesInside ==
  ASSUME TypeOK, NEW h \in Handlers, req[h] \in Request, NEW has \in BOOLEAN,
         Decides(h, has), req[h].step \in {"get", "query", "set", "allowed"}
  PROVE  NobodyEnters
<1>1. CASE has
  BY <1>1, MovesInside DEF Decides, Steps
<1>2. CASE ~has
  BY <1>2, AnswersInside DEF Decides
<1> QED
  BY <1>1, <1>2

LEMMA RequestInside ==
  ASSUME TypeOK, NEW h \in Handlers, OfRequest(h), agent' = "gone"
  PROVE  NobodyEnters
<1>t. {"token", "default", "role", "grant", "revoke", "scan", "del",
       "session", "access", "get", "query", "set", "allowed", "community"} = Steps
  BY DEF Steps
<1>1. CASE CreateAgent(h)
  BY <1>1 DEF CreateAgent
<1>2. CASE InsertAPIToken(h)
  BY <1>2, <1>t, AtType, MovesInside DEF InsertAPIToken
<1>3. CASE GrantDefaultPermissions(h)
  BY <1>3, <1>t, AtType, MovesInside DEF GrantDefaultPermissions
<1>4. CASE GrantRolePermissions(h)
  BY <1>4, <1>t, AtType, MovesInside, AnswersInside DEF GrantRolePermissions
<1>5. CASE \E kind \in Kinds : Grant(h, kind) \/ Revoke(h, kind)
  BY <1>5, OpensInside DEF Grant, Revoke
<1>6. CASE InsertGranted(h)
  BY <1>6, <1>t, AtType, MovesInside, AnswersInside DEF InsertGranted
<1>7. CASE RevokeAgentPermission(h)
  BY <1>7, <1>t, AtType, MovesInside DEF RevokeAgentPermission
<1>8. CASE Scan(h)
  BY <1>8, <1>t, AtType, MovesInside, AnswersInside DEF Scan
<1>9. CASE DeleteKey(h)
  BY <1>9, AnswersInside DEF DeleteKey
<1>10. CASE ExchangeAPITokenForSession(h)
  BY <1>10, OpensInside DEF ExchangeAPITokenForSession
<1>11. CASE \E s \in Sessions : InsertSession(h, s)
  BY <1>11, AnswersInside DEF InsertSession
<1>12. CASE AuthenticateAPIKey(h)
  BY <1>12, OpensInside DEF AuthenticateAPIKey
<1>13. CASE CheckWorkspace(h)
  BY <1>13, AnswersInside DEF CheckWorkspace, agentVars
<1>14. CASE AskAboutAgent(h)
  BY <1>14, OpensInside DEF AskAboutAgent
<1>15. CASE Get(h)
  <2>1. req[h] \in Request /\ req[h].step = "get"
    BY <1>15, <1>t, AtType DEF Get, At
  <2>2. CASE cache # None
    <3>1. cache.has \in BOOLEAN
      BY <2>2 DEF TypeOK
    <3> QED
      BY <1>15, <2>1, <2>2, <3>1, DecidesInside DEF Get
  <2>3. CASE cache = None
    BY <1>15, <1>t, <2>1, <2>3, MovesInside DEF Get
  <2> QED
    BY <2>2, <2>3
<1>16. CASE HasAgentPermission(h)
  <2>1. req[h] \in Request /\ req[h] # Idle /\ req[h].step = "query"
    BY <1>16, <1>t, AtType DEF HasAgentPermission, At
  <2>2. req'[h].own = req[h].own /\ req'[h].by = req[h].by
    BY <1>16, <2>1 DEF HasAgentPermission, TypeOK, Request
  <2>3. \A g \in Handlers : g # h => req'[g] = req[g]
    BY <1>16 DEF HasAgentPermission, TypeOK
  <2> QED
    BY <2>1, <2>2, <2>3 DEF NobodyEnters, Inside
<1>17. CASE Set(h)
  <2>1. req[h] \in Request /\ req[h].step = "set"
    BY <1>17, <1>t, AtType DEF Set, At
  <2>2. req[h].has \in BOOLEAN
    BY <2>1 DEF Request
  <2> QED
    BY <1>17, <2>1, <2>2, DecidesInside DEF Set
<1>18. CASE Acts(h)
  BY <1>18, AnswersInside DEF Acts
<1>19. CASE Expires(h)
  BY <1>19, AnswersInside DEF Expires
<1>20. CASE Fails(h)
  <2>1. PICK step \in Steps :
          /\ At(h, step)
          /\ CASE step = "set" -> Decides(h, req[h].has)
               [] step # "set" /\ AfterFailure[step] = "idle" -> Answers(h)
               [] OTHER -> Moves(h, AfterFailure[step])
    BY <1>20 DEF Fails
  <2>2. req[h] \in Request /\ req[h].step = step
    BY <2>1, AtType DEF At
  <2>3. req[h].has \in BOOLEAN
    BY <2>2 DEF Request
  <2>4. CASE step = "set"
    <3>1. Decides(h, req[h].has)
      BY <2>1, <2>4
    <3>2. req[h].step \in {"set", "get"}
      BY <2>2, <2>4
    <3> QED
      BY <2>2, <2>3, <3>1, <3>2, DecidesInside
  <2>5. CASE step = "default"
    <3>1. AfterFailure[step] = "role"
      BY <2>5 DEF AfterFailure
    <3> QED
      BY <2>1, <2>2, <2>5, <3>1, <1>t, MovesInside
  <2>6. CASE step = "get"
    <3>1. AfterFailure[step] = "query"
      BY <2>6 DEF AfterFailure
    <3> QED
      BY <2>1, <2>2, <2>6, <3>1, <1>t, MovesInside
  <2>7. CASE step \notin {"set", "default", "get"}
    <3>1. AfterFailure[step] = "idle"
      BY <2>7 DEF AfterFailure
    <3> QED
      BY <2>1, <2>7, <3>1, AnswersInside
  <2> QED
    BY <2>4, <2>5, <2>6, <2>7
<1> QED
  BY <1>1, <1>2, <1>3, <1>4, <1>5, <1>6, <1>7, <1>8, <1>9, <1>10, <1>11, <1>12, <1>13,
     <1>14, <1>15, <1>16, <1>17, <1>18, <1>19, <1>20 DEF OfRequest

\* A request does not change when the agent went.
LEMMA RequestGone ==
  ASSUME TypeOK, NEW h \in Handlers, OfRequest(h), agent' = "gone"
  PROVE  agent = "gone" /\ goneAt' = goneAt
<1>1. CASE CreateAgent(h)
  BY <1>1 DEF CreateAgent
<1>2. CASE InsertAPIToken(h) \/ \E s \in Sessions : InsertSession(h, s)
  BY <1>2 DEF InsertAPIToken, InsertSession
<1>3. CASE UNCHANGED agentVars
  BY <1>3 DEF agentVars
<1> QED
  BY <1>1, <1>2, <1>3
     DEF OfRequest, GrantDefaultPermissions, GrantRolePermissions, Grant, Revoke, InsertGranted,
         RevokeAgentPermission, Scan, DeleteKey, ExchangeAPITokenForSession,
         AuthenticateAPIKey, CheckWorkspace, AskAboutAgent, Get, HasAgentPermission, Set,
         Acts, Expires, Fails

\* A request to the community begins with a token, and keeps its deadline.
PublicByToken ==
  \A h \in Handlers : Public(h)' => (Public(h) /\ req'[h] = req[h]) \/ TokenThere

LEMMA MovesPublic ==
  ASSUME TypeOK, NEW h \in Handlers, req[h] \in Request, NEW step, step # "community",
         Moves(h, step)
  PROVE  PublicByToken
<1>1. req'[h].step = step
  BY DEF Moves, TypeOK, Request
<1>2. \A g \in Handlers : g # h => req'[g] = req[g]
  BY DEF Moves, TypeOK
<1> QED
  BY <1>1, <1>2 DEF PublicByToken, Public

LEMMA AnswersPublic ==
  ASSUME TypeOK, NEW h \in Handlers, Answers(h)
  PROVE  PublicByToken
<1>1. req'[h] = Idle
  BY DEF Answers, TypeOK
<1>2. \A g \in Handlers : g # h => req'[g] = req[g]
  BY DEF Answers, TypeOK
<1> QED
  BY <1>1, <1>2 DEF PublicByToken, Public

LEMMA OpensPublic ==
  ASSUME TypeOK, NEW h \in Handlers, NEW step, NEW own, NEW kind, Opens(h, step, own, kind),
         step # "community" \/ TokenThere
  PROVE  PublicByToken
<1>1. req'[h].step = step
  BY DEF Opens, TypeOK
<1>2. \A g \in Handlers : g # h => req'[g] = req[g]
  BY DEF Opens, TypeOK
<1> QED
  BY <1>1, <1>2 DEF PublicByToken, Public

LEMMA DecidesPublic ==
  ASSUME TypeOK, NEW h \in Handlers, req[h] \in Request, NEW has \in BOOLEAN, Decides(h, has)
  PROVE  PublicByToken
<1>1. CASE has
  BY <1>1, MovesPublic DEF Decides
<1>2. CASE ~has
  BY <1>2, AnswersPublic DEF Decides
<1> QED
  BY <1>1, <1>2

LEMMA RequestPublic ==
  ASSUME TypeOK, NEW h \in Handlers, OfRequest(h)
  PROVE  PublicByToken
<1>t. {"token", "default", "role", "grant", "revoke", "scan", "del",
       "session", "access", "get", "query", "set", "allowed", "community"} = Steps
  BY DEF Steps
<1>1. CASE CreateAgent(h)
  BY <1>1, OpensPublic DEF CreateAgent
<1>2. CASE InsertAPIToken(h)
  BY <1>2, <1>t, AtType, MovesPublic DEF InsertAPIToken
<1>3. CASE GrantDefaultPermissions(h)
  BY <1>3, <1>t, AtType, MovesPublic DEF GrantDefaultPermissions
<1>4. CASE GrantRolePermissions(h)
  BY <1>4, <1>t, AtType, MovesPublic, AnswersPublic DEF GrantRolePermissions
<1>5. CASE \E kind \in Kinds : Grant(h, kind) \/ Revoke(h, kind)
  BY <1>5, OpensPublic DEF Grant, Revoke
<1>6. CASE InsertGranted(h)
  BY <1>6, <1>t, AtType, MovesPublic, AnswersPublic DEF InsertGranted
<1>7. CASE RevokeAgentPermission(h)
  BY <1>7, <1>t, AtType, MovesPublic DEF RevokeAgentPermission
<1>8. CASE Scan(h)
  BY <1>8, <1>t, AtType, MovesPublic, AnswersPublic DEF Scan
<1>9. CASE DeleteKey(h) \/ Acts(h) \/ Expires(h) \/ \E s \in Sessions : InsertSession(h, s)
  BY <1>9, AnswersPublic DEF DeleteKey, Acts, Expires, InsertSession
<1>10. CASE ExchangeAPITokenForSession(h)
  BY <1>10, OpensPublic DEF ExchangeAPITokenForSession
<1>11. CASE AuthenticateAPIKey(h)
  BY <1>11, OpensPublic DEF AuthenticateAPIKey, TokenThere
<1>12. CASE CheckWorkspace(h)
  BY <1>12, <1>t, AtType, MovesPublic, AnswersPublic DEF CheckWorkspace
<1>13. CASE AskAboutAgent(h)
  BY <1>13, OpensPublic DEF AskAboutAgent
<1>14. CASE Get(h)
  <2>1. req[h] \in Request
    BY <1>14, <1>t, AtType DEF Get
  <2>2. CASE cache # None
    <3>1. cache.has \in BOOLEAN
      BY <2>2 DEF TypeOK
    <3> QED
      BY <1>14, <2>1, <2>2, <3>1, DecidesPublic DEF Get
  <2>3. CASE cache = None
    BY <1>14, <2>1, <2>3, MovesPublic DEF Get
  <2> QED
    BY <2>2, <2>3
<1>15. CASE HasAgentPermission(h)
  <2>1. req[h] \in Request
    BY <1>15, <1>t, AtType DEF HasAgentPermission
  <2>2. req'[h].step = "set"
    BY <1>15, <2>1 DEF HasAgentPermission, TypeOK, Request
  <2>3. \A g \in Handlers : g # h => req'[g] = req[g]
    BY <1>15 DEF HasAgentPermission, TypeOK
  <2> QED
    BY <2>2, <2>3 DEF PublicByToken, Public
<1>16. CASE Set(h)
  <2>1. req[h] \in Request /\ req[h].has \in BOOLEAN
    BY <1>16, <1>t, AtType DEF Set, Request
  <2> QED
    BY <1>16, <2>1, DecidesPublic DEF Set
<1>17. CASE Fails(h)
  <2>1. PICK step \in Steps :
          /\ At(h, step)
          /\ CASE step = "set" -> Decides(h, req[h].has)
               [] step # "set" /\ AfterFailure[step] = "idle" -> Answers(h)
               [] OTHER -> Moves(h, AfterFailure[step])
    BY <1>17 DEF Fails
  <2>2. req[h] \in Request /\ req[h].has \in BOOLEAN
    BY <2>1, AtType DEF Request
  <2>3. AfterFailure[step] \in {"role", "query", "idle"}
    BY DEF AfterFailure
  <2>4. Decides(h, req[h].has) \/ Answers(h) \/ \E next \in {"role", "query"} : Moves(h, next)
    BY <2>1, <2>3
  <2> QED
    BY <2>2, <2>4, DecidesPublic, AnswersPublic, MovesPublic
<1> QED
  BY <1>1, <1>2, <1>3, <1>4, <1>5, <1>6, <1>7, <1>8, <1>9, <1>10, <1>11, <1>12, <1>13,
     <1>14, <1>15, <1>16, <1>17 DEF OfRequest

\* A request removes no token.
LEMMA TokensStay ==
  ASSUME TypeOK, NEW h \in Handlers, OfRequest(h), TokenThere
  PROVE  TokenThere'
<1>1. CASE InsertAPIToken(h) \/ \E s \in Sessions : InsertSession(h, s)
  BY <1>1 DEF InsertAPIToken, InsertSession, TokenThere
<1>2. CASE CreateAgent(h) \/ UNCHANGED agentVars
  BY <1>2 DEF CreateAgent, agentVars, TokenThere
<1> QED
  BY <1>1, <1>2
     DEF OfRequest, GrantDefaultPermissions, GrantRolePermissions, Grant, Revoke, InsertGranted,
         RevokeAgentPermission, Scan, DeleteKey, ExchangeAPITokenForSession,
         AuthenticateAPIKey, CheckWorkspace, AskAboutAgent, Get, HasAgentPermission, Set,
         Acts, Expires, Fails

LEMMA GoneStep == TypeOK /\ CacheInv /\ GoneInv /\ [Next]_vars => GoneInv'
<1> SUFFICES ASSUME TypeOK, CacheInv, GoneInv, [Next]_vars, agent' = "gone",
                    NEW g \in Handlers
             PROVE  /\ Inside(g)' => req'[g].by <= goneAt' + Timeout
                    /\ Public(g)' => req'[g].by <= goneAt' + Timeout \/ TokenThere'
  BY DEF GoneInv
<1>1. ASSUME NEW h \in Handlers, OfRequest(h)
      PROVE  /\ Inside(g)' => req'[g].by <= goneAt' + Timeout
             /\ Public(g)' => req'[g].by <= goneAt' + Timeout \/ TokenThere'
  <2>1. agent = "gone" /\ goneAt' = goneAt
    BY <1>1, RequestGone
  <2>2. Inside(g)' => Inside(g) /\ req'[g].by = req[g].by
    BY <1>1, RequestInside DEF NobodyEnters
  <2>3. Public(g)' => (Public(g) /\ req'[g] = req[g]) \/ TokenThere
    BY <1>1, RequestPublic DEF PublicByToken
  <2>4. TokenThere => TokenThere'
    BY <1>1, TokensStay
  <2> QED
    BY <2>1, <2>2, <2>3, <2>4 DEF GoneInv
<1>2. CASE DeleteAgent
  <2>1. req' = req /\ goneAt' = now
    BY <1>2 DEF DeleteAgent
  <2> QED
    BY <2>1 DEF CacheInv, Inside, Public
<1>3. CASE Tick \/ UNCHANGED vars
  <2>1. req' = req /\ UNCHANGED agentVars
    BY <1>3 DEF Tick, vars
  <2> QED
    BY <2>1 DEF GoneInv, Inside, Public, TokenThere, agentVars
<1> QED
  BY <1>1, <1>2, <1>3 DEF Next

\* Whatever tokens and cached permissions outlive an agent, it does nothing in a
\* workspace once the requests that were inside when it was deleted have reached
\* their deadline, and what it may still do needs a token of after the deletion.
THEOREM DeletedIsOut == Spec => []DeletedActsNoMore
<1>1. Init => CacheInv /\ GoneInv
  BY DEF Init, CacheInv, Asked, Idle, GoneInv
<1>2. TypeOK /\ CacheInv /\ [Next]_vars => CacheInv'
  BY CacheStep
<1>3. TypeOK /\ CacheInv /\ GoneInv /\ [Next]_vars => GoneInv'
  BY GoneStep
<1>4. TypeOK /\ GoneInv => DeletedActsNoMore
  <2> SUFFICES ASSUME TypeOK, GoneInv, NEW h \in Handlers, agent = "gone",
                      now > goneAt + Timeout
               PROVE  /\ At(h, "allowed") => ~req[h].own
                      /\ At(h, "community") => TokenThere
    BY DEF DeletedActsNoMore, TokenThere
  <2>1. ASSUME At(h, "allowed") \/ At(h, "community")
        PROVE  req[h] # Idle /\ req[h].by > goneAt + Timeout
               /\ ~(req[h].by <= goneAt + Timeout)
    <3>1. req[h] \in Request /\ req[h] # Idle /\ now <= req[h].by
      BY <2>1, AtType DEF Steps
    <3>2. now \in Nat /\ req[h].by \in Nat /\ goneAt + Timeout \in Nat
      BY <3>1, Bounds DEF TypeOK, Start, Request
    <3> QED
      BY <3>1, <3>2
  <2>2. At(h, "allowed") => ~req[h].own
    BY <2>1 DEF At, Inside, GoneInv
  <2>3. At(h, "community") => TokenThere
    BY <2>1 DEF At, Public, GoneInv
  <2> QED
    BY <2>2, <2>3
<1> QED
  BY <1>1, <1>2, <1>3, <1>4, AccessTypes, PTL DEF Spec
=============================================================================
