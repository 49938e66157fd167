-------------------------- MODULE TaskLogs_proofs ---------------------------
(***************************************************************************)
(* Theorems about TaskLogs, for any number of instances, watchers, posts   *)
(* and lines, and any capacity of a channel.                               *)
(***************************************************************************)
EXTENDS TaskLogs, SequenceTheorems, TLAPS

-----------------------------------------------------------------------------
(* Types. A post that has come has its line and the instance it came to.   *)

PostType == [step : Steps, on : Instances \cup {None}, line : Lines \cup {None},
             time : Times, left : SUBSET Conns]
Relays   == [post : Posts, left : SUBSET Conns]

Came(p) == post[p].step # "new"

Known == \A p \in Posts : Came(p) => post[p].on \in Instances /\ post[p].line \in Lines

Typed == TypeOK /\ Known

\* Idle is not a message the loop of Start has in hand.
LEMMA IdleApart == \A x \in Relays \cup {Idle} : x # Idle <=> x \in Relays
BY DEF Relays, Idle

\* What is left of a message, when there is nothing left, is nothing.
LEMMA RelayingType ==
  ASSUME NEW p \in Posts, NEW left \in SUBSET Conns
  PROVE  /\ Relaying(p, left) \in Relays \cup {Idle}
         /\ Relaying(p, left) # Idle => Relaying(p, left) = [post |-> p, left |-> left]
BY DEF Relaying, Relays

\* A send leaves a channel of posts within its capacity.
LEMMA SentType ==
  ASSUME NEW c \in Conns, NEW p \in Posts, queue \in [Conns -> Seq(Posts)],
         \A d \in Conns : Len(queue[d]) <= Cap
  PROVE  /\ Sent(c, p) \in [Conns -> Seq(Posts)]
         /\ \A d \in Conns : Len(Sent(c, p)[d]) <= Cap
<1>1. CASE Len(queue[c]) < Cap
  <2>1. Append(queue[c], p) \in Seq(Posts) /\ Len(Append(queue[c], p)) = Len(queue[c]) + 1
    OBVIOUS
  <2>2. Len(Append(queue[c], p)) <= Cap
    BY <1>1, <2>1, LogsAssumption
  <2> QED BY <1>1, <2>1, <2>2 DEF Sent
<1>2. CASE ~ (Len(queue[c]) < Cap)
  BY <1>2 DEF Sent
<1> QED BY <1>1, <1>2

\* A post on its way goes on.
Moved(p, step, left) ==
  /\ post' \in [Posts -> PostType]
  /\ \A q \in Posts : q # p => post'[q] = post[q]
  /\ post'[p].step = step /\ post'[p].left = left
  /\ post'[p].on = post[p].on /\ post'[p].line = post[p].line /\ post'[p].time = post[p].time

\* How a step of a post changes it.
LEMMA PostMoves ==
  ASSUME Typed, NEW p \in Posts
  PROVE  /\ Persist(p) => Moved(p, "copy", post[p].left) \/ Moved(p, "failed", post[p].left)
         /\ CopySubscribers(p) => Moved(p, "send", subs[post[p].on])
         /\ \A c \in Conns : Send(p, c) => Moved(p, "send", post[p].left \ {c})
         /\ \A c \in Conns : SendPanics(p, c) => Moved(p, "failed", {})
         /\ BufferLine(p) => Moved(p, "publish", post[p].left)
         /\ \A reached \in SUBSET Instances : PublishToRedis(p, reached)
              => Moved(p, "accepted", post[p].left) \/ Moved(p, "failed", post[p].left)
<1>1. ASSUME NEW step \in Steps, NEW left \in SUBSET Conns,
             post' = [post EXCEPT ![p] = [post[p] EXCEPT !.step = step, !.left = left]]
      PROVE  Moved(p, step, left)
  <2>1. post \in [Posts -> PostType] /\ post[p] \in PostType
    BY DEF Typed, TypeOK, PostType
  <2>2. PICK r : r = [post[p] EXCEPT !.step = step, !.left = left]
    OBVIOUS
  <2>3. /\ r \in PostType /\ r.step = step /\ r.left = left
        /\ r.on = post[p].on /\ r.line = post[p].line /\ r.time = post[p].time
    BY <2>1, <2>2 DEF PostType
  <2>4. post' = [post EXCEPT ![p] = r]
    BY <1>1, <2>2
  <2> QED BY <2>1, <2>3, <2>4 DEF Moved
<1>2. ASSUME NEW step \in Steps, post' = [post EXCEPT ![p].step = step]
      PROVE  Moved(p, step, post[p].left)
  <2>1. post[p] \in PostType /\ post[p].left \in SUBSET Conns
    BY DEF Typed, TypeOK, PostType
  <2>2. [post[p] EXCEPT !.step = step]
          = [post[p] EXCEPT !.step = step, !.left = post[p].left]
    BY <2>1 DEF PostType
  <2> QED BY <1>1, <1>2, <2>1, <2>2
<1>3. ASSUME NEW step \in Steps, NEW left \in SUBSET Conns,
             post' = [post EXCEPT ![p].step = step, ![p].left = left]
      PROVE  Moved(p, step, left)
  BY <1>1, <1>3 DEF Typed, TypeOK
<1>4. ASSUME NEW c \in Conns, Send(p, c) PROVE Moved(p, "send", post[p].left \ {c})
  <2>1. post[p] \in PostType /\ post[p].left \ {c} \in SUBSET Conns /\ post[p].step = "send"
    BY <1>4 DEF Send, At, Typed, TypeOK, PostType
  <2>2. [post[p] EXCEPT !.left = post[p].left \ {c}]
          = [post[p] EXCEPT !.step = "send", !.left = post[p].left \ {c}]
    BY <2>1 DEF PostType
  <2>3. post' = [post EXCEPT ![p] = [post[p] EXCEPT !.left = post[p].left \ {c}]]
    BY <1>4 DEF Send
  <2> QED BY <1>1, <2>1, <2>2, <2>3 DEF Steps
<1>5. ASSUME CopySubscribers(p) PROVE subs[post[p].on] \in SUBSET Conns
  BY <1>5 DEF CopySubscribers, At, Typed, TypeOK, Known, Came
<1>6. {"copy", "failed", "send", "publish", "accepted"} \subseteq Steps /\ {} \in SUBSET Conns
  BY DEF Steps
<1>7. Persist(p) => Moved(p, "copy", post[p].left) \/ Moved(p, "failed", post[p].left)
  BY <1>2, <1>6 DEF Persist, Goes
<1>8. CopySubscribers(p) => Moved(p, "send", subs[post[p].on])
  BY <1>3, <1>5, <1>6 DEF CopySubscribers
<1>9. ASSUME NEW c \in Conns, SendPanics(p, c) PROVE Moved(p, "failed", {})
  BY <1>3, <1>6, <1>9 DEF SendPanics
<1>10. BufferLine(p) => Moved(p, "publish", post[p].left)
  BY <1>2, <1>6 DEF BufferLine, Goes
<1>11. ASSUME NEW reached \in SUBSET Instances, PublishToRedis(p, reached)
       PROVE  Moved(p, "accepted", post[p].left) \/ Moved(p, "failed", post[p].left)
  BY <1>2, <1>6, <1>11 DEF PublishToRedis, Goes
<1> QED BY <1>4, <1>7, <1>8, <1>9, <1>10, <1>11

\* A step of a post.
LEMMA PostTyped ==
  ASSUME Typed, NEW p \in Posts, OfPost(p)
  PROVE  Typed'
<1> USE LogsAssumption
<1>0. post \in [Posts -> PostType] /\ post[p] \in PostType
  BY DEF Typed, TypeOK, PostType
<1>8. ASSUME NEW step, NEW left, Came(p), Moved(p, step, left)
      PROVE  post' \in [Posts -> PostType] /\ Known'
  BY <1>8 DEF Moved, Known, Came, Typed
<1>1. ASSUME NEW i \in Instances, NEW line \in Lines, Post(p, i, line) PROVE Typed'
  <2>1. post' \in [Posts -> PostType]
    BY <1>0, <1>1 DEF Post, Typed, TypeOK, PostType, Steps
  <2>2. Known' /\ after' \in [Posts -> SUBSET Posts]
    BY <1>1 DEF Post, Typed, TypeOK, Known, Came, Accepted
  <2> QED BY <1>1, <2>1, <2>2 DEF Post, Typed, TypeOK, PostType, redisVars, connVars
<1>2. CASE Persist(p)
  <2>1. post' \in [Posts -> PostType] /\ Known'
    BY <1>8, <1>2, PostMoves DEF Persist, At, Came
  <2> QED BY <1>2, <2>1 DEF Persist, Typed, TypeOK, PostType, redisVars, connVars
<1>3. CASE CopySubscribers(p)
  <2>2. post' \in [Posts -> PostType] /\ Known'
    BY <1>8, <1>3, PostMoves DEF CopySubscribers, At, Came
  <2> QED BY <1>3, <2>2 DEF CopySubscribers, Typed, TypeOK, PostType, redisVars, connVars
<1>4. ASSUME NEW c \in Conns, Send(p, c) PROVE Typed'
  <2>1. queue' \in [Conns -> Seq(Posts)] /\ \A d \in Conns : Len(queue'[d]) <= Cap
    BY <1>4, SentType DEF Send, Typed, TypeOK
  <2>3. post' \in [Posts -> PostType] /\ Known'
    BY <1>8, <1>4, PostMoves DEF Send, At, Came
  <2> QED BY <1>4, <2>1, <2>3 DEF Send, Typed, TypeOK, PostType, redisVars, connVars
<1>5. ASSUME NEW c \in Conns, SendPanics(p, c) PROVE Typed'
  <2>1. post' \in [Posts -> PostType] /\ Known'
    BY <1>8, <1>5, PostMoves DEF SendPanics, At, Came
  <2> QED BY <1>5, <2>1 DEF SendPanics, Typed, TypeOK, PostType, redisVars, connVars
<1>6. CASE BufferLine(p)
  <2>1. Entry(p) \in Entries
    BY <1>0, <1>6 DEF BufferLine, At, Typed, Known, Came, Entry, Entries, PostType
  <2>2. post' \in [Posts -> PostType] /\ Known'
    BY <1>8, <1>6, PostMoves DEF BufferLine, At, Came
  <2> QED BY <1>6, <2>1, <2>2 DEF BufferLine, Buffered, Typed, TypeOK, PostType, connVars
<1>7. ASSUME NEW reached \in SUBSET Instances, PublishToRedis(p, reached) PROVE Typed'
  <2>1. PICK m \in [post : Posts, source : Instances] : m = [post |-> p, source |-> post[p].on]
    BY <1>7 DEF PublishToRedis, At, Typed, Known, Came
  <2>2. \A i \in Instances : Append(wire[i], m) \in Seq([post : Posts, source : Instances])
    BY <2>1, AppendProperties DEF Typed, TypeOK
  <2>3. wire' \in [Instances -> Seq([post : Posts, source : Instances])]
    BY <1>7, <2>1, <2>2 DEF PublishToRedis, Typed, TypeOK
  <2>4. post' \in [Posts -> PostType] /\ Known'
    BY <1>8, <1>7, PostMoves DEF PublishToRedis, At, Came
  <2> QED BY <1>7, <2>3, <2>4 DEF PublishToRedis, Typed, TypeOK, PostType, connVars
<1> QED BY <1>1, <1>2, <1>3, <1>4, <1>5, <1>6, <1>7 DEF OfPost

\* An instance goes down.
LEMMA DownTyped ==
  ASSUME Typed, NEW i \in Instances, Down(i), crashes' \in 0 .. MaxCrashes
  PROVE  Typed'
<1> USE LogsAssumption
<1>1. post \in [Posts -> PostType]
  BY DEF Typed, TypeOK, PostType
<1>2. post' \in [Posts -> PostType]
  <2>1. ASSUME NEW r \in PostType
        PROVE  [r EXCEPT !.step = "failed", !.left = {}] \in PostType
    BY DEF PostType, Steps
  <2> QED BY <1>1, <2>1 DEF Down
<1>3. Known'
  BY <1>1 DEF Down, Typed, Known, Came, InFlight, PostType
<1>4. \A S : <<>> \in Seq(S) /\ Len(<<>>) = 0
  BY EmptySeq
<1>5. /\ queue' = [c \in Conns |-> IF at[c] = i THEN <<>> ELSE queue[c]]
      /\ queue \in [Conns -> Seq(Posts)]
      /\ \A c \in Conns : Len(queue[c]) <= Cap
  BY DEF Down, Typed, TypeOK
<1>6. at' \in [Conns -> Instances \cup {None}]
  BY DEF Down, Typed, TypeOK
<1>7. wire' \in [Instances -> Seq([post : Posts, source : Instances])]
  <2>1. /\ wire' = [wire EXCEPT ![i] = <<>>]
        /\ wire \in [Instances -> Seq([post : Posts, source : Instances])]
    BY DEF Down, Typed, TypeOK
  <2> QED BY <1>4, <2>1
<1>8. subs' \in [Instances -> SUBSET Conns] /\ relay' \in [Instances -> Relays \cup {Idle}]
  BY DEF Down, Typed, TypeOK, Relays
<1>9. queue' \in [Conns -> Seq(Posts)] /\ \A c \in Conns : Len(queue'[c]) <= Cap
  BY <1>4, <1>5
<1> QED BY <1>2, <1>3, <1>6, <1>7, <1>8, <1>9 DEF Down, Typed, TypeOK, PostType, Relays

\* A step of the loop of Start.
LEMMA InstanceTyped ==
  ASSUME Typed, NEW i \in Instances, OfInstance(i)
  PROVE  Typed'
<1> USE LogsAssumption
<1>0. relay \in [Instances -> Relays \cup {Idle}]
  BY DEF Typed, TypeOK, Relays
<1>1. CASE TakeMessage(i)
  <2>1. /\ Head(wire[i]) \in [post : Posts, source : Instances]
        /\ Tail(wire[i]) \in Seq([post : Posts, source : Instances])
    BY <1>1, HeadTailProperties DEF TakeMessage, Typed, TypeOK
  <2>2. \A left \in SUBSET Conns : Relaying(Head(wire[i]).post, left) \in Relays \cup {Idle}
    BY <2>1, RelayingType
  <2>3. relay' \in [Instances -> Relays \cup {Idle}]
    BY <1>0, <1>1, <2>2 DEF TakeMessage, Typed, TypeOK
  <2>4. wire' \in [Instances -> Seq([post : Posts, source : Instances])]
    BY <1>1, <2>1 DEF TakeMessage, Typed, TypeOK
  <2> QED BY <1>1, <2>3, <2>4
          DEF TakeMessage, Typed, TypeOK, Known, Came, Relays, postVars, connVars
<1>2. ASSUME NEW c \in Conns, RelaySend(i, c) PROVE Typed'
  <2>1. relay[i] \in Relays
    BY <1>0, <1>2, IdleApart DEF RelaySend
  <2>2. queue' \in [Conns -> Seq(Posts)] /\ \A d \in Conns : Len(queue'[d]) <= Cap
    BY <1>2, <2>1, SentType DEF RelaySend, Typed, TypeOK, Relays
  <2>3. Relaying(relay[i].post, relay[i].left \ {c}) \in Relays \cup {Idle}
    BY <2>1, RelayingType DEF Relays
  <2>4. relay' \in [Instances -> Relays \cup {Idle}]
    BY <1>0, <1>2, <2>3 DEF RelaySend
  <2> QED BY <1>2, <2>2, <2>4
          DEF RelaySend, Typed, TypeOK, Known, Came, Relays, postVars, redisVars, connVars
<1>3. ASSUME NEW c \in Conns, RelayPanics(i, c) PROVE Typed'
  BY <1>3, DownTyped DEF RelayPanics, Typed, TypeOK
<1>4. CASE Crash(i)
  <2>1. crashes' \in 0 .. MaxCrashes
    BY <1>4 DEF Crash, Typed, TypeOK
  <2> QED BY <1>4, <2>1, DownTyped DEF Crash
<1> QED BY <1>1, <1>2, <1>3, <1>4 DEF OfInstance

\* A step of a watcher.
LEMMA WatcherTyped ==
  ASSUME Typed, NEW c \in Conns,
         \/ \E i \in Instances, node \in Nodes \cup {None} : Watch(c, i, node)
         \/ Forward(c) \/ Unsubscribe(c)
  PROVE  Typed'
<1> USE LogsAssumption
<1>1. ASSUME NEW i \in Instances, NEW node \in Nodes \cup {None}, Watch(c, i, node)
      PROVE  Typed'
  <2>1. subs' \in [Instances -> SUBSET Conns] /\ seen' \in [Conns -> Seq(Posts)]
    BY <1>1 DEF Watch, Typed, TypeOK
  <2> QED BY <1>1, <2>1 DEF Watch, Typed, TypeOK, Known, Came, postVars, redisVars
<1>2. CASE Forward(c)
  <2>1. /\ queue[c] \in Seq(Posts) /\ Len(queue[c]) <= Cap /\ queue[c] # <<>>
        /\ seen[c] \in Seq(Posts)
    BY <1>2 DEF Forward, Typed, TypeOK
  <2>2. /\ Head(queue[c]) \in Posts /\ Tail(queue[c]) \in Seq(Posts)
        /\ Len(Tail(queue[c])) = Len(queue[c]) - 1
    BY <2>1
  <2>3. Append(seen[c], Head(queue[c])) \in Seq(Posts) /\ Len(Tail(queue[c])) <= Cap
    BY <2>1, <2>2
  <2>4. /\ queue' \in [Conns -> Seq(Posts)] /\ seen' \in [Conns -> Seq(Posts)]
        /\ \A d \in Conns : Len(queue'[d]) <= Cap
    BY <1>2, <2>2, <2>3 DEF Forward, Typed, TypeOK
  <2> QED BY <1>2, <2>4 DEF Forward, Typed, TypeOK, Known, Came, postVars, redisVars
<1>3. CASE Unsubscribe(c)
  <2>1. queue' \in [Conns -> Seq(Posts)] /\ \A d \in Conns : Len(queue'[d]) <= Cap
    BY <1>3 DEF Unsubscribe, Typed, TypeOK
  <2>2. subs' \in [Instances -> SUBSET Conns] /\ at' \in [Conns -> Instances \cup {None}]
    BY <1>3 DEF Unsubscribe, Typed, TypeOK
  <2> QED BY <1>3, <2>1, <2>2 DEF Unsubscribe, Typed, TypeOK, Known, Came, postVars, redisVars
<1> QED BY <1>1, <1>2, <1>3

\* Initially.
LEMMA InitTyped == Init => Typed
BY LogsAssumption DEF Init, Typed, TypeOK, Known, Came, Times, Steps, Idle

\* Every step keeps the types.
LEMMA NextTyped == Typed /\ [Next]_vars => Typed'
<1> SUFFICES ASSUME Typed, [Next]_vars PROVE Typed'
  OBVIOUS
<1>1. CASE Tick
  <2>1. now' \in Times
    BY <1>1, LogsAssumption DEF Tick, Typed, TypeOK, Times
  <2> QED BY <1>1, <2>1 DEF Tick, Typed, TypeOK, Known, Came, postVars, redisVars, connVars
<1>2. CASE Expire
  BY <1>2 DEF Expire, Typed, TypeOK, Known, Came, postVars, connVars
<1>3. CASE UNCHANGED vars
  BY <1>3 DEF vars, Typed, TypeOK, Known, Came, postVars, redisVars, connVars
<1> QED BY <1>1, <1>2, <1>3, PostTyped, InstanceTyped, WatcherTyped DEF Next

\* Every variable has its type, a post that has come knows where it came to,
\* and a channel never holds more than its capacity.
THEOREM TypeCorrect == Spec => []TypeOK
<1>1. Typed => TypeOK
  BY DEF Typed
<1> QED BY <1>1, InitTyped, NextTyped, PTL DEF Spec

-----------------------------------------------------------------------------
(* What is shown is in the table, and what was accepted is shown.          *)

\* A post that has come stays what it is.
LEMMA PostStays ==
  ASSUME Typed, [Next]_vars, NEW p \in Posts, Came(p)
  PROVE  /\ (Came(p))' /\ Entry(p)' = Entry(p)
         /\ post'[p].on = post[p].on /\ post'[p].line = post[p].line
<1> DEFINE Same(q) == /\ post'[q].step # "new" /\ post'[q].time = post[q].time
                      /\ post'[q].on = post[q].on /\ post'[q].line = post[q].line
<1>1. ASSUME NEW q \in Posts, NEW i \in Instances, NEW line \in Lines, Post(q, i, line)
      PROVE  Same(p)
  BY <1>1 DEF Post, Came, Typed, TypeOK
<1>2. ASSUME NEW q \in Posts, NEW step, NEW left, Moved(q, step, left), step # "new"
      PROVE  Same(p)
  BY <1>2 DEF Moved, Came
<1>3. ASSUME NEW q \in Posts, OfPost(q) PROVE Same(p)
  BY <1>1, <1>2, <1>3, PostMoves DEF OfPost
<1>4. ASSUME NEW i \in Instances, Down(i) PROVE Same(p)
  <2>1. post[p] \in PostType
    BY DEF Typed, TypeOK, PostType
  <2> QED BY <1>4, <2>1 DEF Down, Came, PostType
<1>5. ASSUME NEW i \in Instances, OfInstance(i) PROVE Same(p)
  BY <1>4, <1>5 DEF OfInstance, TakeMessage, RelaySend, RelayPanics, Crash, Came, postVars
<1>6. ASSUME \/ Tick \/ Expire \/ UNCHANGED vars
             \/ \E c \in Conns : \/ Forward(c) \/ Unsubscribe(c)
                               \/ \E i \in Instances, node \in Nodes \cup {None} : Watch(c, i, node)
      PROVE  Same(p)
  BY <1>6 DEF Tick, Expire, Forward, Unsubscribe, Watch, vars, postVars, Came
<1>7. Same(p)
  BY <1>3, <1>5, <1>6 DEF Next
<1> QED BY <1>7 DEF Came, Entry

\* A post is past the table, and the table is all that it goes on with.
Persisted ==
  /\ \A p \in Posts :
       post[p].step \in {"copy", "send", "publish", "accepted"} => p \in logs
  /\ \A p \in logs : p \in Posts /\ Came(p)

FromTable ==
  /\ queue \in [Conns -> Seq(logs)] /\ seen \in [Conns -> Seq(logs)]
  /\ wire \in [Instances -> Seq([post : logs, source : Instances])]
  /\ \A i \in Instances : relay[i] # Idle => relay[i].post \in logs
  /\ buffer \subseteq {Entry(p) : p \in logs}

\* The rows of the table stay there.
LEMMA LogsStay ==
  ASSUME [Next]_vars
  PROVE  logs \subseteq logs'
<1>1. ASSUME NEW p \in Posts, OfPost(p) PROVE logs \subseteq logs'
  BY <1>1 DEF OfPost, Post, Persist, CopySubscribers, Send, SendPanics, BufferLine, PublishToRedis
<1>2. ASSUME NEW i \in Instances, OfInstance(i) PROVE logs \subseteq logs'
  BY <1>2 DEF OfInstance, TakeMessage, RelaySend, RelayPanics, Crash, Down
<1> QED BY <1>1, <1>2 DEF Next, Tick, Watch, Forward, Unsubscribe, Expire, vars

\* Nothing is past the table that is not in it.
LEMMA NextPersisted == Typed /\ Persisted /\ [Next]_vars => Persisted'
<1> SUFFICES ASSUME Typed, Persisted, [Next]_vars PROVE Persisted'
  OBVIOUS
<1> DEFINE Past == {"copy", "send", "publish", "accepted"}
<1>1. ASSUME NEW p \in Posts, NEW step, NEW left, Moved(p, step, left), step # "new",
             step \in Past => p \in logs', logs' \subseteq logs \cup {p}
      PROVE  Persisted'
  <2>1. logs \subseteq logs'
    BY LogsStay
  <2> QED BY <1>1, <2>1 DEF Moved, Persisted, Came
<1>2. ASSUME NEW p \in Posts, OfPost(p) PROVE Persisted'
  <2>1. ASSUME NEW i \in Instances, NEW line \in Lines, Post(p, i, line) PROVE Persisted'
    BY <2>1 DEF Post, Persisted, Came, Typed, TypeOK
  <2>2. CASE Persist(p)
    <3>1. logs' = logs \cup {p} \/ (logs' = logs /\ post'[p].step = "failed")
      BY <2>2 DEF Persist, Goes, Typed, TypeOK
    <3>2. Moved(p, "copy", post[p].left) \/ Moved(p, "failed", post[p].left)
      BY <2>2, PostMoves
    <3>3. Moved(p, "copy", post[p].left) => post'[p].step = "copy"
      BY DEF Moved
    <3> QED BY <1>1, <3>1, <3>2, <3>3
  <2>3. CASE CopySubscribers(p)
    BY <1>1, <2>3, PostMoves DEF CopySubscribers, Persisted, At
  <2>4. ASSUME NEW c \in Conns, Send(p, c) PROVE Persisted'
    <3>1. Moved(p, "send", post[p].left \ {c}) /\ p \in logs /\ logs' = logs
      BY <2>4, PostMoves DEF Send, Persisted, At
    <3> QED BY <1>1, <3>1
  <2>5. ASSUME NEW c \in Conns, SendPanics(p, c) PROVE Persisted'
    BY <1>1, <2>5, PostMoves DEF SendPanics
  <2>6. CASE BufferLine(p)
    BY <1>1, <2>6, PostMoves DEF BufferLine, Persisted, At
  <2>7. ASSUME NEW reached \in SUBSET Instances, PublishToRedis(p, reached) PROVE Persisted'
    BY <1>1, <2>7, PostMoves DEF PublishToRedis, Persisted, At
  <2> QED BY <1>2, <2>1, <2>2, <2>3, <2>4, <2>5, <2>6, <2>7 DEF OfPost
<1>3. ASSUME NEW i \in Instances, Down(i) PROVE Persisted'
  <2>1. post \in [Posts -> PostType]
    BY DEF Typed, TypeOK, PostType
  <2>2. \A p \in Posts : post'[p].step \in {post[p].step, "failed"}
    BY <1>3, <2>1 DEF Down, PostType
  <2>3. \A p \in Posts : Came(p) => (Came(p))'
    BY <2>1, <2>2 DEF Came
  <2> QED BY <1>3, <2>2, <2>3 DEF Down, Persisted
<1>4. ASSUME UNCHANGED <<post, logs>> PROVE Persisted'
  BY <1>4 DEF Persisted, Came
<1> HIDE DEF Past
<1>5. ASSUME NEW i \in Instances, OfInstance(i) PROVE Persisted'
  BY <1>3, <1>4, <1>5 DEF OfInstance, TakeMessage, RelaySend, RelayPanics, Crash, postVars
<1> QED BY <1>2, <1>4, <1>5 DEF Next, Tick, Watch, Forward, Unsubscribe, Expire, vars, postVars

\* Whatever is on its way to a watcher is of the table.
LEMMA SentFromTable ==
  ASSUME FromTable, NEW c \in Conns, NEW p \in logs
  PROVE  Sent(c, p) \in [Conns -> Seq(logs)]
<1>1. Append(queue[c], p) \in Seq(logs)
  BY AppendProperties DEF FromTable
<1> QED BY <1>1 DEF Sent, FromTable

\* Nothing is handed on whose row is not in the table.
LEMMA NextFromTable == Typed /\ Persisted /\ FromTable /\ [Next]_vars => FromTable'
<1> SUFFICES ASSUME Typed, Persisted, FromTable, [Next]_vars PROVE FromTable'
  OBVIOUS
<1> DEFINE Messages(S) == Seq([post : S, source : Instances])
           Rest(S) == /\ queue' \in [Conns -> Seq(S)] /\ seen' \in [Conns -> Seq(S)]
                      /\ wire' \in [Instances -> Messages(S)]
                      /\ \A i \in Instances : relay'[i] # Idle => relay'[i].post \in S
                      /\ buffer' \subseteq {Entry(p) : p \in S}
<1>0. /\ queue \in [Conns -> Seq(logs)] /\ seen \in [Conns -> Seq(logs)]
      /\ wire \in [Instances -> Messages(logs)]
      /\ relay \in [Instances -> Relays \cup {Idle}]
      /\ \A i \in Instances : relay[i] # Idle => relay[i].post \in logs
      /\ buffer \subseteq {Entry(p) : p \in logs}
      /\ \A S : <<>> \in Seq(S)
  BY EmptySeq DEF FromTable, Typed, TypeOK, Relays
<1>1. ASSUME Rest(logs) PROVE FromTable'
  <2>1. logs \subseteq logs'
    BY LogsStay
  <2>2. [post : logs, source : Instances] \subseteq [post : logs', source : Instances]
    BY <2>1
  <2>3. Seq(logs) \subseteq Seq(logs') /\ Messages(logs) \subseteq Messages(logs')
    BY <2>1, <2>2, SeqMonotonic
  <2>4. ASSUME NEW p \in logs PROVE Entry(p)' = Entry(p)
    BY <2>4, PostStays DEF Persisted
  <2>5. buffer' \subseteq {Entry(p) : p \in logs}'
    BY <1>1, <2>1, <2>4
  <2> QED BY <1>1, <2>1, <2>3, <2>5 DEF FromTable
<1>2. ASSUME NEW p \in Posts, OfPost(p) PROVE Rest(logs)
  <2>1. ASSUME NEW c \in Conns, Send(p, c) PROVE Rest(logs)
    <3>1. p \in logs
      BY <2>1 DEF Send, At, Persisted
    <3> QED BY <1>0, <2>1, <3>1, SentFromTable DEF Send, redisVars, connVars
  <2>2. CASE BufferLine(p)
    <3>1. p \in logs
      BY <2>2 DEF BufferLine, At, Persisted
    <3> QED BY <1>0, <2>2, <3>1 DEF BufferLine, Buffered, connVars
  <2>3. ASSUME NEW reached \in SUBSET Instances, PublishToRedis(p, reached) PROVE Rest(logs)
    <3>1. p \in logs /\ post[p].on \in Instances
      BY <2>3 DEF PublishToRedis, At, Persisted, Typed, Known, Came
    <3>2. PICK m \in [post : logs, source : Instances] : m = [post |-> p, source |-> post[p].on]
      BY <3>1
    <3>3. \A i \in Instances : Append(wire[i], m) \in Messages(logs)
      BY <1>0, <3>2, AppendProperties
    <3>4. wire' \in [Instances -> Messages(logs)]
      BY <1>0, <2>3, <3>2, <3>3 DEF PublishToRedis
    <3> QED BY <1>0, <2>3, <3>4 DEF PublishToRedis, connVars
  <2>4. ASSUME \/ \E i \in Instances, line \in Lines : Post(p, i, line)
               \/ Persist(p) \/ CopySubscribers(p) \/ \E c \in Conns : SendPanics(p, c)
        PROVE  Rest(logs)
    BY <1>0, <2>4 DEF Post, Persist, CopySubscribers, SendPanics, redisVars, connVars
  <2> QED BY <1>2, <2>1, <2>2, <2>3, <2>4 DEF OfPost
<1>3. ASSUME NEW i \in Instances, Down(i) PROVE Rest(logs)
  <2>1. wire' \in [Instances -> Messages(logs)]
    BY <1>0, <1>3 DEF Down
  <2>2. queue' = [c \in Conns |-> IF at[c] = i THEN <<>> ELSE queue[c]]
    BY <1>3 DEF Down
  <2>3. queue' \in [Conns -> Seq(logs)]
    BY <1>0, <2>2
  <2>4. \A j \in Instances : relay'[j] # Idle => relay'[j].post \in logs
    BY <1>0, <1>3 DEF Down
  <2> QED BY <1>0, <1>3, <2>1, <2>3, <2>4 DEF Down
<1>4. ASSUME NEW i \in Instances, TakeMessage(i) PROVE Rest(logs)
  <2>1. /\ wire[i] \in Messages(logs) /\ wire[i] # <<>>
        /\ Head(wire[i]) \in [post : logs, source : Instances] /\ Tail(wire[i]) \in Messages(logs)
    BY <1>0, <1>4, HeadTailProperties DEF TakeMessage
  <2>2. wire' \in [Instances -> Messages(logs)]
    BY <1>0, <1>4, <2>1 DEF TakeMessage
  <2>3. \A j \in Instances : relay'[j] # Idle => relay'[j].post \in logs
    BY <1>0, <1>4, <2>1 DEF TakeMessage, Relaying
  <2> QED BY <1>0, <1>4, <2>2, <2>3 DEF TakeMessage, connVars
<1>5. ASSUME NEW i \in Instances, NEW c \in Conns, RelaySend(i, c) PROVE Rest(logs)
  <2>1. relay[i].post \in logs
    BY <1>0, <1>5 DEF RelaySend
  <2>2. \A j \in Instances : relay'[j] # Idle => relay'[j].post \in logs
    BY <1>0, <1>5, <2>1 DEF RelaySend, Relaying
  <2> QED BY <1>0, <1>5, <2>1, <2>2, SentFromTable DEF RelaySend, redisVars, connVars
<1>6. ASSUME NEW c \in Conns, Forward(c) PROVE Rest(logs)
  <2>1. /\ Head(queue[c]) \in logs /\ Tail(queue[c]) \in Seq(logs)
        /\ Append(seen[c], Head(queue[c])) \in Seq(logs)
    BY <1>0, <1>6, HeadTailProperties, AppendProperties DEF Forward
  <2>2. queue' \in [Conns -> Seq(logs)] /\ seen' \in [Conns -> Seq(logs)]
    BY <1>0, <1>6, <2>1 DEF Forward
  <2> QED BY <1>0, <1>6, <2>2 DEF Forward, redisVars
<1>7. ASSUME NEW c \in Conns,
             \/ Unsubscribe(c)
             \/ \E i \in Instances, node \in Nodes \cup {None} : Watch(c, i, node)
      PROVE  Rest(logs)
  <2>1. /\ \/ seen' = [seen EXCEPT ![c] = <<>>] /\ queue' = queue
           \/ seen' = seen /\ queue' = [queue EXCEPT ![c] = <<>>]
        /\ UNCHANGED <<redisVars, relay>>
    BY <1>7 DEF Watch, Unsubscribe
  <2>2. seen' \in [Conns -> Seq(logs)] /\ queue' \in [Conns -> Seq(logs)]
    BY <1>0, <2>1
  <2> QED BY <1>0, <2>1, <2>2 DEF redisVars
<1>8. ASSUME Tick \/ Expire \/ UNCHANGED vars PROVE Rest(logs)
  BY <1>0, <1>8 DEF Tick, Expire, vars, redisVars, connVars
<1>9. ASSUME NEW i \in Instances, OfInstance(i) PROVE Rest(logs)
  BY <1>3, <1>4, <1>5, <1>9 DEF OfInstance, RelayPanics, Crash
<1> HIDE DEF Rest
<1> QED BY <1>1, <1>2, <1>6, <1>7, <1>8, <1>9 DEF Next

\* At the start there are neither rows nor lines.
LEMMA InitFromTable == Init => Persisted /\ FromTable
BY EmptySeq DEF Init, Persisted, FromTable, Came, Idle

\* Whatever somebody has been sent, or is shown as the history, can be looked
\* up in the table for good, whichever instance goes down and whenever Redis
\* fails: nothing leaves a post before its row is there.
THEOREM ShownLinesAreKept == Spec => []ShownIsKept
<1> DEFINE Inv == Typed /\ Persisted /\ FromTable
<1>1. Init => Inv
  BY InitTyped, InitFromTable
<1>2. Inv /\ [Next]_vars => Inv'
  BY NextTyped, NextPersisted, NextFromTable
<1>3. Inv => ShownIsKept
  <2> SUFFICES ASSUME Inv PROVE ShownIsKept
    OBVIOUS
  <2>1. ASSUME NEW c \in Conns, NEW n \in 1 .. Len(Stream(c)) PROVE Stream(c)[n] \in logs
    <3>1. queue[c] \in Seq(logs) /\ seen[c] \in Seq(logs)
      BY DEF FromTable
    <3>2. Stream(c) \in Seq(logs)
      BY <3>1, ConcatProperties DEF Stream
    <3> QED BY <3>2, ElementOfSeq
  <2>2. ASSUME NEW node \in Nodes \cup {None} PROVE History(node) \subseteq ListTaskLogs(node)
    <3>1. ASSUME NEW b \in buffer, node \in {None, b.line.node} PROVE b \in ListTaskLogs(node)
      <4>1. PICK p \in logs : b = Entry(p)
        BY DEF FromTable
      <4>2. b.line = post[p].line
        BY <4>1 DEF Entry
      <4> QED BY <3>1, <4>1, <4>2 DEF ListTaskLogs, Wanted
    <3> QED BY <3>1 DEF History, GetBufferedLogs
  <2> QED BY <2>1, <2>2 DEF ShownIsKept
<1> HIDE DEF Inv
<1> QED BY <1>1, <1>2, <1>3, PTL DEF Spec

\* A line that has been put into the sorted set is there until Redis drops it.
InBuffer ==
  \A p \in Posts : /\ post[p].step \in {"publish", "accepted"}
                   /\ p \notin lapsed
                   => Entry(p) \in buffer

\* The set loses lines by the expiry of the whole set only, when no post is
\* on its way.
LEMMA NextInBuffer == Typed /\ Persisted /\ InBuffer /\ [Next]_vars => InBuffer'
<1> SUFFICES ASSUME Typed, Persisted, InBuffer, [Next]_vars, NEW p \in Posts,
                    post'[p].step \in {"publish", "accepted"}, p \notin lapsed'
             PROVE  Entry(p)' \in buffer'
  BY DEF InBuffer
<1>0. post \in [Posts -> PostType] /\ post[p] \in PostType
  BY DEF Typed, TypeOK, PostType
<1>1. ASSUME NEW q \in Posts, NEW step, NEW left, Moved(q, step, left),
             UNCHANGED <<buffer, lapsed>>,
             step \in {"publish", "accepted"} => post[q].step \in {"publish", "accepted"}
      PROVE  Entry(p)' \in buffer'
  BY <1>1 DEF Moved, InBuffer, Entry
<1>2. ASSUME NEW q \in Posts, OfPost(q) PROVE Entry(p)' \in buffer'
  <2>1. ASSUME NEW i \in Instances, NEW line \in Lines, Post(q, i, line)
        PROVE  Entry(p)' \in buffer'
    BY <1>0, <2>1 DEF Post, Entry, InBuffer, redisVars
  <2>2. CASE Persist(q)
    BY <1>1, <2>2, PostMoves DEF Persist, redisVars
  <2>3. CASE CopySubscribers(q)
    BY <1>1, <2>3, PostMoves DEF CopySubscribers, redisVars
  <2>4. ASSUME NEW c \in Conns, Send(q, c) PROVE Entry(p)' \in buffer'
    BY <1>1, <2>4, PostMoves DEF Send, redisVars
  <2>5. ASSUME NEW c \in Conns, SendPanics(q, c) PROVE Entry(p)' \in buffer'
    BY <1>1, <2>5, PostMoves DEF SendPanics, redisVars
  <2>6. CASE BufferLine(q)
    <3>1. Moved(q, "publish", post[q].left)
      BY <2>6, PostMoves
    <3>2. CASE p = q
      BY <2>6, <3>1, <3>2 DEF BufferLine, Buffered, Moved, Entry
    <3>3. CASE p # q
      BY <2>6, <3>1, <3>3 DEF BufferLine, Buffered, Moved, Entry, InBuffer
    <3> QED BY <3>2, <3>3
  <2>7. ASSUME NEW reached \in SUBSET Instances, PublishToRedis(q, reached)
        PROVE  Entry(p)' \in buffer'
    BY <1>1, <2>7, PostMoves DEF PublishToRedis, At
  <2> QED BY <1>2, <2>1, <2>2, <2>3, <2>4, <2>5, <2>6, <2>7 DEF OfPost
<1>3. ASSUME NEW i \in Instances, Down(i) PROVE Entry(p)' \in buffer'
  <2>1. post'[p].step = post[p].step /\ Entry(p)' = Entry(p)
    BY <1>0, <1>3 DEF Down, PostType, Entry
  <2> QED BY <1>3, <2>1 DEF Down, InBuffer
<1>4. CASE Expire
  <2>1. p \notin InFlight
    BY <1>4 DEF Expire
  <2>2. post[p].step = "accepted" /\ Entry(p) \in buffer
    BY <1>4, <2>1 DEF Expire, InFlight, InBuffer, postVars
  <2>3. p \in logs
    BY <2>2 DEF Persisted
  <2> QED BY <1>4, <2>2, <2>3 DEF Expire
<1>5. ASSUME UNCHANGED <<post, buffer, lapsed>> PROVE Entry(p)' \in buffer'
  BY <1>5 DEF InBuffer, Entry
<1>6. ASSUME NEW i \in Instances, OfInstance(i) PROVE Entry(p)' \in buffer'
  BY <1>3, <1>5, <1>6 DEF OfInstance, TakeMessage, RelaySend, RelayPanics, Crash,
                          postVars, redisVars
<1> QED BY <1>2, <1>4, <1>5, <1>6
        DEF Next, Tick, Watch, Forward, Unsubscribe, vars, postVars, redisVars

\* Every accepted line is in the history, of its node and of all, whichever of
\* the two places answers, except for the lines that Redis refused or dropped.
THEOREM HistoryIsComplete == Spec => []HistoryHasAccepted
<1> DEFINE Inv == Typed /\ Persisted /\ InBuffer
<1>1. Init => Inv
  <2>1. Init => InBuffer
    BY DEF Init, InBuffer
  <2> QED BY <2>1, InitTyped, InitFromTable
<1>2. Inv /\ [Next]_vars => Inv'
  BY NextTyped, NextPersisted, NextInBuffer
<1>3. Inv => HistoryHasAccepted
  <2> SUFFICES ASSUME Inv, NEW p \in Posts, post[p].step = "accepted", p \notin lapsed,
                      NEW node \in Nodes \cup {None}, Wanted(node, p)
               PROVE  Entry(p) \in History(node)
    BY DEF HistoryHasAccepted, Accepted
  <2>1. Entry(p) \in buffer /\ Entry(p).line = post[p].line
    BY DEF InBuffer, Entry
  <2>2. Entry(p) \in GetBufferedLogs(node)
    BY <2>1 DEF GetBufferedLogs, Wanted
  <2> QED BY <2>2 DEF History
<1> HIDE DEF Inv
<1> QED BY <1>1, <1>2, <1>3, PTL DEF Spec

-----------------------------------------------------------------------------
(* Once, and in order. A line comes to a watcher on two ways: from the     *)
(* instance it was posted to, or through Redis to every other one. Each    *)
(* way passes a line once, and the second way passes lines in the order    *)
(* they were published in.                                                 *)

In(s)       == {s[n] : n \in 1 .. Len(s)}
Received(c) == In(Stream(c))

Done(p)       == post[p].step \in {"accepted", "failed"}
Follows(q, p) == q # p /\ q \notin after[p]

\* Whoever came before a post had been accepted, and that is final.
AfterAccepted == \A p \in Posts : after[p] \subseteq Accepted

\* A list of channels names connections of its instance, or that are closed.
Places ==
  /\ \A i \in Instances : \A c \in subs[i] : at[c] = i
  /\ \A p \in Posts : \A c \in post[p].left :
       post[p].step = "send" /\ at[c] \in {post[p].on, None}
  /\ \A i \in Instances :
       relay[i] # Idle => \A c \in relay[i].left : at[c] \in {i, None}
  /\ \A c \in Conns : at[c] = None => queue[c] = <<>>

\* What Redis has yet to hand over, and what has been handed over last.
WireOf(i) ==
  /\ \A n \in 1 .. Len(wire[i]) :
       /\ wire[i][n].source = post[wire[i][n].post].on
       /\ Done(wire[i][n].post)
  /\ \A m, n \in 1 .. Len(wire[i]) : m < n => Follows(wire[i][n].post, wire[i][m].post)
  /\ relay[i] # Idle =>
       /\ Done(relay[i].post) /\ post[relay[i].post].on # i
       /\ \A n \in 1 .. Len(wire[i]) : Follows(wire[i][n].post, relay[i].post)

Wires == \A i \in Instances : WireOf(i)

\* A line that a watcher has got does not come again, nor one before it.
GotAt(c, i, p) ==
  IF post[p].on = i
    THEN post[p].step \notin {"new", "persist", "copy"} /\ c \notin post[p].left
    ELSE /\ Done(p)
         /\ \A n \in 1 .. Len(wire[i]) : Follows(wire[i][n].post, p)
         /\ relay[i] # Idle /\ c \in relay[i].left => Follows(relay[i].post, p)

Got == \A c \in Conns : \A i \in Instances :
         at[c] = i => \A p \in Received(c) : GotAt(c, i, p)

\* What may happen to a post that is accepted or failed, or past the copy.
LEMMA PostEnds ==
  ASSUME Typed, [Next]_vars, NEW p \in Posts
  PROVE  /\ Done(p) => post'[p].step = post[p].step
         /\ Came(p) => after'[p] = after[p]
         /\ post[p].step \notin {"new", "persist", "copy"}
              => /\ post'[p].step \notin {"new", "persist", "copy"}
                 /\ post'[p].left \subseteq post[p].left
<1> DEFINE Later == {"send", "publish", "accepted", "failed"}
           Ends == /\ Done(p) => post'[p].step = post[p].step
                   /\ Came(p) => after'[p] = after[p]
                   /\ post[p].step \in Later
                        => post'[p].step \in Later /\ post'[p].left \subseteq post[p].left
<1>0. post \in [Posts -> PostType] /\ post[p] \in PostType
  BY DEF Typed, TypeOK, PostType
<1>1. ASSUME NEW q \in Posts, NEW step, NEW left, Moved(q, step, left), after' = after,
             ~ Done(q), post[q].step \in Later => step \in Later /\ left \subseteq post[q].left
      PROVE  Ends
  BY <1>1 DEF Moved, Done
<1>2. ASSUME NEW q \in Posts, OfPost(q) PROVE Ends
  <2>1. ASSUME NEW i \in Instances, NEW line \in Lines, Post(q, i, line) PROVE Ends
    BY <1>0, <2>1 DEF Post, Done, Came, Typed, TypeOK
  <2>2. CASE Persist(q)
    BY <1>1, <2>2, PostMoves DEF Persist, At, Done
  <2>3. CASE CopySubscribers(q)
    BY <1>1, <2>3, PostMoves DEF CopySubscribers, At, Done
  <2>4. ASSUME NEW c \in Conns, Send(q, c) PROVE Ends
    <3>1. Moved(q, "send", post[q].left \ {c}) /\ after' = after /\ ~ Done(q)
      BY <2>4, PostMoves DEF Send, At, Done
    <3> QED BY <1>1, <3>1
  <2>5. ASSUME NEW c \in Conns, SendPanics(q, c) PROVE Ends
    <3>1. Moved(q, "failed", {}) /\ after' = after /\ ~ Done(q)
      BY <2>5, PostMoves DEF SendPanics, At, Done
    <3> QED BY <1>1, <3>1
  <2>6. CASE BufferLine(q)
    BY <1>1, <2>6, PostMoves DEF BufferLine, At, Done
  <2>7. ASSUME NEW reached \in SUBSET Instances, PublishToRedis(q, reached) PROVE Ends
    <3>1. /\ Moved(q, "accepted", post[q].left) \/ Moved(q, "failed", post[q].left)
          /\ after' = after /\ ~ Done(q)
      BY <2>7, PostMoves DEF PublishToRedis, At, Done
    <3> QED BY <1>1, <3>1
  <2> HIDE DEF Ends
  <2> QED BY <1>2, <2>1, <2>2, <2>3, <2>4, <2>5, <2>6, <2>7 DEF OfPost
<1>3. ASSUME NEW i \in Instances, Down(i) PROVE Ends
  BY <1>0, <1>3 DEF Down, InFlight, Done, PostType
<1>4. ASSUME UNCHANGED postVars PROVE Ends
  BY <1>4 DEF postVars
<1> HIDE DEF Ends
<1>5. ASSUME NEW i \in Instances, OfInstance(i) PROVE Ends
  BY <1>3, <1>4, <1>5 DEF OfInstance, TakeMessage, RelaySend, RelayPanics, Crash
<1>6. Ends
  BY <1>2, <1>4, <1>5 DEF Next, Tick, Watch, Forward, Unsubscribe, Expire, vars, postVars
<1>7. post[p].step \in Steps
  BY <1>0 DEF PostType
<1> QED BY <1>6, <1>7 DEF Ends, Steps

\* So what may follow a post that has come stays the same.
LEMMA FollowsStays ==
  ASSUME Typed, [Next]_vars, NEW p \in Posts, Came(p), NEW q
  PROVE  Follows(q, p)' = Follows(q, p)
BY PostEnds DEF Follows

\* Accepted posts stay accepted, and only a new post looks who has been.
LEMMA NextAfter == Typed /\ AfterAccepted /\ [Next]_vars => AfterAccepted'
<1> SUFFICES ASSUME Typed, AfterAccepted, [Next]_vars, NEW p \in Posts
             PROVE  after'[p] \subseteq Accepted'
  BY DEF AfterAccepted
<1>1. Accepted \subseteq Accepted'
  BY PostEnds DEF Accepted, Done
<1>2. CASE Came(p)
  BY <1>1, <1>2, PostEnds DEF AfterAccepted
<1>3. CASE ~ Came(p)
  <2>1. after'[p] \in {after[p], Accepted}
    <3>1. ASSUME NEW q \in Posts, OfPost(q) PROVE after'[p] \in {after[p], Accepted}
      BY <3>1 DEF OfPost, Post, Persist, CopySubscribers, Send, SendPanics, BufferLine,
                  PublishToRedis, Typed, TypeOK
    <3>2. ASSUME NEW i \in Instances, OfInstance(i) PROVE after' = after
      BY <3>2 DEF OfInstance, TakeMessage, RelaySend, RelayPanics, Crash, Down, postVars
    <3> QED BY <3>1, <3>2 DEF Next, Tick, Watch, Forward, Unsubscribe, Expire, vars, postVars
  <2> QED BY <1>1, <2>1 DEF AfterAccepted
<1> QED BY <1>2, <1>3

\* A list is copied from the subscribers of its instance, and no connection
\* takes a name that is in a list.
LEMMA NextPlaces == Typed /\ Places /\ [Next]_vars => Places'
<1> SUFFICES ASSUME Typed, Places, [Next]_vars PROVE Places'
  OBVIOUS
<1>0. /\ post \in [Posts -> PostType] /\ relay \in [Instances -> Relays \cup {Idle}]
      /\ subs \in [Instances -> SUBSET Conns] /\ at \in [Conns -> Instances \cup {None}]
      /\ queue \in [Conns -> Seq(Posts)] /\ None \notin Instances
  BY LogsAssumption DEF Typed, TypeOK, PostType, Relays
<1>1. ASSUME NEW p \in Posts, NEW step, NEW left, Moved(p, step, left),
             left # {} => step = "send" /\ \A c \in left : at[c] \in {post[p].on, None},
             UNCHANGED <<subs, relay, at>>,
             \A c \in Conns : at[c] = None => queue'[c] = queue[c]
      PROVE  Places'
  BY <1>0, <1>1 DEF Places, Moved
<1>2. ASSUME NEW p \in Posts, OfPost(p) PROVE Places'
  <2>0. post[p].step # "send" => post[p].left = {}
    BY DEF Places
  <2>1. ASSUME NEW i \in Instances, NEW line \in Lines, Post(p, i, line) PROVE Places'
    BY <1>0, <2>1 DEF Post, Places, connVars
  <2>2. CASE Persist(p)
    BY <1>1, <2>0, <2>2, PostMoves DEF Persist, At, connVars
  <2>3. CASE CopySubscribers(p)
    <3>1. post[p].on \in Instances
      BY <2>3 DEF CopySubscribers, At, Typed, Known, Came
    <3>2. Moved(p, "send", subs[post[p].on]) /\ UNCHANGED <<subs, relay, at, queue>>
      BY <2>3, PostMoves DEF CopySubscribers, connVars
    <3> QED BY <1>1, <3>1, <3>2 DEF Places
  <2>4. ASSUME NEW c \in Conns, Send(p, c) PROVE Places'
    <3>1. /\ Moved(p, "send", post[p].left \ {c}) /\ UNCHANGED <<subs, relay, at>>
          /\ \A d \in Conns : at[d] = None => queue'[d] = queue[d]
      BY <1>0, <2>4, PostMoves DEF Send, Sent, connVars
    <3>2. \A d \in post[p].left \ {c} : at[d] \in {post[p].on, None}
      BY DEF Places
    <3> QED BY <1>1, <3>1, <3>2
  <2>5. ASSUME NEW c \in Conns, SendPanics(p, c) PROVE Places'
    <3>1. Moved(p, "failed", {}) /\ UNCHANGED <<subs, relay, at, queue>>
      BY <2>5, PostMoves DEF SendPanics, connVars
    <3> QED BY <1>1, <3>1
  <2>6. CASE BufferLine(p)
    BY <1>1, <2>6, PostMoves DEF BufferLine, connVars
  <2>7. ASSUME NEW reached \in SUBSET Instances, PublishToRedis(p, reached) PROVE Places'
    <3>1. /\ Moved(p, "accepted", {}) \/ Moved(p, "failed", {})
          /\ UNCHANGED <<subs, relay, at, queue>>
      BY <2>0, <2>7, PostMoves DEF PublishToRedis, At, connVars
    <3> QED BY <1>1, <3>1
  <2> QED BY <1>2, <2>1, <2>2, <2>3, <2>4, <2>5, <2>6, <2>7 DEF OfPost
<1>3. ASSUME NEW i \in Instances, Down(i) PROVE Places'
  <2>1. \A p \in Posts : \/ post'[p] = post[p]
                        \/ post'[p].left = {}
    BY <1>0, <1>3 DEF Down, PostType
  <2>2. /\ at' = [c \in Conns |-> IF at[c] = i THEN None ELSE at[c]]
        /\ subs' = [subs EXCEPT ![i] = {}] /\ relay' = [relay EXCEPT ![i] = Idle]
        /\ queue' = [c \in Conns |-> IF at[c] = i THEN <<>> ELSE queue[c]]
    BY <1>3 DEF Down
  <2>3. \A p \in Posts : \A c \in post'[p].left :
          post'[p].step = "send" /\ at'[c] \in {post'[p].on, None}
    BY <1>0, <2>1, <2>2 DEF Places, PostType
  <2>4. \A j \in Instances : \A c \in subs'[j] : at'[c] = j
    BY <1>0, <2>2 DEF Places
  <2>5. \A j \in Instances :
          relay'[j] # Idle => \A c \in relay'[j].left : at'[c] \in {j, None}
    BY <1>0, <2>2, IdleApart DEF Places, Relays
  <2>6. \A c \in Conns : at'[c] = None => queue'[c] = <<>>
    BY <1>0, <2>2 DEF Places
  <2> QED BY <2>3, <2>4, <2>5, <2>6 DEF Places
<1>4. ASSUME NEW i \in Instances, TakeMessage(i) PROVE Places'
  <2>1. relay'[i] # Idle => \A c \in relay'[i].left : at[c] = i
    BY <1>0, <1>4 DEF TakeMessage, Relaying, Places
  <2>2. /\ \A j \in Instances : j # i => relay'[j] = relay[j]
        /\ UNCHANGED <<post, subs, at, queue>>
    BY <1>0, <1>4 DEF TakeMessage, postVars, connVars
  <2> QED BY <2>1, <2>2 DEF Places
<1>5. ASSUME NEW i \in Instances, NEW c \in Conns, RelaySend(i, c) PROVE Places'
  <2>1. relay'[i] # Idle => relay'[i].left \subseteq relay[i].left
    BY <1>0, <1>5 DEF RelaySend, Relaying
  <2>2. /\ \A j \in Instances : j # i => relay'[j] = relay[j]
        /\ UNCHANGED <<post, subs, at>> /\ relay[i] # Idle
        /\ \A d \in Conns : at[d] = None => queue'[d] = queue[d]
    BY <1>0, <1>5 DEF RelaySend, Sent, postVars, connVars
  <2> QED BY <2>1, <2>2 DEF Places
<1>6. ASSUME NEW c \in Conns, NEW i \in Instances, NEW n \in Nodes \cup {None}, Watch(c, i, n)
      PROVE  Places'
  <2>1. /\ at' = [at EXCEPT ![c] = i] /\ subs' = [subs EXCEPT ![i] = @ \cup {c}]
        /\ UNCHANGED <<post, relay, queue>> /\ at[c] = None
    BY <1>6 DEF Watch, postVars
  <2>2. /\ \A p \in Posts : c \notin post[p].left
        /\ \A j \in Instances : relay[j] # Idle => c \notin relay[j].left
    BY <1>6 DEF Watch, Referenced
  <2>3. \A j \in Instances : c \notin subs[j]
    BY <1>0, <2>1 DEF Places
  <2>4. \A j \in Instances : \A d \in subs'[j] : at'[d] = j
    BY <1>0, <2>1, <2>3 DEF Places
  <2>5. \A p \in Posts : \A d \in post'[p].left :
          post'[p].step = "send" /\ at'[d] \in {post'[p].on, None}
    BY <1>0, <2>1, <2>2 DEF Places, PostType
  <2>6. \A j \in Instances :
          relay'[j] # Idle => \A d \in relay'[j].left : at'[d] \in {j, None}
    BY <1>0, <2>1, <2>2, IdleApart DEF Places, Relays
  <2>7. \A d \in Conns : at'[d] = None => queue'[d] = <<>>
    BY <1>0, <2>1 DEF Places
  <2> QED BY <2>4, <2>5, <2>6, <2>7 DEF Places
<1>7. ASSUME NEW c \in Conns, Forward(c) PROVE Places'
  <2>1. /\ UNCHANGED <<post, subs, relay, at>>
        /\ \A d \in Conns : at[d] = None => queue'[d] = queue[d]
    BY <1>0, <1>7 DEF Forward, postVars
  <2> QED BY <2>1 DEF Places
<1>8. ASSUME NEW c \in Conns, Unsubscribe(c) PROVE Places'
  <2>1. /\ at' = [at EXCEPT ![c] = None] /\ subs' = [subs EXCEPT ![at[c]] = @ \ {c}]
        /\ queue' = [queue EXCEPT ![c] = <<>>] /\ UNCHANGED <<post, relay>>
        /\ at[c] \in Instances
    BY <1>0, <1>8 DEF Unsubscribe, postVars
  <2>2. \A j \in Instances : \A d \in subs'[j] : at'[d] = j
    BY <1>0, <2>1 DEF Places
  <2>3. \A p \in Posts : \A d \in post'[p].left :
          post'[p].step = "send" /\ at'[d] \in {post'[p].on, None}
    BY <1>0, <2>1 DEF Places, PostType
  <2>4. \A j \in Instances :
          relay'[j] # Idle => \A d \in relay'[j].left : at'[d] \in {j, None}
    BY <1>0, <2>1, IdleApart DEF Places, Relays
  <2>5. \A d \in Conns : at'[d] = None => queue'[d] = <<>>
    BY <1>0, <2>1 DEF Places
  <2> QED BY <2>2, <2>3, <2>4, <2>5 DEF Places
<1>9. ASSUME UNCHANGED <<post, subs, relay, at, queue>> PROVE Places'
  BY <1>9 DEF Places
<1>10. ASSUME NEW i \in Instances, OfInstance(i) PROVE Places'
  BY <1>3, <1>4, <1>5, <1>10 DEF OfInstance, RelayPanics, Crash
<1> QED BY <1>2, <1>6, <1>7, <1>8, <1>9, <1>10
        DEF Next, Tick, Expire, vars, postVars, connVars

\* What an instance has yet to hear through Redis after a step it had to hear
\* before, or a post has just been published; and what its loop has in hand
\* it had in hand, for more watchers, or has just taken.
WireBefore(i) ==
  /\ \A n \in 1 .. Len(wire'[i]) :
       \/ \E m \in 1 .. Len(wire[i]) : wire'[i][n].post = wire[i][m].post
       \/ wire'[i][n].post \in Posts /\ post[wire'[i][n].post].step = "publish"
  /\ relay'[i] # Idle =>
       \/ /\ relay[i] # Idle /\ relay'[i].post = relay[i].post
          /\ relay'[i].left \subseteq relay[i].left
       \/ \E m \in 1 .. Len(wire[i]) : relay'[i].post = wire[i][m].post

\* Only a publication, a message taken or a send of the loop change either.
LEMMA WireSources ==
  ASSUME Typed, [Next]_vars, NEW i \in Instances
  PROVE  WireBefore(i)
<1> DEFINE Message == [post : Posts, source : Instances]
<1>0. /\ wire \in [Instances -> Seq(Message)] /\ wire[i] \in Seq(Message)
      /\ relay \in [Instances -> Relays \cup {Idle}]
      /\ \A n \in 1 .. Len(wire[i]) : wire[i][n] \in Message
  BY ElementOfSeq DEF Typed, TypeOK, Relays
<1>1. ASSUME wire'[i] = wire[i], relay'[i] = relay[i] PROVE WireBefore(i)
  BY <1>1 DEF WireBefore
<1>2. ASSUME NEW p \in Posts, OfPost(p) PROVE WireBefore(i)
  <2>1. ASSUME NEW reached \in SUBSET Instances, PublishToRedis(p, reached) PROVE WireBefore(i)
    <3>1. relay' = relay /\ post[p].step = "publish"
      BY <2>1 DEF PublishToRedis, At
    <3>2. CASE i \in reached
      <4>1. PICK m : m = [post |-> p, source |-> post[p].on]
        OBVIOUS
      <4>2. m \in Message /\ m.post = p /\ wire'[i] = Append(wire[i], m)
        BY <2>1, <3>2, <4>1 DEF PublishToRedis, At, Typed, Known, Came
      <4>3. /\ Len(wire'[i]) = Len(wire[i]) + 1 /\ Len(wire[i]) \in Nat
            /\ wire'[i][Len(wire[i]) + 1] = m
            /\ \A n \in 1 .. Len(wire[i]) : wire'[i][n] = wire[i][n]
        BY <1>0, <4>2, AppendProperties, LenProperties
      <4>4. \A n \in 1 .. Len(wire'[i]) : n \in 1 .. Len(wire[i]) \/ n = Len(wire[i]) + 1
        BY <4>3
      <4> QED BY <3>1, <4>2, <4>3, <4>4 DEF WireBefore
    <3>3. CASE i \notin reached
      BY <1>1, <2>1, <3>1, <3>3 DEF PublishToRedis
    <3> QED BY <3>2, <3>3
  <2> QED BY <1>1, <1>2, <2>1
          DEF OfPost, Post, Persist, CopySubscribers, Send, SendPanics, BufferLine, redisVars
<1>3. ASSUME NEW j \in Instances, Down(j) PROVE WireBefore(i)
  <2>1. CASE j = i
    <3>1. wire'[i] = <<>> /\ relay'[i] = Idle
      BY <1>0, <1>3, <2>1 DEF Down
    <3> QED BY <3>1, EmptySeq DEF WireBefore
  <2>2. CASE j # i
    BY <1>0, <1>1, <1>3, <2>2 DEF Down
  <2> QED BY <2>1, <2>2
<1>4. ASSUME NEW j \in Instances, TakeMessage(j) PROVE WireBefore(i)
  <2>1. CASE j = i
    <3>1. /\ wire[i] # <<>> /\ wire'[i] = Tail(wire[i])
          /\ relay'[i] # Idle => relay'[i].post = Head(wire[i]).post
      BY <1>0, <1>4, <2>1 DEF TakeMessage, Relaying
    <3>2. /\ Len(wire[i]) \in Nat \ {0} /\ Head(wire[i]) = wire[i][1]
          /\ Len(wire'[i]) = Len(wire[i]) - 1
          /\ \A n \in 1 .. Len(wire'[i]) : wire'[i][n] = wire[i][n + 1]
      BY <1>0, <3>1, HeadTailProperties, LenProperties, EmptySeq
    <3>3. 1 \in 1 .. Len(wire[i]) /\ \A n \in 1 .. Len(wire'[i]) : n + 1 \in 1 .. Len(wire[i])
      BY <3>2
    <3> QED BY <3>1, <3>2, <3>3 DEF WireBefore
  <2>2. CASE j # i
    BY <1>0, <1>1, <1>4, <2>2 DEF TakeMessage
  <2> QED BY <2>1, <2>2
<1>5. ASSUME NEW j \in Instances, NEW c \in Conns, RelaySend(j, c) PROVE WireBefore(i)
  <2>1. wire' = wire /\ relay[j] # Idle
    BY <1>5 DEF RelaySend, redisVars
  <2>2. CASE j = i
    <3>1. relay'[i] # Idle => relay'[i] = [post |-> relay[i].post, left |-> relay[i].left \ {c}]
      BY <1>0, <1>5, <2>2 DEF RelaySend, Relaying
    <3> QED BY <2>1, <2>2, <3>1 DEF WireBefore
  <2>3. CASE j # i
    BY <1>0, <1>1, <1>5, <2>1, <2>3 DEF RelaySend
  <2> QED BY <2>2, <2>3
<1>6. ASSUME NEW j \in Instances, OfInstance(j) PROVE WireBefore(i)
  BY <1>3, <1>4, <1>5, <1>6 DEF OfInstance, RelayPanics, Crash
<1>7. ASSUME UNCHANGED <<wire, relay>> PROVE WireBefore(i)
  BY <1>1, <1>7
<1> QED BY <1>2, <1>6, <1>7
        DEF Next, Tick, Watch, Forward, Unsubscribe, Expire, vars, redisVars

\* The same after a step.
DoneNext(p)       == post'[p].step \in {"accepted", "failed"}
FollowsNext(q, p) == q # p /\ q \notin after'[p]

\* An instance hears of a post once, and of posts in the order of their
\* publication: one that is published now had not been accepted before.
LEMMA NextWires == Typed /\ AfterAccepted /\ Wires /\ [Next]_vars => Wires'
<1> SUFFICES ASSUME Typed, AfterAccepted, Wires, [Next]_vars, NEW i \in Instances
             PROVE  WireOf(i)'
  BY DEF Wires
<1> DEFINE Message == [post : Posts, source : Instances]
<1>0. /\ wire \in [Instances -> Seq(Message)] /\ wire[i] \in Seq(Message)
      /\ relay \in [Instances -> Relays \cup {Idle}]
      /\ \A n \in 1 .. Len(wire[i]) : wire[i][n] \in Message /\ wire[i][n].post \in Posts
      /\ relay[i] # Idle => relay[i].post \in Posts
      /\ WireOf(i) /\ Len(wire[i]) \in Nat
  <2>1. wire \in [Instances -> Seq(Message)] /\ wire[i] \in Seq(Message)
    BY DEF Typed, TypeOK
  <2>2. \A n \in 1 .. Len(wire[i]) : wire[i][n] \in Message
    BY <2>1, ElementOfSeq
  <2>3. relay \in [Instances -> Relays \cup {Idle}]
    BY DEF Typed, TypeOK, Relays
  <2>4. relay[i] # Idle => relay[i].post \in Posts
    BY <2>3 DEF Relays
  <2>5. WireOf(i)
    BY DEF Wires
  <2>6. Len(wire[i]) \in Nat
    BY <2>1, LenProperties
  <2> HIDE DEF Message
  <2>7. \A n \in 1 .. Len(wire[i]) : wire[i][n].post \in Posts
    BY <2>2 DEF Message
  <2> QED BY <2>1, <2>2, <2>3, <2>4, <2>5, <2>6, <2>7
<1>1. ASSUME NEW p \in Posts, Done(p)
      PROVE  /\ DoneNext(p) /\ post'[p].on = post[p].on
             /\ \A q : FollowsNext(q, p) <=> Follows(q, p)
  BY <1>1, PostEnds, PostStays DEF Done, DoneNext, Came, Follows, FollowsNext
<1>2. ASSUME wire'[i] = wire[i],
             \/ relay'[i] = Idle
             \/ relay[i] # Idle /\ relay'[i].post = relay[i].post
      PROVE  WireOf(i)'
  <2>1. \A n \in 1 .. Len(wire[i]) : Done(wire[i][n].post)
    BY <1>0 DEF WireOf
  <2>2. relay[i] # Idle => Done(relay[i].post)
    BY <1>0 DEF WireOf
  <2>3. ASSUME NEW n \in 1 .. Len(wire[i])
        PROVE  /\ wire[i][n].source = post'[wire[i][n].post].on
               /\ DoneNext(wire[i][n].post)
    BY <1>0, <1>1, <2>1 DEF WireOf
  <2>4. ASSUME NEW m \in 1 .. Len(wire[i]), NEW n \in 1 .. Len(wire[i]), m < n
        PROVE  FollowsNext(wire[i][n].post, wire[i][m].post)
    BY <1>0, <1>1, <2>1, <2>4 DEF WireOf
  <2>5. ASSUME relay[i] # Idle
        PROVE  /\ DoneNext(relay[i].post) /\ post'[relay[i].post].on # i
               /\ \A n \in 1 .. Len(wire[i]) : FollowsNext(wire[i][n].post, relay[i].post)
    BY <1>0, <1>1, <2>2, <2>5 DEF WireOf
  <2> QED BY <1>2, <2>3, <2>4, <2>5 DEF WireOf, Done, Follows, DoneNext, FollowsNext
<1>3. ASSUME NEW p \in Posts, NEW reached \in SUBSET Instances, PublishToRedis(p, reached),
             i \in reached
      PROVE  WireOf(i)'
  <2>1. PICK m : m = [post |-> p, source |-> post[p].on]
    OBVIOUS
  <2>2. /\ m \in Message /\ m.post = p /\ m.source = post[p].on
        /\ wire'[i] = Append(wire[i], m) /\ relay' = relay /\ ~ Done(p)
    BY <1>3, <2>1 DEF PublishToRedis, At, Typed, Known, Came, Done
  <2>3. /\ Len(wire'[i]) = Len(wire[i]) + 1
        /\ wire'[i][Len(wire[i]) + 1] = m
        /\ \A n \in 1 .. Len(wire[i]) : wire'[i][n] = wire[i][n]
    BY <1>0, <2>2, AppendProperties
  <2>4. DoneNext(p) /\ post'[p].on = post[p].on
    <3>1. Moved(p, "accepted", post[p].left) \/ Moved(p, "failed", post[p].left)
      BY <1>3, PostMoves DEF PublishToRedis
    <3> QED BY <3>1 DEF Moved, DoneNext
  <2>5. ASSUME NEW q \in Posts, Done(q) PROVE Follows(p, q)
    BY <2>2, <2>5 DEF AfterAccepted, Accepted, Follows, Done
  <2>6. \A n \in 1 .. Len(wire'[i]) : n \in 1 .. Len(wire[i]) \/ n = Len(wire[i]) + 1
    BY <1>0, <2>3
  <2>7. \A n \in 1 .. Len(wire'[i]) : /\ wire'[i][n].source = post'[wire'[i][n].post].on
                                     /\ DoneNext(wire'[i][n].post)
    <3>1. ASSUME NEW n \in 1 .. Len(wire[i])
          PROVE  /\ wire'[i][n].source = post'[wire'[i][n].post].on
                 /\ DoneNext(wire'[i][n].post)
      <4>1. PICK q \in Posts : q = wire[i][n].post /\ Done(q) /\ wire[i][n].source = post[q].on
        BY <1>0 DEF WireOf
      <4> QED BY <1>1, <2>3, <4>1 DEF Done
    <3> QED BY <2>2, <2>3, <2>4, <2>6, <3>1 DEF Done
  <2>8. ASSUME NEW k \in 1 .. Len(wire'[i]), NEW n \in 1 .. Len(wire'[i]), k < n
        PROVE  FollowsNext(wire'[i][n].post, wire'[i][k].post)
    <3>1. k \in 1 .. Len(wire[i])
      BY <1>0, <2>3, <2>8
    <3>2. PICK q \in Posts : q = wire[i][k].post /\ Done(q)
      BY <1>0, <3>1 DEF WireOf
    <3>3. PICK r : r = wire'[i][n].post /\ Follows(r, q)
      BY <1>0, <2>2, <2>3, <2>5, <2>6, <2>8, <3>1, <3>2 DEF WireOf
    <3>4. FollowsNext(r, q)
      BY <1>1, <3>2, <3>3
    <3> QED BY <2>3, <3>1, <3>2, <3>3, <3>4 DEF Follows
  <2>9. ASSUME relay'[i] # Idle
        PROVE  /\ DoneNext(relay'[i].post) /\ post'[relay'[i].post].on # i
               /\ \A n \in 1 .. Len(wire'[i]) : FollowsNext(wire'[i][n].post, relay'[i].post)
    <3>1. PICK q \in Posts : q = relay[i].post /\ Done(q) /\ post[q].on # i
      BY <1>0, <2>2, <2>9 DEF WireOf
    <3>2. ASSUME NEW n \in 1 .. Len(wire'[i])
          PROVE  FollowsNext(wire'[i][n].post, relay'[i].post)
      <4>1. PICK r : r = wire'[i][n].post /\ Follows(r, q)
        BY <1>0, <2>2, <2>3, <2>5, <2>6, <2>9, <3>1, <3>2 DEF WireOf
      <4>2. FollowsNext(r, q)
        BY <1>1, <3>1, <4>1
      <4> QED BY <2>2, <3>1, <4>1, <4>2 DEF Follows
    <3> QED BY <1>1, <2>2, <3>1, <3>2 DEF Done
  <2> QED BY <2>7, <2>8, <2>9 DEF WireOf, Done, Follows, DoneNext, FollowsNext
<1>4. CASE TakeMessage(i)
  <2>1. PICK p \in Posts : p = wire[i][1].post /\ wire[i] # <<>>
    <3>1. wire[i] # <<>>
      BY <1>4 DEF TakeMessage
    <3>2. 1 \in 1 .. Len(wire[i])
      BY <1>0, <3>1, EmptySeq
    <3> QED BY <1>0, <3>1, <3>2
  <2>2. /\ Head(wire[i]) = wire[i][1] /\ Len(wire'[i]) = Len(wire[i]) - 1
        /\ \A n \in 1 .. Len(wire'[i]) : wire'[i][n] = wire[i][n + 1]
        /\ wire'[i] = Tail(wire[i]) /\ 1 \in 1 .. Len(wire[i])
    BY <1>0, <1>4, <2>1, HeadTailProperties, EmptySeq DEF TakeMessage
  <2>3. relay'[i] # Idle => relay'[i].post = p /\ wire[i][1].source # i
    BY <1>0, <1>4, <2>1, <2>2 DEF TakeMessage, Relaying
  <2>4. Done(p) /\ (relay'[i] # Idle => post[p].on # i)
    BY <1>0, <2>1, <2>2, <2>3 DEF WireOf
  <2>5. \A n \in 1 .. Len(wire'[i]) : n + 1 \in 1 .. Len(wire[i]) /\ 1 < n + 1
    BY <1>0, <2>2
  <2>6. ASSUME NEW n \in 1 .. Len(wire'[i])
        PROVE  /\ wire'[i][n].source = post'[wire'[i][n].post].on
               /\ DoneNext(wire'[i][n].post)
               /\ FollowsNext(wire'[i][n].post, p)
    <3>1. PICK q \in Posts : /\ q = wire'[i][n].post /\ Done(q) /\ Follows(q, p)
                            /\ wire'[i][n].source = post[q].on
      BY <1>0, <2>1, <2>2, <2>5, <2>6 DEF WireOf
    <3>2. DoneNext(q) /\ post'[q].on = post[q].on /\ FollowsNext(q, p)
      BY <1>1, <2>4, <3>1
    <3> QED BY <3>1, <3>2 DEF Done, Follows
  <2>7. ASSUME NEW k \in 1 .. Len(wire'[i]), NEW n \in 1 .. Len(wire'[i]), k < n
        PROVE  FollowsNext(wire'[i][n].post, wire'[i][k].post)
    <3>1. k + 1 < n + 1
      BY <2>7
    <3>2. PICK q \in Posts : q = wire'[i][k].post /\ Done(q) /\ Follows(wire'[i][n].post, q)
      BY <1>0, <2>2, <2>5, <2>7, <3>1 DEF WireOf
    <3>3. PICK r : r = wire'[i][n].post /\ FollowsNext(r, q)
      BY <1>1, <3>2
    <3> QED BY <3>2, <3>3 DEF Follows
  <2>8. DoneNext(p) /\ post'[p].on = post[p].on
    BY <1>1, <2>4
  <2>9. ASSUME relay'[i] # Idle
        PROVE  /\ DoneNext(relay'[i].post) /\ post'[relay'[i].post].on # i
               /\ \A n \in 1 .. Len(wire'[i]) : FollowsNext(wire'[i][n].post, relay'[i].post)
    BY <2>3, <2>4, <2>6, <2>8, <2>9 DEF Done, Follows
  <2> QED BY <2>6, <2>7, <2>9 DEF WireOf, Done, Follows, DoneNext, FollowsNext
<1>5. CASE Down(i)
  <2>1. wire'[i] = <<>> /\ relay'[i] = Idle
    BY <1>0, <1>5 DEF Down
  <2> QED BY <2>1, EmptySeq DEF WireOf
<1>6. ASSUME NEW c \in Conns, RelaySend(i, c) PROVE WireOf(i)'
  <2>1. /\ wire' = wire /\ relay[i] # Idle
        /\ relay'[i] = Idle \/ relay'[i].post = relay[i].post
    BY <1>0, <1>6 DEF RelaySend, Relaying, redisVars
  <2> QED BY <1>2, <2>1
<1>7. ASSUME wire'[i] = wire[i], relay'[i] = relay[i] PROVE WireOf(i)'
  BY <1>2, <1>7
<1>8. ASSUME NEW j \in Instances, OfInstance(j) PROVE WireOf(i)'
  <2>1. CASE j = i
    BY <1>4, <1>5, <1>6, <1>8, <2>1 DEF OfInstance, RelayPanics, Crash
  <2>2. CASE j # i
    BY <1>0, <1>7, <1>8, <2>2 DEF OfInstance, TakeMessage, RelaySend, RelayPanics, Crash, Down,
                                  redisVars
  <2> QED BY <2>1, <2>2
<1>9. ASSUME NEW p \in Posts, OfPost(p) PROVE WireOf(i)'
  <2>1. ASSUME NEW reached \in SUBSET Instances, PublishToRedis(p, reached), i \notin reached
        PROVE  WireOf(i)'
    BY <1>7, <2>1 DEF PublishToRedis
  <2> QED BY <1>3, <1>7, <1>9, <2>1
          DEF OfPost, Post, Persist, CopySubscribers, Send, SendPanics, BufferLine, redisVars
<1> QED BY <1>7, <1>8, <1>9
        DEF Next, Tick, Watch, Forward, Unsubscribe, Expire, vars, redisVars

\* What a watcher has got stays behind him, as long as he is there.
GotNext(c, i, p) ==
  IF post'[p].on = i
    THEN post'[p].step \notin {"new", "persist", "copy"} /\ c \notin post'[p].left
    ELSE /\ DoneNext(p)
         /\ \A n \in 1 .. Len(wire'[i]) : FollowsNext(wire'[i][n].post, p)
         /\ relay'[i] # Idle /\ c \in relay'[i].left => FollowsNext(relay'[i].post, p)

\* What an instance hears of later had not been accepted when the line came.
LEMMA GotStays ==
  ASSUME Typed, AfterAccepted, Wires, [Next]_vars,
         NEW c \in Conns, NEW i \in Instances, NEW p \in Posts, Came(p), GotAt(c, i, p)
  PROVE  GotNext(c, i, p)
<1>1. post'[p].on = post[p].on /\ after'[p] = after[p]
  BY PostStays, PostEnds
<1>2. CASE post[p].on = i
  BY <1>1, <1>2, PostEnds DEF GotAt, GotNext
<1>3. CASE post[p].on # i
  <2>1. Done(p) /\ DoneNext(p)
    BY <1>3, PostEnds DEF GotAt, Done, DoneNext
  <2>2. ASSUME NEW q, Follows(q, p) PROVE FollowsNext(q, p)
    BY <1>1, <2>2 DEF Follows, FollowsNext
  <2>3. ASSUME NEW q \in Posts, post[q].step = "publish" PROVE Follows(q, p)
    BY <2>1, <2>3 DEF AfterAccepted, Accepted, Done, Follows
  <2>4. \A m \in 1 .. Len(wire[i]) : Follows(wire[i][m].post, p)
    BY <1>3 DEF GotAt
  <2>5. ASSUME NEW n \in 1 .. Len(wire'[i]) PROVE FollowsNext(wire'[i][n].post, p)
    BY <2>2, <2>3, <2>4, <2>5, WireSources DEF WireBefore
  <2>6. ASSUME relay'[i] # Idle, c \in relay'[i].left PROVE FollowsNext(relay'[i].post, p)
    BY <1>3, <2>2, <2>4, <2>6, WireSources DEF WireBefore, GotAt
  <2> QED BY <1>1, <1>3, <2>1, <2>5, <2>6 DEF GotNext
<1> QED BY <1>2, <1>3

\* A stream of which some lines have gone, and one with a line more.
Thins(t, s) ==
  \E f \in [1 .. Len(t) -> 1 .. Len(s)] :
    /\ \A n \in 1 .. Len(t) : t[n] = s[f[n]]
    /\ \A m, n \in 1 .. Len(t) : m < n => f[m] < f[n]

Grows(t, s, p) ==
  /\ Len(t) = Len(s) + 1 /\ t[Len(t)] = p
  /\ \A n \in 1 .. Len(s) : t[n] = s[n]

\* Taking the head of a channel, or all of it, leaves the order as it was.
LEMMA StreamThins ==
  ASSUME NEW S, NEW s \in Seq(S), NEW t \in Seq(S)
  PROVE  /\ Thins(s \o t, s \o t)
         /\ Thins(s \o <<>>, s \o t)
         /\ Thins(<<>> \o <<>>, s \o t)
         /\ t # <<>> => Thins(s \o Tail(t), s \o t)
<1>0. /\ Len(s) \in Nat /\ Len(t) \in Nat /\ Len(s \o t) = Len(s) + Len(t)
      /\ \A n \in 1 .. Len(s) + Len(t) :
           (s \o t)[n] = IF n <= Len(s) THEN s[n] ELSE t[n - Len(s)]
  BY ConcatProperties, LenProperties
<1>1. Thins(s \o t, s \o t)
  <2>0. PICK u : u = s \o t
    OBVIOUS
  <2>1. u = s \o t /\ Len(u) \in Nat
    BY <1>0, <2>0
  <2>2. PICK f : f = [n \in 1 .. Len(u) |-> n]
    OBVIOUS
  <2>3. f \in [1 .. Len(u) -> 1 .. Len(u)]
    BY <2>2
  <2> QED BY <2>1, <2>2, <2>3 DEF Thins
<1>2. Thins(s \o <<>>, s \o t)
  <2>1. PICK f : f = [n \in 1 .. Len(s) |-> n]
    OBVIOUS
  <2>2. f \in [1 .. Len(s) -> 1 .. Len(s \o t)]
    BY <1>0, <2>1
  <2>3. s \o <<>> = s
    BY ConcatEmptySeq
  <2> QED BY <1>0, <2>1, <2>2, <2>3 DEF Thins
<1>3. Thins(<<>> \o <<>>, s \o t)
  <2>1. <<>> \o <<>> = <<>> /\ Len(<<>>) = 0
    BY EmptySeq, ConcatEmptySeq
  <2>2. PICK v : v = s \o t
    OBVIOUS
  <2>3. [n \in 1 .. 0 |-> n] \in [1 .. 0 -> 1 .. Len(v)]
    OBVIOUS
  <2>4. PICK e : e = <<>> /\ Len(e) = 0
    BY <2>1
  <2>5. \A n \in 1 .. Len(e) : FALSE
    BY <2>4
  <2>6. [n \in 1 .. 0 |-> n] \in [1 .. Len(e) -> 1 .. Len(v)]
    BY <2>3, <2>4
  <2>7. Thins(e, v)
    BY <2>5, <2>6 DEF Thins
  <2> QED BY <2>1, <2>2, <2>4, <2>7
<1>4. ASSUME t # <<>> PROVE Thins(s \o Tail(t), s \o t)
  <2>1. PICK u \in Seq(S) : /\ u = Tail(t) /\ Len(u) = Len(t) - 1
                           /\ \A n \in 1 .. Len(u) : u[n] = t[n + 1]
    BY <1>4, HeadTailProperties
  <2>2. /\ Len(u) \in Nat /\ Len(s \o u) = Len(s) + Len(u)
        /\ \A n \in 1 .. Len(s) + Len(u) :
             (s \o u)[n] = IF n <= Len(s) THEN s[n] ELSE u[n - Len(s)]
    BY ConcatProperties, LenProperties
  <2>3. PICK f : f = [n \in 1 .. Len(s \o u) |-> IF n <= Len(s) THEN n ELSE n + 1]
    OBVIOUS
  <2>4. f \in [1 .. Len(s \o u) -> 1 .. Len(s \o t)]
    BY <1>0, <2>1, <2>2, <2>3
  <2>5. ASSUME NEW n \in 1 .. Len(s \o u) PROVE (s \o u)[n] = (s \o t)[f[n]]
    <3>1. CASE n <= Len(s)
      BY <1>0, <2>1, <2>2, <2>3, <3>1
    <3>2. CASE ~ (n <= Len(s))
      <4>1. n - Len(s) \in 1 .. Len(u) /\ f[n] = n + 1 /\ n + 1 \in 1 .. Len(s) + Len(t)
        BY <1>0, <2>1, <2>2, <2>3, <3>2
      <4>2. (s \o u)[n] = t[n - Len(s) + 1] /\ (s \o t)[n + 1] = t[n + 1 - Len(s)]
        BY <1>0, <2>1, <2>2, <3>2, <4>1
      <4>3. n - Len(s) + 1 = n + 1 - Len(s)
        BY <1>0, <2>2
      <4> QED BY <4>1, <4>2, <4>3
    <3> QED BY <3>1, <3>2
  <2>6. \A m, n \in 1 .. Len(s \o u) : m < n => f[m] < f[n]
    BY <1>0, <2>2, <2>3
  <2> QED BY <2>1, <2>4, <2>5, <2>6 DEF Thins
<1> QED BY <1>1, <1>2, <1>3, <1>4

\* A line at the end of the channel is the end of the stream; and what goes
\* from the channel to the watcher stays where it is in the stream.
LEMMA StreamGrows ==
  ASSUME NEW S, NEW s \in Seq(S), NEW t \in Seq(S)
  PROVE  /\ \A p \in S : Grows(s \o Append(t, p), s \o t, p)
         /\ t # <<>> => Append(s, Head(t)) \o Tail(t) = s \o t
<1>0. /\ Len(s) \in Nat /\ Len(t) \in Nat /\ Len(s \o t) = Len(s) + Len(t)
      /\ \A n \in 1 .. Len(s) + Len(t) :
           (s \o t)[n] = IF n <= Len(s) THEN s[n] ELSE t[n - Len(s)]
  BY ConcatProperties, LenProperties
<1>1. ASSUME NEW p \in S PROVE Grows(s \o Append(t, p), s \o t, p)
  <2>0. PICK u : u = Append(t, p)
    OBVIOUS
  <2>1. /\ u = Append(t, p) /\ u \in Seq(S) /\ Len(u) = Len(t) + 1 /\ u[Len(t) + 1] = p
        /\ \A n \in 1 .. Len(t) : u[n] = t[n]
    BY <2>0, AppendProperties
  <2>2. /\ Len(s \o u) = Len(s) + Len(u)
        /\ \A n \in 1 .. Len(s) + Len(u) :
             (s \o u)[n] = IF n <= Len(s) THEN s[n] ELSE u[n - Len(s)]
    BY ConcatProperties
  <2>3. (s \o u)[Len(s \o u)] = p
    <3>1. Len(s \o u) - Len(s) = Len(t) + 1 /\ ~ (Len(s \o u) <= Len(s))
          /\ Len(s \o u) \in 1 .. Len(s) + Len(u)
      BY <1>0, <2>1, <2>2
    <3> QED BY <2>1, <2>2, <3>1
  <2>4. ASSUME NEW n \in 1 .. Len(s \o t) PROVE (s \o u)[n] = (s \o t)[n]
    <3>1. n \in 1 .. Len(s) + Len(u) /\ (~ (n <= Len(s)) => n - Len(s) \in 1 .. Len(t))
      BY <1>0, <2>1
    <3> QED BY <1>0, <2>1, <2>2, <3>1
  <2> QED BY <1>0, <2>1, <2>2, <2>3, <2>4 DEF Grows
<1>2. ASSUME t # <<>> PROVE Append(s, Head(t)) \o Tail(t) = s \o t
  <2>1. Head(t) \in S /\ Tail(t) \in Seq(S)
    BY <1>2, HeadTailProperties
  <2>2. /\ Append(s, Head(t)) = s \o <<Head(t)>> /\ <<Head(t)>> \in Seq(S)
    BY <2>1, AppendIsConcat
  <2>3. <<Head(t)>> \o Tail(t) = t
    <3>0. PICK h, u : h = Head(t) /\ u = Tail(t)
      OBVIOUS
    <3>1. /\ h \in S /\ h = Head(t) /\ u \in Seq(S) /\ u = Tail(t) /\ Len(u) = Len(t) - 1
          /\ \A n \in 1 .. Len(u) : u[n] = t[n + 1]
      BY <1>2, <3>0, HeadTailProperties
    <3>2. h = t[1]
      BY <3>1
    <3>3. PICK w : w = <<h>>
      OBVIOUS
    <3>9. w \in Seq(S) /\ Len(w) = 1 /\ w[1] = h
      BY <3>1, <3>3
    <3>4. PICK v : v = w \o u
      OBVIOUS
    <3>5. /\ v \in Seq(S) /\ Len(v) = 1 + Len(u)
          /\ \A n \in 1 .. 1 + Len(u) : v[n] = IF n <= 1 THEN w[n] ELSE u[n - 1]
      <4>1. /\ w \o u \in Seq(S) /\ Len(w \o u) = Len(w) + Len(u)
            /\ \A n \in 1 .. Len(w) + Len(u) :
                 (w \o u)[n] = IF n <= Len(w) THEN w[n] ELSE u[n - Len(w)]
        <5>1. w \in Seq(S) /\ u \in Seq(S)
          BY <3>1, <3>9
        <5> QED BY <5>1, ConcatProperties
      <4> QED BY <3>4, <3>9, <4>1, Zenon
    <3>6. Len(v) = Len(t)
      BY <1>0, <3>1, <3>5
    <3>7. ASSUME NEW n \in 1 .. Len(t) PROVE v[n] = t[n]
      <4>1. CASE n = 1
        BY <1>0, <3>1, <3>2, <3>9, <3>5, <4>1
      <4>2. CASE n # 1
        <5>1. n - 1 \in 1 .. Len(u) /\ n \in 1 .. 1 + Len(u) /\ ~ (n <= 1) /\ n - 1 + 1 = n
          BY <1>0, <3>1, <4>2
        <5> QED BY <3>1, <3>5, <5>1
      <4> QED BY <4>1, <4>2
    <3>8. v = t
      BY <3>5, <3>6, <3>7, SeqEqual
    <3> QED BY <3>1, <3>3, <3>4, <3>8
  <2> QED BY <2>1, <2>2, <2>3, ConcatAssociative
<1> QED BY <1>1, <1>2

\* A watcher's stream loses lines, at an end of his channel, or grows by a line
\* that a post or the loop of his instance has for him.
Gets(c, p) ==
  /\ at'[c] = at[c]
  /\ Grows(Stream(c)', Stream(c), p)
  /\ \/ Send(p, c)
     \/ \E i \in Instances : RelaySend(i, c) /\ p = relay[i].post

\* A line comes only through Send and RelaySend.
LEMMA StreamMoves ==
  ASSUME Typed, Places, [Next]_vars, NEW c \in Conns
  PROVE  \/ /\ Thins(Stream(c)', Stream(c))
            /\ at'[c] \in {at[c], None} \/ Stream(c)' = <<>>
         \/ \E p \in Posts : Gets(c, p)
<1> DEFINE Less == /\ Thins(Stream(c)', Stream(c))
                   /\ at'[c] \in {at[c], None} \/ Stream(c)' = <<>>
           More == \E p \in Posts : Gets(c, p)
<1>0. /\ at \in [Conns -> Instances \cup {None}]
      /\ queue \in [Conns -> Seq(Posts)] /\ seen \in [Conns -> Seq(Posts)]
      /\ queue[c] \in Seq(Posts) /\ seen[c] \in Seq(Posts)
  BY DEF Typed, TypeOK
<1>1. ASSUME seen'[c] = seen[c], at'[c] \in {at[c], None}, queue'[c] \in {queue[c], <<>>}
      PROVE  Less
  BY <1>0, <1>1, StreamThins DEF Stream
<1>2. ASSUME NEW p \in Posts, NEW d \in Conns, queue' = Sent(d, p), seen' = seen, at' = at,
             \/ Send(p, d)
             \/ \E i \in Instances : RelaySend(i, d) /\ p = relay[i].post
      PROVE  Less \/ More
  <2>1. CASE queue'[c] = queue[c]
    BY <1>1, <1>2, <2>1
  <2>2. CASE queue'[c] # queue[c]
    <3>1. d = c /\ queue'[c] = Append(queue[c], p)
      BY <1>0, <1>2, <2>2 DEF Sent
    <3>2. Grows(Stream(c)', Stream(c), p)
      BY <1>0, <1>2, <3>1, StreamGrows DEF Stream
    <3> QED BY <1>2, <3>1, <3>2 DEF Gets
  <2> QED BY <2>1, <2>2
<1>3. ASSUME NEW p \in Posts, OfPost(p) PROVE Less \/ More
  <2>1. ASSUME NEW d \in Conns, Send(p, d) PROVE Less \/ More
    BY <1>2, <2>1 DEF Send, connVars
  <2> HIDE DEF More
  <2> QED BY <1>1, <1>3, <2>1
          DEF OfPost, Post, Persist, CopySubscribers, SendPanics, BufferLine, PublishToRedis,
              connVars
<1>4. ASSUME NEW i \in Instances, Down(i) PROVE Less
  BY <1>0, <1>1, <1>4 DEF Down
<1>5. ASSUME NEW i \in Instances, OfInstance(i) PROVE Less \/ More
  <2>1. ASSUME NEW d \in Conns, RelaySend(i, d) PROVE Less \/ More
    <3>1. relay[i].post \in Posts
      BY <2>1 DEF RelaySend, Typed, TypeOK
    <3>2. queue' = Sent(d, relay[i].post) /\ seen' = seen /\ at' = at
      BY <2>1 DEF RelaySend, connVars
    <3> QED BY <1>2, <2>1, <3>1, <3>2
  <2>2. CASE TakeMessage(i)
    BY <1>1, <2>2 DEF TakeMessage, connVars
  <2> HIDE DEF Less, More
  <2> QED BY <1>4, <1>5, <2>1, <2>2 DEF OfInstance, RelayPanics, Crash
<1>6. ASSUME NEW d \in Conns, NEW i \in Instances, NEW node \in Nodes \cup {None},
             Watch(d, i, node)
      PROVE  Less
  <2>1. CASE d = c
    <3>1. seen'[c] = <<>> /\ queue'[c] = <<>>
      BY <1>0, <1>6, <2>1 DEF Watch, Places
    <3>2. Stream(c)' = <<>> \o <<>> /\ <<>> \o <<>> = <<>>
      BY <3>1, EmptySeq, ConcatEmptySeq DEF Stream
    <3>3. Thins(Stream(c)', Stream(c))
      BY <1>0, <3>2, StreamThins DEF Stream
    <3> QED BY <3>2, <3>3
  <2>2. CASE d # c
    BY <1>0, <1>1, <1>6, <2>2 DEF Watch
  <2> QED BY <2>1, <2>2
<1>7. ASSUME NEW d \in Conns, Forward(d) PROVE Less
  <2>1. CASE d = c
    <3>1. /\ at' = at /\ queue[c] # <<>> /\ queue'[c] = Tail(queue[c])
          /\ seen'[c] \in {seen[c], Append(seen[c], Head(queue[c]))}
      BY <1>0, <1>7, <2>1 DEF Forward
    <3>2. Stream(c)' = seen[c] \o Tail(queue[c]) \/ Stream(c)' = Stream(c)
      BY <1>0, <3>1, StreamGrows DEF Stream
    <3>3. Thins(Stream(c)', Stream(c))
      BY <1>0, <3>1, <3>2, StreamThins DEF Stream
    <3> QED BY <3>1, <3>3
  <2>2. CASE d # c
    BY <1>0, <1>1, <1>7, <2>2 DEF Forward
  <2> QED BY <2>1, <2>2
<1>8. ASSUME NEW d \in Conns, Unsubscribe(d) PROVE Less
  BY <1>0, <1>1, <1>8 DEF Unsubscribe
<1>9. ASSUME UNCHANGED <<connVars, queue>> PROVE Less
  BY <1>1, <1>9 DEF connVars
<1> HIDE DEF Less, More
<1>10. Less \/ More
  BY <1>3, <1>5, <1>6, <1>7, <1>8, <1>9 DEF Next, Tick, Expire, vars, connVars
<1> QED BY <1>10 DEF Less, More

\* What stands in a stream has come, and is in the table.
LEMMA ReceivedCame ==
  ASSUME Typed, Persisted, FromTable, NEW c \in Conns
  PROVE  \A n \in 1 .. Len(Stream(c)) : Stream(c)[n] \in Posts /\ Came(Stream(c)[n])
<1>1. Stream(c) \in Seq(logs)
  BY ConcatProperties DEF FromTable, Stream
<1>2. \A n \in 1 .. Len(Stream(c)) : Stream(c)[n] \in logs
  BY <1>1, ElementOfSeq
<1> QED BY <1>2 DEF Persisted

\* A watcher who gets a line has not got it, nor anything it stood before.
LEMMA NextGot ==
  Typed /\ Persisted /\ FromTable /\ AfterAccepted /\ Places /\ Wires /\ Got /\ [Next]_vars => Got'
<1> SUFFICES ASSUME Typed, Persisted, FromTable, AfterAccepted, Places, Wires, Got, [Next]_vars,
                    NEW c \in Conns, NEW i \in Instances, at'[c] = i, NEW n \in 1 .. Len(Stream(c)')
             PROVE  GotNext(c, i, Stream(c)'[n])
  BY DEF Got, Received, In, GotAt, GotNext, Done, DoneNext, Follows, FollowsNext
<1>0. PICK s, t : s = Stream(c) /\ t = Stream(c)'
  OBVIOUS
<1>1. i # None
  BY LogsAssumption
<1>2. ASSUME NEW m \in 1 .. Len(s), at[c] = i PROVE GotNext(c, i, s[m])
  <2>1. s[m] \in Posts /\ Came(s[m])
    BY <1>0, ReceivedCame
  <2>2. GotAt(c, i, s[m])
    BY <1>0, <1>2 DEF Got, Received, In
  <2> QED BY <2>1, <2>2, GotStays
<1>3. CASE Thins(t, s) /\ (at'[c] \in {at[c], None} \/ t = <<>>)
  <2>1. t # <<>> /\ at[c] = i
    BY <1>0, <1>1, <1>3, EmptySeq
  <2>2. PICK m \in 1 .. Len(s) : t[n] = s[m]
    BY <1>0, <1>3 DEF Thins
  <2> QED BY <1>0, <1>2, <2>1, <2>2
<1>4. ASSUME NEW p \in Posts, Gets(c, p) PROVE GotNext(c, i, t[n])
  <2>1. at[c] = i /\ Grows(t, s, p)
    BY <1>0, <1>4 DEF Gets
  <2>2. CASE n \in 1 .. Len(s)
    BY <1>2, <2>1, <2>2 DEF Grows
  <2>3. CASE n \notin 1 .. Len(s)
    <3>1. t[n] = p
      <4>1. s \in Seq(Posts)
        BY <1>0, ConcatProperties DEF Stream, Typed, TypeOK
      <4>2. Len(s) \in Nat
        BY <4>1, LenProperties
      <4>3. n = Len(t)
        BY <1>0, <2>1, <2>3, <4>2 DEF Grows
      <4> QED BY <2>1, <4>3 DEF Grows
    <3>2. CASE Send(p, c)
      <4>1. post[p].on = i
        BY <1>1, <2>1, <3>2 DEF Send, Places
      <4>2. Moved(p, "send", post[p].left \ {c})
        BY <3>2, PostMoves
      <4> QED BY <3>1, <4>1, <4>2 DEF Moved, GotNext
    <3>3. ASSUME NEW j \in Instances, RelaySend(j, c), p = relay[j].post
          PROVE  GotNext(c, i, p)
      <4>1. j = i
        BY <1>1, <2>1, <3>3 DEF RelaySend, Places
      <4>2. /\ post' = post /\ after' = after /\ wire' = wire
            /\ relay'[i] # Idle => c \notin relay'[i].left
        BY <3>3, <4>1 DEF RelaySend, Relaying, postVars, redisVars, Typed, TypeOK
      <4>3. /\ Done(p) /\ post[p].on # i
            /\ \A m \in 1 .. Len(wire[i]) : Follows(wire[i][m].post, p)
        BY <3>3, <4>1 DEF RelaySend, Wires, WireOf
      <4> QED BY <4>2, <4>3 DEF GotNext, Done, DoneNext, Follows, FollowsNext
    <3> QED BY <1>4, <3>1, <3>2, <3>3 DEF Gets
  <2> QED BY <2>2, <2>3
<1>5. GotNext(c, i, t[n])
  BY <1>0, <1>3, <1>4, StreamMoves
<1> QED BY <1>0, <1>5

\* What may stand before what in a stream, and the same after a step.
Before(p, q) == p # q /\ (post[p].on = post[q].on => q \notin after[p])

BeforeNext(p, q) == p # q /\ (post'[p].on = post'[q].on => q \notin after'[p])

Sorted(c) == \A m, n \in 1 .. Len(Stream(c)) : m < n => Before(Stream(c)[m], Stream(c)[n])

InOrder == \A c \in Conns : Sorted(c)

\* A line that comes to the end of a stream is none of those that stand there,
\* and nothing in the stream of its instance was to follow it.
LEMMA LastMayFollow ==
  ASSUME Typed, AfterAccepted, Places, Wires, Got,
         NEW c \in Conns, NEW p \in Posts, Gets(c, p),
         NEW n \in 1 .. Len(Stream(c)), Stream(c)[n] \in Posts
  PROVE  Before(Stream(c)[n], p)
<1>0. PICK q \in Posts : q = Stream(c)[n]
  OBVIOUS
<1>1. at[c] # None => at[c] \in Instances /\ GotAt(c, at[c], q)
  BY <1>0 DEF Got, Received, In, Typed, TypeOK
<1>2. CASE Send(p, c)
  <2>1. at[c] # None /\ post[p].on = at[c] /\ post[p].step = "send" /\ c \in post[p].left
    BY <1>2 DEF Send, At, Places
  <2>2. p \notin after[q]
    BY <2>1 DEF AfterAccepted, Accepted
  <2> QED BY <1>0, <1>1, <2>1, <2>2 DEF GotAt, Before
<1>3. ASSUME NEW j \in Instances, RelaySend(j, c), p = relay[j].post PROVE Before(q, p)
  <2>1. /\ at[c] # None /\ at[c] = j /\ relay[j] # Idle /\ c \in relay[j].left
        /\ post[p].on # j
    BY <1>3 DEF RelaySend, Places, Wires, WireOf
  <2> QED BY <1>1, <1>3, <2>1 DEF GotAt, Before, Follows
<1> QED BY <1>0, <1>2, <1>3 DEF Gets

\* A stream that has lost lines is still in order, and so is one that has grown.
LEMMA NextInOrder ==
  Typed /\ Persisted /\ FromTable /\ AfterAccepted /\ Places /\ Wires /\ Got /\ InOrder
    /\ [Next]_vars => InOrder'
<1> SUFFICES ASSUME Typed, Persisted, FromTable, AfterAccepted, Places, Wires, Got, InOrder,
                    [Next]_vars, NEW c \in Conns,
                    NEW m \in 1 .. Len(Stream(c)'), NEW n \in 1 .. Len(Stream(c)'), m < n
             PROVE  BeforeNext(Stream(c)'[m], Stream(c)'[n])
  BY DEF InOrder, Sorted, Before, BeforeNext
<1>0. PICK s, t : s = Stream(c) /\ t = Stream(c)'
  OBVIOUS
<1>1. ASSUME NEW p \in Posts, NEW q \in Posts, Came(p), Came(q), Before(p, q)
      PROVE  BeforeNext(p, q)
  BY <1>1, PostStays, PostEnds DEF Before, BeforeNext
<1>2. \A k \in 1 .. Len(s) : s[k] \in Posts /\ Came(s[k])
  BY <1>0, ReceivedCame
<1>3. ASSUME NEW k \in 1 .. Len(s), NEW l \in 1 .. Len(s), k < l PROVE BeforeNext(s[k], s[l])
  <2>1. Before(s[k], s[l])
    BY <1>0, <1>3 DEF InOrder, Sorted
  <2> QED BY <1>1, <1>2, <2>1
<1>4. CASE Thins(t, s)
  <2>1. PICK f \in [1 .. Len(t) -> 1 .. Len(s)] :
               /\ \A k \in 1 .. Len(t) : t[k] = s[f[k]]
               /\ \A k, l \in 1 .. Len(t) : k < l => f[k] < f[l]
    BY <1>4 DEF Thins
  <2>2. f[m] \in 1 .. Len(s) /\ f[n] \in 1 .. Len(s) /\ f[m] < f[n]
    BY <1>0, <2>1
  <2> QED BY <1>0, <1>3, <2>1, <2>2
<1>5. ASSUME NEW p \in Posts, Gets(c, p) PROVE BeforeNext(t[m], t[n])
  <2>1. Grows(t, s, p) /\ Len(s) \in Nat
    <3>1. s \in Seq(Posts)
      BY <1>0, ConcatProperties DEF Stream, Typed, TypeOK
    <3> QED BY <1>0, <1>5, <3>1, LenProperties DEF Gets
  <2>2. m \in 1 .. Len(s) /\ t[m] = s[m]
    BY <1>0, <2>1 DEF Grows
  <2>3. CASE n \in 1 .. Len(s)
    BY <1>3, <2>1, <2>2, <2>3 DEF Grows
  <2>4. CASE n \notin 1 .. Len(s)
    <3>1. t[n] = p
      BY <1>0, <2>1, <2>4 DEF Grows
    <3>2. Before(s[m], p)
      BY <1>0, <1>2, <1>5, <2>2, LastMayFollow
    <3>3. Came(p)
      BY <1>5, <1>0 DEF Gets, Send, RelaySend, At, Came, Wires, WireOf, Done
    <3> QED BY <1>1, <1>2, <2>2, <3>1, <3>2, <3>3
  <2> QED BY <2>3, <2>4
<1>6. BeforeNext(t[m], t[n])
  BY <1>0, <1>4, <1>5, StreamMoves
<1> QED BY <1>0, <1>6

\* At the start nobody watches, and nothing has been sent.
LEMMA InitInOrder == Init => AfterAccepted /\ Places /\ Wires /\ Got /\ InOrder
<1> SUFFICES ASSUME Init PROVE AfterAccepted /\ Places /\ Wires /\ Got /\ InOrder
  OBVIOUS
<1>1. AfterAccepted /\ Places
  BY DEF Init, AfterAccepted, Places, Idle
<1>2. Wires
  <2>1. ASSUME NEW i \in Instances PROVE Len(wire[i]) = 0 /\ relay[i] = Idle
    BY EmptySeq DEF Init
  <2>2. \A i \in Instances : \A n \in 1 .. Len(wire[i]) : FALSE
    BY <2>1
  <2> QED BY <2>1, <2>2 DEF Wires, WireOf
<1>3. \A c \in Conns : Len(Stream(c)) = 0
  <2>1. <<>> \o <<>> = <<>> /\ Len(<<>>) = 0
    BY EmptySeq, ConcatEmptySeq
  <2> QED BY <2>1 DEF Init, Stream
<1>4. Got /\ InOrder
  BY <1>3 DEF Got, Received, In, InOrder, Sorted
<1> QED BY <1>1, <1>2, <1>4

\* A watcher is sent a line once, though it goes to him from his instance and
\* through Redis; and of two lines posted to one instance, the second when the
\* first had been accepted, he is sent the first one first.
THEOREM LinesComeOnceAndInOrder == Spec => []SeenOnceInOrder
<1> DEFINE Inv == /\ Typed /\ Persisted /\ FromTable
                  /\ AfterAccepted /\ Places /\ Wires /\ Got /\ InOrder
<1>1. Init => Inv
  BY InitTyped, InitFromTable, InitInOrder
<1>2. Inv /\ [Next]_vars => Inv'
  <2>1. Inv /\ [Next]_vars => Typed' /\ Persisted' /\ FromTable' /\ AfterAccepted'
    BY NextTyped, NextPersisted, NextFromTable, NextAfter
  <2>2. Inv /\ [Next]_vars => Places' /\ Wires' /\ Got' /\ InOrder'
    BY NextPlaces, NextWires, NextGot, NextInOrder
  <2> QED BY <2>1, <2>2
<1>3. Inv => SeenOnceInOrder
  <2> SUFFICES ASSUME Inv, NEW c \in Conns,
                      NEW m \in 1 .. Len(Stream(c)), NEW n \in 1 .. Len(Stream(c))
               PROVE  /\ Stream(c)[m] = Stream(c)[n] => m = n
                      /\ m < n /\ post[Stream(c)[m]].on = post[Stream(c)[n]].on
                           => Stream(c)[n] \notin after[Stream(c)[m]]
    BY DEF SeenOnceInOrder
  <2>1. m < n \/ n < m \/ m = n
    OBVIOUS
  <2>2. /\ m < n => Before(Stream(c)[m], Stream(c)[n])
        /\ n < m => Before(Stream(c)[n], Stream(c)[m])
    BY DEF InOrder, Sorted
  <2> QED BY <2>1, <2>2 DEF Before
<1> HIDE DEF Inv
<1> QED BY <1>1, <1>2, <1>3, PTL DEF Spec
=============================================================================
