------------------------------ MODULE TaskLogs ------------------------------
(***************************************************************************)
(* The log lines of one task: an agent posts them, they are kept in the    *)
(* table task_logs, sent to those who watch the task over a WebSocket of   *)
(* the same instance, put into a sorted set in Redis, and sent through     *)
(* Redis to the watchers of the other instances.  Whoever asks for the     *)
(* history is answered from the sorted set, and from the table only when   *)
(* the set has nothing.                                                    *)
(*                                                                         *)
(* A request that is refused changes nothing, and is left out: a post may  *)
(* come whenever its node is in progress.  Lines are masked before they    *)
(* are kept and once more before they are published; a line of Lines is    *)
(* what is left after that.  Requests for the history write nothing:       *)
(* History is what they answer.                                            *)
(***************************************************************************)
EXTENDS Naturals, Sequences

CONSTANTS
  Instances,   \* of the server
  Conns,       \* WebSockets; a name is used again once nothing refers to it
  Posts,       \* the posts of the agents
  Nodes,       \* nodes of the task
  Lines,       \* what may be posted: a node and what it says
  Cap,         \* capacity of a channel (64)
  MaxTime,     \* bound: where the clock, in milliseconds, stops
  MaxCrashes,  \* bound: instances that go down, but for panics
  None         \* no instance, no filter

ASSUME LogsAssumption ==
  /\ \A line \in Lines : line.node \in Nodes
  /\ Cap \in Nat
  /\ MaxTime \in Nat
  /\ MaxCrashes \in Nat
  /\ None \notin Instances \cup Nodes

VARIABLES
  now,      \* the clock
  post,     \* how far each post is, where, its line, its time, channels to go
  after,    \* per post, those that had been accepted when it came
  logs,     \* the posts whose row is in task_logs
  buffer,   \* the sorted set in Redis
  lapsed,   \* posts whose line Redis refused or has dropped since
  wire,     \* per instance, what its Redis subscription has yet to hand over
  subs,     \* per instance, Gateway.clients
  relay,    \* per instance, the loop of Start: a post and the channels to go
  at,       \* the instance of each connection, None once it is closed
  filter,   \* per connection, the node whose lines it asks for
  queue,    \* the channel of each connection
  seen,     \* what each connection has been sent
  crashes   \* instances gone down so far

postVars  == <<post, after>>
redisVars == <<buffer, lapsed, wire>>
connVars  == <<at, filter, seen>>
vars == <<now, postVars, logs, redisVars, subs, relay, connVars, queue, crashes>>

Times   == 0..MaxTime
Steps   == {"new", "persist", "copy", "send", "publish", "accepted", "failed"}
Entries == [line : Lines, time : Times]
Idle    == [step |-> "idle"]

\* A line as the sorted set and the table know it.
Entry(p) == [line |-> post[p].line, time |-> post[p].time]

TypeOK ==
  /\ now \in Times
  /\ post \in [Posts -> [step : Steps, on : Instances \cup {None}, line : Lines \cup {None},
                         time : Times, left : SUBSET Conns]]
  /\ after \in [Posts -> SUBSET Posts]
  /\ logs \subseteq Posts
  /\ buffer \subseteq Entries
  /\ lapsed \subseteq Posts
  /\ wire \in [Instances -> Seq([post : Posts, source : Instances])]
  /\ subs \in [Instances -> SUBSET Conns]
  /\ relay \in [Instances -> [post : Posts, left : SUBSET Conns] \cup {Idle}]
  /\ at \in [Conns -> Instances \cup {None}]
  /\ filter \in [Conns -> Nodes \cup {None}]
  /\ queue \in [Conns -> Seq(Posts)]
  /\ \A c \in Conns : Len(queue[c]) <= Cap
  /\ seen \in [Conns -> Seq(Posts)]
  /\ crashes \in 0..MaxCrashes

Init ==
  /\ now = 0
  /\ post = [p \in Posts |->
               [step |-> "new", on |-> None, line |-> None, time |-> 0, left |-> {}]]
  /\ after = [p \in Posts |-> {}]
  /\ logs = {}
  /\ buffer = {}
  /\ lapsed = {}
  /\ wire = [i \in Instances |-> <<>>]
  /\ subs = [i \in Instances |-> {}]
  /\ relay = [i \in Instances |-> Idle]
  /\ at = [c \in Conns |-> None]
  /\ filter = [c \in Conns |-> None]
  /\ queue = [c \in Conns |-> <<>>]
  /\ seen = [c \in Conns |-> <<>>]
  /\ crashes = 0

Tick ==
  /\ now < MaxTime
  /\ now' = now + 1
  /\ UNCHANGED <<postVars, logs, redisVars, subs, relay, connVars, queue, crashes>>

-----------------------------------------------------------------------------
\* A post.

Accepted == {p \in Posts : post[p].step = "accepted"}

\* Its time is taken before anything is written.
Post(p, i, line) ==
  /\ post[p].step = "new"
  /\ post' = [post EXCEPT ![p] = [step |-> "persist", on |-> i, line |-> line,
                                  time |-> now, left |-> {}]]
  /\ after' = [after EXCEPT ![p] = Accepted]
  /\ UNCHANGED <<now, logs, redisVars, subs, relay, connVars, queue, crashes>>

At(p, step) == post[p].step = step

Goes(p, step) == post' = [post EXCEPT ![p].step = step]

\* Mutant: a row that cannot be inserted is only logged.
PersistIfPossible(p) ==
  /\ At(p, "persist")
  /\ Goes(p, "copy")
  /\ \/ logs' = logs \cup {p}
     \/ UNCHANGED logs
  /\ UNCHANGED <<now, after, redisVars, subs, relay, connVars, queue, crashes>>

Persist(p) ==
  /\ At(p, "persist")
  /\ \/ /\ logs' = logs \cup {p}
        /\ Goes(p, "copy")
     \/ /\ Goes(p, "failed")
        /\ UNCHANGED logs
  /\ UNCHANGED <<now, after, redisVars, subs, relay, connVars, queue, crashes>>

CopySubscribers(p) ==
  /\ At(p, "copy")
  /\ post' = [post EXCEPT ![p].step = "send", ![p].left = subs[post[p].on]]
  /\ UNCHANGED <<now, after, logs, redisVars, subs, relay, connVars, queue, crashes>>

\* Mutant: the capacity is off by one.
SentBeyond(c, p) == IF Len(queue[c]) <= Cap THEN [queue EXCEPT ![c] = Append(@, p)] ELSE queue

\* What a send leaves in the channel.  A full one loses the line.
Sent(c, p) == IF Len(queue[c]) < Cap THEN [queue EXCEPT ![c] = Append(@, p)] ELSE queue

Send(p, c) ==
  /\ At(p, "send")
  /\ c \in post[p].left
  /\ at[c] # None
  /\ queue' = Sent(c, p)
  /\ post' = [post EXCEPT ![p].left = @ \ {c}]
  /\ UNCHANGED <<now, after, logs, redisVars, subs, relay, connVars, crashes>>

\* Mutant: the member of the sorted set is the time.
BufferedByTime(p) == {b \in buffer : b.time # post[p].time} \cup {Entry(p)}

\* Lines that say the same and have the same time are one member of the set.
Buffered(p) == buffer \cup {Entry(p)}

\* An error is logged, and the line is published all the same.
BufferLine(p) ==
  /\ At(p, "send")
  /\ post[p].left = {}
  /\ Goes(p, "publish")
  /\ \/ /\ buffer' = Buffered(p)
        /\ UNCHANGED lapsed
     \/ /\ lapsed' = lapsed \cup {p}
        /\ UNCHANGED buffer
  /\ UNCHANGED <<now, after, logs, wire, subs, relay, connVars, queue, crashes>>

\* Subscriptions that are broken at the moment get nothing; an error may be
\* returned whether or not the message went out.
PublishToRedis(p, reached) ==
  /\ At(p, "publish")
  /\ wire' = [i \in Instances |->
                IF i \in reached
                  THEN Append(wire[i], [post |-> p, source |-> post[p].on])
                  ELSE wire[i]]
  /\ \/ Goes(p, "accepted")
     \/ Goes(p, "failed")
  /\ UNCHANGED <<now, after, logs, buffer, lapsed, subs, relay, connVars, queue, crashes>>

-----------------------------------------------------------------------------
\* The loop of Start.

Relaying(p, left) == IF left = {} THEN Idle ELSE [post |-> p, left |-> left]

Without(s, n) == SubSeq(s, 1, n - 1) \o SubSeq(s, n + 1, Len(s))

\* Mutant: each message has a goroutine of its own.
TakeAnyMessage(i) ==
  /\ relay[i] = Idle
  /\ \E n \in 1..Len(wire[i]) :
       /\ relay' = [relay EXCEPT ![i] =
            Relaying(wire[i][n].post, IF wire[i][n].source = i THEN {} ELSE subs[i])]
       /\ wire' = [wire EXCEPT ![i] = Without(@, n)]
  /\ UNCHANGED <<now, postVars, logs, buffer, lapsed, subs, connVars, queue, crashes>>

\* Mutant: an instance does not recognise its own messages.
TakeOwnMessage(i) ==
  /\ relay[i] = Idle
  /\ wire[i] # <<>>
  /\ relay' = [relay EXCEPT ![i] = Relaying(Head(wire[i]).post, subs[i])]
  /\ wire' = [wire EXCEPT ![i] = Tail(@)]
  /\ UNCHANGED <<now, postVars, logs, buffer, lapsed, subs, connVars, queue, crashes>>

TakeMessage(i) ==
  /\ relay[i] = Idle
  /\ wire[i] # <<>>
  /\ LET message == Head(wire[i]) IN
       relay' = [relay EXCEPT ![i] =
         Relaying(message.post, IF message.source = i THEN {} ELSE subs[i])]
  /\ wire' = [wire EXCEPT ![i] = Tail(@)]
  /\ UNCHANGED <<now, postVars, logs, buffer, lapsed, subs, connVars, queue, crashes>>

RelaySend(i, c) ==
  /\ relay[i] # Idle
  /\ c \in relay[i].left
  /\ at[c] # None
  /\ queue' = Sent(c, relay[i].post)
  /\ relay' = [relay EXCEPT ![i] = Relaying(@.post, @.left \ {c})]
  /\ UNCHANGED <<now, postVars, logs, redisVars, subs, connVars, crashes>>

-----------------------------------------------------------------------------
\* The WebSocket handler.

\* Some list of channels names this connection.
Referenced(c) ==
  \/ \E p \in Posts : c \in post[p].left
  \/ \E i \in Instances : relay[i] # Idle /\ c \in relay[i].left

Watch(c, i, node) ==
  /\ at[c] = None
  /\ ~Referenced(c)
  /\ at' = [at EXCEPT ![c] = i]
  /\ filter' = [filter EXCEPT ![c] = node]
  /\ seen' = [seen EXCEPT ![c] = <<>>]
  /\ subs' = [subs EXCEPT ![i] = @ \cup {c}]
  /\ UNCHANGED <<now, postVars, logs, redisVars, relay, queue, crashes>>

Wanted(node, p) == node \in {None, post[p].line.node}

Forward(c) ==
  /\ at[c] # None
  /\ queue[c] # <<>>
  /\ queue' = [queue EXCEPT ![c] = Tail(@)]
  /\ seen' = [seen EXCEPT ![c] =
                IF Wanted(filter[c], Head(queue[c])) THEN Append(@, Head(queue[c])) ELSE @]
  /\ UNCHANGED <<now, postVars, logs, redisVars, subs, relay, at, filter, crashes>>

\* The client has gone.  Whoever copied the list before still has the channel,
\* which is closed now.
Unsubscribe(c) ==
  /\ at[c] # None
  /\ subs' = [subs EXCEPT ![at[c]] = @ \ {c}]
  /\ at' = [at EXCEPT ![c] = None]
  /\ queue' = [queue EXCEPT ![c] = <<>>]
  /\ UNCHANGED <<now, postVars, logs, redisVars, relay, filter, seen, crashes>>

-----------------------------------------------------------------------------
\* The history, of a node or of all: the set, and the table if the set has
\* nothing of it.  The table is read later, when it has the same or more.

GetBufferedLogs(node) == {b \in buffer : node \in {None, b.line.node}}

ListTaskLogs(node) == {Entry(p) : p \in {q \in logs : Wanted(node, q)}}

History(node) ==
  IF GetBufferedLogs(node) # {} THEN GetBufferedLogs(node) ELSE ListTaskLogs(node)

-----------------------------------------------------------------------------
\* Failures.

InFlight == {p \in Posts : post[p].step \notin {"new", "accepted", "failed"}}

\* Two hours after the last line the set is gone.  No post takes that long.
Expire ==
  /\ InFlight = {}
  /\ buffer # {}
  /\ buffer' = {}
  /\ lapsed' = lapsed \cup {p \in logs : Entry(p) \in buffer}
  /\ UNCHANGED <<now, postVars, logs, wire, subs, relay, connVars, queue, crashes>>

\* The process ends, and is started again.
Down(i) ==
  /\ subs' = [subs EXCEPT ![i] = {}]
  /\ wire' = [wire EXCEPT ![i] = <<>>]
  /\ relay' = [relay EXCEPT ![i] = Idle]
  /\ at' = [c \in Conns |-> IF at[c] = i THEN None ELSE at[c]]
  /\ queue' = [c \in Conns |-> IF at[c] = i THEN <<>> ELSE queue[c]]
  /\ post' = [p \in Posts |-> IF p \in InFlight /\ post[p].on = i
                                THEN [post[p] EXCEPT !.step = "failed", !.left = {}]
                                ELSE post[p]]
  /\ UNCHANGED <<now, after, logs, buffer, lapsed, filter, seen>>

\* A send on a closed channel panics: in a request this is recovered...
SendPanics(p, c) ==
  /\ At(p, "send")
  /\ c \in post[p].left
  /\ at[c] = None
  /\ post' = [post EXCEPT ![p].step = "failed", ![p].left = {}]
  /\ UNCHANGED <<now, after, logs, redisVars, subs, relay, connVars, queue, crashes>>

\* ... and in the goroutine of Start it is not.
RelayPanics(i, c) ==
  /\ relay[i] # Idle
  /\ c \in relay[i].left
  /\ at[c] = None
  /\ Down(i)
  /\ UNCHANGED crashes

Crash(i) ==
  /\ crashes < MaxCrashes
  /\ Down(i)
  /\ crashes' = crashes + 1

-----------------------------------------------------------------------------
OfPost(p) ==
  \/ \E i \in Instances, line \in Lines : Post(p, i, line)
  \/ Persist(p)
  \/ CopySubscribers(p)
  \/ \E c \in Conns : Send(p, c) \/ SendPanics(p, c)
  \/ BufferLine(p)
  \/ \E reached \in SUBSET Instances : PublishToRedis(p, reached)

OfInstance(i) ==
  \/ TakeMessage(i)
  \/ \E c \in Conns : RelaySend(i, c) \/ RelayPanics(i, c)
  \/ Crash(i)

Next ==
  \/ Tick
  \/ \E p \in Posts : OfPost(p)
  \/ \E i \in Instances : OfInstance(i)
  \/ \E c \in Conns, i \in Instances, node \in Nodes \cup {None} : Watch(c, i, node)
  \/ \E c \in Conns : Forward(c) \/ Unsubscribe(c)
  \/ Expire

Spec == Init /\ [][Next]_vars

-----------------------------------------------------------------------------
\* Properties.

\* What a watcher gets, sent or still in its channel.
Stream(c) == seen[c] \o queue[c]

\* A watcher is sent a line once, though the line goes to the channels of its
\* instance and again through Redis to every instance.  And of two lines that
\* went through one instance, the second posted when the first had been accepted,
\* a watcher of whatever instance sees the first one first, if it sees both.
\* (Through two instances they may change places.)
SeenOnceInOrder ==
  \A c \in Conns : \A m, n \in 1..Len(Stream(c)) :
    LET p == Stream(c)[m] q == Stream(c)[n] IN
    /\ p = q => m = n
    /\ m < n /\ post[p].on = post[q].on => q \notin after[p]

\* Whatever somebody has been sent, or is shown as the history, can be looked
\* up for good, though the instance that sent it goes down or Redis fails in
\* the middle of a post.
ShownIsKept ==
  /\ \A c \in Conns : \A n \in 1..Len(Stream(c)) : Stream(c)[n] \in logs
  /\ \A node \in Nodes \cup {None} : History(node) \subseteq ListTaskLogs(node)

\* The history has every line that was accepted, of a node as of all, from
\* whichever of the two places it comes and whatever lines are on their way,
\* except for what Redis refused or has dropped: such a line is missing as
\* long as the set has another one.
HistoryHasAccepted ==
  \A p \in Accepted \ lapsed : \A node \in Nodes \cup {None} :
    Wanted(node, p) => Entry(p) \in History(node)
=============================================================================
