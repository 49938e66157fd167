--------------------------- MODULE EventDelivery ---------------------------
(***************************************************************************)
(* How an event reaches the one runtime of an agent: it is buffered in     *)
(* Redis, sent to the channels of the instance that publishes it, and      *)
(* through Redis to those of every instance, itself included.  The client  *)
(* drops out and connects again, with the ID of the last event it saw.     *)
(*                                                                         *)
(* An event is known by what it says.  An ID that is a timestamp and a     *)
(* counter cannot be parsed where IDs are compared, so all of these are    *)
(* Dash.  An ID that is a timestamp alone comes from a clock that moves    *)
(* when such an ID is made: an event buffered under the current time comes *)
(* after the last of them.  A client has one connection at a time; the     *)
(* server may keep the last one for a while after the client has left it.  *)
(*                                                                         *)
(* Redis may refuse a command.  The code logs that and goes on: an event   *)
(* that could not be buffered is sent all the same.                        *)
(***************************************************************************)
EXTENDS Naturals, Sequences

CONSTANTS
  Instances,   \* of the server
  Conns,       \* connections; a name is used again once nothing refers to it
  Requested,   \* events that requests publish: of {"project", "sync", "control"}
  Timed,       \* events that the jobs publish: of {"renotify", "timeout"}
  Cap,         \* capacity of a channel (64)
  MaxWire,     \* bound: messages that wait at an instance's Redis subscription
  MaxTime,     \* bound: where the clock stops
  MaxStops,    \* bound: orderly restarts of instances
  MaxFaults,   \* bound: commands that Redis refuses
  Dash,        \* an ID of nextSSEEventID
  None         \* no ID, no connection

ASSUME DeliveryAssumption ==
  /\ Instances # {}
  /\ Requested \subseteq {"project", "sync", "control"}
  /\ Timed \subseteq {"renotify", "timeout"}
  /\ Cap \in Nat
  /\ MaxWire \in Nat
  /\ MaxTime \in Nat
  /\ MaxStops \in Nat
  /\ MaxFaults \in Nat
  /\ Dash \notin Nat
  /\ None \notin Conns \cup Instances

VARIABLES
  online,   \* the row of the runtime says online
  pending,  \* a node has waited for an agent for 30 seconds
  now,      \* the clock
  buffer,   \* the Redis sorted set: events with their scores
  wire,     \* per instance, what its Redis subscription has yet to hand over
  faults,   \* commands that Redis has refused so far
  refused,  \* events that Publish could not buffer (a history)
  subs,     \* per instance, Hub.clients
  relay,    \* per instance, the loop of Start: an event and the channels to go
  queue,    \* the channel of each connection
  at,       \* the instance of each connection that is not closed
  phase,    \* how far its handler is
  client,   \* the client's connection
  last,     \* the client's Last-Event-ID
  heard,    \* what the client has been sent, or told to fetch
  issued,   \* what was published
  pub,      \* the publications under way, one of a request and one of a job
  stops     \* orderly restarts so far

rowVars    == <<online, pending>>
faultVars  == <<faults, refused>>
redisVars  == <<now, buffer, wire, faultVars>>
hubVars    == <<subs, at, phase>>
clientVars == <<client, last, heard>>
vars == <<rowVars, redisVars, relay, queue, hubVars, clientVars, issued, pub, stops>>

Publishers == {"request", "job"}
Kinds      == Requested \cup Timed
Times      == 0..MaxTime
EventType  == [what : Kinds, id : Times \cup {Dash}]
Steps      == {"buffer", "copy", "send", "again", "only"}
Phases     == {"replay", "subscribe", "open", "closed"}
Idle       == [step |-> "idle"]

TypeOK ==
  /\ online \in BOOLEAN
  /\ pending \in BOOLEAN
  /\ now \in Times
  /\ buffer \subseteq [event : EventType, score : Times]
  /\ wire \in [Instances -> Seq(EventType)]
  /\ faults \in 0..MaxFaults
  /\ refused \subseteq EventType
  /\ subs \in [Instances -> SUBSET Conns]
  /\ relay \in [Instances -> [event : EventType, left : SUBSET Conns] \cup {Idle}]
  /\ queue \in [Conns -> Seq(EventType)]
  /\ at \in [Conns -> Instances \cup {None}]
  /\ phase \in [Conns -> Phases]
  /\ client \in Conns \cup {None}
  /\ last \in Times \cup {Dash, None}
  /\ heard \subseteq Kinds
  /\ issued \subseteq Kinds
  /\ pub \in [Publishers -> [step : Steps, event : EventType, on : Instances,
                             left : SUBSET Conns] \cup {Idle}]
  /\ stops \in 0..MaxStops

Init ==
  /\ online = FALSE
  /\ pending = FALSE
  /\ now = 0
  /\ buffer = {}
  /\ wire = [i \in Instances |-> <<>>]
  /\ faults = 0
  /\ refused = {}
  /\ subs = [i \in Instances |-> {}]
  /\ relay = [i \in Instances |-> Idle]
  /\ queue = [c \in Conns |-> <<>>]
  /\ at = [c \in Conns |-> None]
  /\ phase = [c \in Conns |-> "closed"]
  /\ client = None
  /\ last = None
  /\ heard = {}
  /\ issued = {}
  /\ pub = [p \in Publishers |-> Idle]
  /\ stops = 0

-----------------------------------------------------------------------------
\* The row of the runtime and the node, which other parts of the server write.

Heartbeat ==
  /\ online' = TRUE
  /\ UNCHANGED <<pending, redisVars, relay, queue, hubVars, clientVars, issued, pub, stops>>

MarkStale ==
  /\ online' = FALSE
  /\ UNCHANGED <<pending, redisVars, relay, queue, hubVars, clientVars, issued, pub, stops>>

\* Another node waits: the client has not been told of that one.
NodeWaits ==
  /\ "renotify" \in Timed
  /\ pending' = TRUE
  /\ heard' = heard \ {"renotify"}
  /\ UNCHANGED <<online, redisVars, relay, queue, hubVars, client, last, issued, pub, stops>>

NodeTaken ==
  /\ pending' = FALSE
  /\ UNCHANGED <<online, redisVars, relay, queue, hubVars, clientVars, issued, pub, stops>>

-----------------------------------------------------------------------------
\* Publishing.

NextTime == IF now < MaxTime THEN now + 1 ELSE now

IDs(p) == IF p = "job" THEN NextTime ELSE Dash

\* Where a publication starts, given the row of the runtime as it is read now.
\* To an agent's runtimes: those online.  To a project: those online, or the
\* buffers of all if there is none.  A timeout asks for any runtime.
FirstStep(what) ==
  CASE what = "timeout" -> "buffer"
    [] what \in {"project", "renotify"} -> IF online THEN "buffer" ELSE "only"
    [] what = "control" -> IF online THEN "buffer" ELSE "again"
    [] what = "sync" -> IF online THEN "buffer" ELSE "idle"

\* Mutant: the job announces a waiting node once.
OccasionOnce(p, what) ==
  \/ p = "request" /\ what \in Requested \ issued
  \/ p = "job" /\ what \in Timed /\ what \notin issued

\* Requests publish each event once, in the model; the job repeats itself.
Occasion(p, what) ==
  \/ p = "request" /\ what \in Requested \ issued
  \/ p = "job" /\ what \in Timed /\ what = "timeout" /\ what \notin issued
  \/ p = "job" /\ what \in Timed /\ what = "renotify" /\ pending

Issue(p, what, i) ==
  /\ pub[p] = Idle
  /\ Occasion(p, what)
  /\ pub' = [pub EXCEPT ![p] =
       IF FirstStep(what) = "idle"
       THEN Idle
       ELSE [step |-> FirstStep(what), event |-> [what |-> what, id |-> IDs(p)],
             on |-> i, left |-> {}]]
  /\ issued' = issued \cup {what}
  /\ now' = IF p = "job" THEN NextTime ELSE now
  /\ UNCHANGED <<rowVars, buffer, wire, faultVars, relay, queue, hubVars, clientVars, stops>>

\* Mutant: no fallback for an ID that cannot be parsed.
ScoreOfID(event) == event.id

\* The ID if it is a time, and the current time otherwise.
Score(event) == IF event.id = Dash THEN now ELSE event.id

\* Redis refuses a command, or does not answer in time.
Refuses ==
  /\ faults < MaxFaults
  /\ faults' = faults + 1

AfterBuffer(p) == IF pub[p].step = "buffer" THEN [pub[p] EXCEPT !.step = "copy"] ELSE Idle

\* Mutant: the buffer holds the last event.
BufferLastEvent(p) ==
  /\ pub[p].step \in {"buffer", "again", "only"}
  /\ \/ /\ buffer' = {[event |-> pub[p].event, score |-> Score(pub[p].event)]}
        /\ UNCHANGED faultVars
     \/ /\ Refuses
        /\ refused' = refused \cup (IF pub[p].step = "buffer" THEN {pub[p].event} ELSE {})
        /\ UNCHANGED buffer
  /\ pub' = [pub EXCEPT ![p] = AfterBuffer(p)]
  /\ UNCHANGED <<rowVars, now, wire, relay, queue, hubVars, clientVars, issued, stops>>

\* The event is buffered: first thing in Publish, or instead of it, or once
\* more after it, for a control event.  What Redis refuses is logged.
BufferEvent(p) ==
  /\ pub[p].step \in {"buffer", "again", "only"}
  /\ \/ /\ buffer' = buffer \cup {[event |-> pub[p].event, score |-> Score(pub[p].event)]}
        /\ UNCHANGED faultVars
     \/ /\ Refuses
        /\ refused' = refused \cup (IF pub[p].step = "buffer" THEN {pub[p].event} ELSE {})
        /\ UNCHANGED buffer
  /\ pub' = [pub EXCEPT ![p] = AfterBuffer(p)]
  /\ UNCHANGED <<rowVars, now, wire, relay, queue, hubVars, clientVars, issued, stops>>

CopySubscribers(p) ==
  /\ pub[p].step = "copy"
  /\ pub' = [pub EXCEPT ![p].step = "send", ![p].left = subs[pub[p].on]]
  /\ UNCHANGED <<rowVars, redisVars, relay, queue, hubVars, clientVars, issued, stops>>

\* What a send leaves in the channel.  A full one loses the event, for a
\* control event of Publish after two seconds, which is a step that comes late.
Sent(c, event) ==
  IF Len(queue[c]) < Cap THEN [queue EXCEPT ![c] = Append(@, event)] ELSE queue

\* Channels are served in some order, which the model does not keep.
Send(p, c) ==
  /\ pub[p].step = "send"
  /\ c \in pub[p].left
  /\ phase[c] = "open"
  /\ queue' = Sent(c, pub[p].event)
  /\ pub' = [pub EXCEPT ![p].left = @ \ {c}]
  /\ UNCHANGED <<rowVars, redisVars, relay, hubVars, clientVars, issued, stops>>

Delivered(i, event) ==
  IF Len(wire[i]) < MaxWire THEN Append(wire[i], event) ELSE wire[i]

\* A control event is then buffered again, under an ID of its own.  One for a
\* project that was not published, as far as Publish can tell, counts as sent to
\* no runtime, and is buffered for all.
AfterPublish(p, ok) ==
  CASE pub[p].event.what = "control" -> [pub[p] EXCEPT !.step = "again"]
    [] ~ok /\ pub[p].event.what \in {"project", "renotify"} -> [pub[p] EXCEPT !.step = "only"]
    [] OTHER -> Idle

PublishToRedis(p) ==
  /\ pub[p].step = "send"
  /\ pub[p].left = {}
  /\ \/ /\ wire' = [i \in Instances |-> Delivered(i, pub[p].event)]
        /\ pub' = [pub EXCEPT ![p] = AfterPublish(p, TRUE)]
        /\ UNCHANGED faults
     \/ /\ Refuses
        /\ wire' \in {wire, [i \in Instances |-> Delivered(i, pub[p].event)]}
        /\ pub' = [pub EXCEPT ![p] = AfterPublish(p, FALSE)]
  /\ UNCHANGED <<rowVars, now, buffer, refused, relay, queue, hubVars, clientVars, issued,
                 stops>>

-----------------------------------------------------------------------------
\* The loop of Start.

\* What the loop does next, with these channels still to go.
Relaying(event, left) == IF left = {} THEN Idle ELSE [event |-> event, left |-> left]

TakeMessage(i) ==
  /\ relay[i] = Idle
  /\ wire[i] # <<>>
  /\ relay' = [relay EXCEPT ![i] = Relaying(Head(wire[i]), subs[i])]
  /\ wire' = [wire EXCEPT ![i] = Tail(@)]
  /\ UNCHANGED <<rowVars, now, buffer, faultVars, queue, hubVars, clientVars, issued, pub, stops>>

RelaySend(i, c) ==
  /\ relay[i] # Idle
  /\ c \in relay[i].left
  /\ phase[c] = "open"
  /\ queue' = Sent(c, relay[i].event)
  /\ relay' = [relay EXCEPT ![i] = Relaying(@.event, @.left \ {c})]
  /\ UNCHANGED <<rowVars, redisVars, hubVars, clientVars, issued, pub, stops>>

-----------------------------------------------------------------------------
\* The stream handler and its client.

\* Some list of channels names this connection.
Referenced(c) ==
  \/ \E p \in Publishers : pub[p] # Idle /\ c \in pub[p].left
  \/ \E i \in Instances : relay[i] # Idle /\ c \in relay[i].left

Free == {c \in Conns : phase[c] = "closed" /\ ~Referenced(c)}

\* Only one that presents an ID is replayed anything.
Connect(i) ==
  /\ client = None
  /\ Free # {}
  /\ client' = CHOOSE c \in Free : TRUE
  /\ at' = [at EXCEPT ![client'] = i]
  /\ phase' = [phase EXCEPT ![client'] = IF last = None THEN "subscribe" ELSE "replay"]
  /\ UNCHANGED <<rowVars, redisVars, relay, queue, subs, last, heard, issued, pub, stops>>

\* The buffered events with a score above the ID; none for one that is Dash.
Missed ==
  {b \in buffer : last # Dash /\ (b.score > last \/ (b.event.id = Dash /\ b.score = last))}

\* No other of them comes later: events under the current time come last.
Newest(b) ==
  /\ b \in Missed
  /\ \A other \in Missed :
       \/ other.score < b.score
       \/ other.score = b.score /\ (other.event.id = Dash => b.event.id = Dash)

\* A client is told to sync if there is nothing to replay, as after a failure to
\* read it, and learns of all that was published so far.
Replay(c) ==
  /\ phase[c] = "replay"
  /\ phase' = [phase EXCEPT ![c] = "subscribe"]
  /\ \/ /\ client # c
        /\ UNCHANGED <<last, heard, now, faults>>
     \/ /\ client = c
        /\ (Missed = {} /\ UNCHANGED faults) \/ Refuses
        /\ heard' = heard \cup issued
        /\ last' = NextTime
        /\ now' = NextTime
     \/ /\ client = c
        /\ heard' = heard \cup {b.event.what : b \in Missed}
        /\ \E b \in buffer : Newest(b) /\ last' = b.event.id
        /\ UNCHANGED <<now, faults>>
  /\ UNCHANGED <<rowVars, buffer, wire, refused, relay, queue, subs, at, client, issued, pub,
                 stops>>

Subscribe(c) ==
  /\ phase[c] = "subscribe"
  /\ phase' = [phase EXCEPT ![c] = "open"]
  /\ subs' = [subs EXCEPT ![at[c]] = @ \cup {c}]
  /\ UNCHANGED <<rowVars, redisVars, relay, queue, at, clientVars, issued, pub, stops>>

\* What is written to a connection that the client has left is lost.
Deliver(c) ==
  /\ phase[c] = "open"
  /\ queue[c] # <<>>
  /\ queue' = [queue EXCEPT ![c] = Tail(@)]
  /\ \/ /\ client # c
        /\ UNCHANGED <<last, heard>>
     \/ /\ client = c
        /\ last' = Head(queue[c]).id
        /\ heard' = heard \cup {Head(queue[c]).what}
                          \cup (IF Head(queue[c]).what = "sync" THEN issued ELSE {})
  /\ UNCHANGED <<rowVars, redisVars, relay, hubVars, client, issued, pub, stops>>

Disconnect ==
  /\ client # None
  /\ client' = None
  /\ UNCHANGED <<rowVars, redisVars, relay, queue, hubVars, last, heard, issued, pub, stops>>

\* Mutant: the channel is closed and stays in the list.
UnsubscribeKeepsChannel(c) ==
  /\ phase[c] = "open"
  /\ client # c
  /\ phase' = [phase EXCEPT ![c] = "closed"]
  /\ at' = [at EXCEPT ![c] = None]
  /\ queue' = [queue EXCEPT ![c] = <<>>]
  /\ UNCHANGED <<rowVars, redisVars, relay, subs, clientVars, issued, pub, stops>>

\* The handler notices that the client is gone.  A publication that has copied
\* the list still holds the channel, which is closed now.
Unsubscribe(c) ==
  /\ phase[c] = "open"
  /\ client # c
  /\ subs' = [subs EXCEPT ![at[c]] = @ \ {c}]
  /\ phase' = [phase EXCEPT ![c] = "closed"]
  /\ at' = [at EXCEPT ![c] = None]
  /\ queue' = [queue EXCEPT ![c] = <<>>]
  /\ UNCHANGED <<rowVars, redisVars, relay, clientVars, issued, pub, stops>>

-----------------------------------------------------------------------------
\* Failures.

\* The process ends, and is started again.
Down(i) ==
  /\ subs' = [subs EXCEPT ![i] = {}]
  /\ wire' = [wire EXCEPT ![i] = <<>>]
  /\ relay' = [relay EXCEPT ![i] = Idle]
  /\ phase' = [c \in Conns |-> IF at[c] = i THEN "closed" ELSE phase[c]]
  /\ at' = [c \in Conns |-> IF at[c] = i THEN None ELSE at[c]]
  /\ queue' = [c \in Conns |-> IF at[c] = i THEN <<>> ELSE queue[c]]
  /\ client' = IF client # None /\ at[client] = i THEN None ELSE client
  /\ pub' = [p \in Publishers |-> IF pub[p] # Idle /\ pub[p].on = i THEN Idle ELSE pub[p]]
  /\ UNCHANGED <<rowVars, now, buffer, faultVars, last, heard, issued>>

\* A send on a closed channel panics.  A request recovers and its publication
\* goes no further; the goroutine of the scheduler takes the process with it...
SendPanics(p, c) ==
  /\ pub[p].step = "send"
  /\ c \in pub[p].left
  /\ phase[c] = "closed"
  /\ \/ /\ p = "request"
        /\ pub' = [pub EXCEPT ![p] = Idle]
        /\ UNCHANGED <<rowVars, redisVars, relay, queue, hubVars, clientVars, issued>>
     \/ /\ p = "job"
        /\ Down(pub[p].on)
  /\ UNCHANGED stops

\* ... and so does that of Start.
RelayPanics(i, c) ==
  /\ relay[i] # Idle
  /\ c \in relay[i].left
  /\ phase[c] = "closed"
  /\ Down(i)
  /\ UNCHANGED stops

Stop(i) ==
  /\ stops < MaxStops
  /\ Down(i)
  /\ stops' = stops + 1

\* Events that were sent, or are about to be, and may still reach a channel.
InFlight ==
  {pub[p].event : p \in {q \in Publishers : pub[q] # Idle}}
    \cup {relay[i].event : i \in {j \in Instances : relay[j] # Idle}}
    \cup UNION {{wire[i][k] : k \in DOMAIN wire[i]} : i \in Instances}

\* An hour after it was last written the buffer is gone.  No event that is in it
\* is under way for that long.
Expire ==
  /\ InFlight \subseteq refused
  /\ buffer' = {}
  /\ UNCHANGED <<rowVars, now, wire, faultVars, relay, queue, hubVars, clientVars, issued, pub,
                 stops>>

-----------------------------------------------------------------------------
OfPublisher(p) ==
  \/ BufferEvent(p)
  \/ CopySubscribers(p)
  \/ \E c \in Conns : Send(p, c) \/ SendPanics(p, c)
  \/ PublishToRedis(p)

OfRelay(i) ==
  \/ TakeMessage(i)
  \/ \E c \in Conns : RelaySend(i, c) \/ RelayPanics(i, c)

OfHandler(c) ==
  \/ Replay(c)
  \/ Subscribe(c)
  \/ Deliver(c)
  \/ Unsubscribe(c)

Next ==
  \/ Heartbeat
  \/ MarkStale
  \/ NodeWaits
  \/ NodeTaken
  \/ \E p \in Publishers, what \in Kinds, i \in Instances : Issue(p, what, i)
  \/ \E p \in Publishers : OfPublisher(p)
  \/ \E i \in Instances : OfRelay(i) \/ Stop(i) \/ Connect(i)
  \/ \E c \in Conns : OfHandler(c)
  \/ Disconnect
  \/ Expire

Spec == Init /\ [][Next]_vars

\* Goroutines run, and the job of pending nodes is repeated, on some instance.
FairSpec ==
  /\ Spec
  /\ WF_vars(\E i \in Instances : Issue("job", "renotify", i))
  /\ \A p \in Publishers : WF_vars(OfPublisher(p))
  /\ \A i \in Instances : WF_vars(OfRelay(i))
  /\ \A c \in Conns : WF_vars(OfHandler(c))

-----------------------------------------------------------------------------
\* Properties.

\* Hub.clients lists the open channels of its instance, no more and no less:
\* whatever a publication meets as closed was closed after it copied the list.
SubscribersOpen ==
  \A i \in Instances : subs[i] = {c \in Conns : phase[c] = "open" /\ at[c] = i}

\* What is sent to a client is in the buffer, unless Redis refused it when it was
\* published: one that drops out before it has read its channel can be replayed
\* what it lost, whichever instance sent it and whatever else was published.
SentIsBuffered ==
  [][\A c \in Conns : Len(queue'[c]) > Len(queue[c])
       => LET event == queue'[c][Len(queue'[c])]
          IN event \in refused \/ \E b \in buffer : b.event = event]_vars

\* A client that stays connected, with its runtime online, is told of the node
\* that waits, whichever instance runs the job, whatever is dropped from a full
\* channel, and whoever else's channel is closed meanwhile.
WaitingNodeHeard ==
  (pending /\ online /\ client # None)
    ~> ("renotify" \in heard \/ ~pending \/ ~online \/ client = None)
=============================================================================
