------------------------ MODULE EventDelivery_proofs ------------------------
(***************************************************************************)
(* What TLAPS proves of EventDelivery, for any number of instances and     *)
(* connections, any capacities and any bounds.                             *)
(***************************************************************************)
EXTENDS EventDelivery, TLAPS

PubType   == [step : Steps, event : EventType, on : Instances, left : SUBSET Conns] \cup {Idle}
RelayType == [event : EventType, left : SUBSET Conns] \cup {Idle}

\* Idle is not a publication, nor a message of the loop of Start.
LEMMA IdleApart ==
  /\ \A x \in PubType : x # Idle => x \in [step : Steps, event : EventType, on : Instances,
                                          left : SUBSET Conns]
  /\ \A x \in RelayType : x # Idle => x \in [event : EventType, left : SUBSET Conns]
  /\ \A x \in PubType : x.step \in Steps => x # Idle
  BY DEF PubType, RelayType, Idle, Steps

\* A send leaves a channel of events (the select statements of Publish and Start).
LEMMA SentType ==
  ASSUME NEW c \in Conns, NEW event \in EventType, queue \in [Conns -> Seq(EventType)]
  PROVE  Sent(c, event) \in [Conns -> Seq(EventType)]
  BY DEF Sent

\* A restart leaves the types.
LEMMA DownType ==
  ASSUME TypeOK, NEW i \in Instances, Down(i), stops' \in 0..MaxStops
  PROVE  TypeOK'
<1>1. pub' \in [Publishers -> PubType]
  BY DEF Down, TypeOK, PubType
<1>2. relay' \in [Instances -> RelayType]
  BY DEF Down, TypeOK, RelayType
<1>3. /\ wire' \in [Instances -> Seq(EventType)]
      /\ queue' \in [Conns -> Seq(EventType)]
  BY DEF Down, TypeOK
<1> QED
  BY <1>1, <1>2, <1>3 DEF Down, TypeOK, Phases, rowVars, faultVars, PubType, RelayType

\* Every step of a publication keeps the types.
LEMMA PublisherType ==
  ASSUME TypeOK, NEW p \in Publishers, OfPublisher(p)
  PROVE  TypeOK'
<1> USE DeliveryAssumption
<1>0. pub \in [Publishers -> PubType]
  BY DEF TypeOK, PubType
<1>1. CASE BufferEvent(p)
  <2>1. pub[p] \in [step : Steps, event : EventType, on : Instances, left : SUBSET Conns]
    BY <1>0, <1>1, IdleApart DEF BufferEvent, Steps
  <2>2. pub' \in [Publishers -> PubType]
    <3>1. AfterBuffer(p) \in PubType
      BY <2>1 DEF AfterBuffer, PubType, Steps
    <3> QED
      BY <1>0, <1>1, <3>1 DEF BufferEvent
  <2>3. Score(pub[p].event) \in Times
    BY <2>1 DEF Score, TypeOK, EventType
  <2>4. buffer' \subseteq [event : EventType, score : Times]
    BY <1>1, <2>1, <2>3 DEF BufferEvent, TypeOK
  <2>5. faults' \in 0..MaxFaults /\ refused' \subseteq EventType
    BY <1>1, <2>1 DEF BufferEvent, Refuses, TypeOK, faultVars
  <2> QED
    BY <1>1, <2>2, <2>4, <2>5
    DEF BufferEvent, TypeOK, PubType, rowVars, faultVars, hubVars, clientVars
<1>2. CASE CopySubscribers(p)
  <2>1. pub[p] \in [step : Steps, event : EventType, on : Instances, left : SUBSET Conns]
    BY <1>0, <1>2, IdleApart DEF CopySubscribers, Steps
  <2>2. pub' \in [Publishers -> PubType]
    BY <1>0, <1>2, <2>1 DEF CopySubscribers, PubType, Steps, TypeOK
  <2> QED
    BY <1>2, <2>2
    DEF CopySubscribers, TypeOK, PubType, rowVars, redisVars, faultVars, hubVars, clientVars
<1>3. ASSUME NEW c \in Conns, Send(p, c)
      PROVE  TypeOK'
  <2>1. pub[p] \in [step : Steps, event : EventType, on : Instances, left : SUBSET Conns]
    BY <1>0, <1>3, IdleApart DEF Send, Steps
  <2>2. pub' \in [Publishers -> PubType]
    BY <1>0, <1>3, <2>1 DEF Send, PubType
  <2>3. queue' \in [Conns -> Seq(EventType)]
    BY <1>3, <2>1, SentType DEF Send, TypeOK
  <2> QED
    BY <1>3, <2>2, <2>3
    DEF Send, TypeOK, PubType, rowVars, redisVars, faultVars, hubVars, clientVars
<1>4. ASSUME NEW c \in Conns, SendPanics(p, c)
      PROVE  TypeOK'
  <2>1. CASE p = "request"
    <3>1. pub' \in [Publishers -> PubType]
      BY <1>0, <1>4, <2>1 DEF SendPanics, PubType
    <3> QED
      BY <1>4, <2>1, <3>1
      DEF SendPanics, TypeOK, PubType, rowVars, redisVars, faultVars, hubVars, clientVars
  <2>2. CASE p = "job"
    <3>1. pub[p].on \in Instances
      BY <1>0, <1>4, IdleApart DEF SendPanics, Steps
    <3>2. Down(pub[p].on) /\ stops' \in 0..MaxStops
      BY <1>4, <2>2 DEF SendPanics, TypeOK
    <3> QED
      BY <3>1, <3>2, DownType
  <2> QED
    BY <2>1, <2>2 DEF Publishers
<1>5. CASE PublishToRedis(p)
  <2>1. pub[p] \in [step : Steps, event : EventType, on : Instances, left : SUBSET Conns]
    BY <1>0, <1>5, IdleApart DEF PublishToRedis, Steps
  <2>2. pub' \in [Publishers -> PubType]
    <3>1. AfterPublish(p, TRUE) \in PubType /\ AfterPublish(p, FALSE) \in PubType
      BY <2>1 DEF AfterPublish, PubType, Steps
    <3> QED
      BY <1>0, <1>5, <3>1 DEF PublishToRedis
  <2>3. wire' \in [Instances -> Seq(EventType)]
    <3>1. \A i \in Instances : Delivered(i, pub[p].event) \in Seq(EventType)
      BY <2>1 DEF Delivered, TypeOK
    <3>2. [i \in Instances |-> Delivered(i, pub[p].event)] \in [Instances -> Seq(EventType)]
      BY <3>1
    <3>3. \/ wire' = wire
          \/ wire' = [i \in Instances |-> Delivered(i, pub[p].event)]
      BY <1>5 DEF PublishToRedis
    <3> QED
      BY <3>2, <3>3 DEF TypeOK
  <2>4. faults' \in 0..MaxFaults
    <3>1. faults \in 0..MaxFaults
      BY DEF TypeOK
    <3>2. faults' = faults \/ Refuses
      BY <1>5 DEF PublishToRedis
    <3> QED
      BY <3>1, <3>2 DEF Refuses
  <2> QED
    BY <1>5, <2>2, <2>3, <2>4
    DEF PublishToRedis, TypeOK, PubType, rowVars, faultVars, hubVars, clientVars
<1> QED
  BY <1>1, <1>2, <1>3, <1>4, <1>5 DEF OfPublisher

\* Every step of the loop of Start keeps the types.
LEMMA RelayTypeStep ==
  ASSUME TypeOK, NEW i \in Instances, OfRelay(i)
  PROVE  TypeOK'
<1>0. relay \in [Instances -> RelayType]
  BY DEF TypeOK, RelayType
<1>1. CASE TakeMessage(i)
  <2>1. Head(wire[i]) \in EventType /\ Tail(wire[i]) \in Seq(EventType)
    BY <1>1 DEF TakeMessage, TypeOK
  <2>2. relay' \in [Instances -> RelayType]
    BY <1>0, <1>1, <2>1 DEF TakeMessage, Relaying, RelayType, TypeOK
  <2>3. wire' \in [Instances -> Seq(EventType)]
    BY <1>1, <2>1 DEF TakeMessage, TypeOK
  <2> QED
    BY <1>1, <2>2, <2>3 DEF TakeMessage, TypeOK, RelayType, rowVars, faultVars, hubVars, clientVars
<1>2. ASSUME NEW c \in Conns, RelaySend(i, c)
      PROVE  TypeOK'
  <2>1. relay[i] \in [event : EventType, left : SUBSET Conns]
    BY <1>0, <1>2, IdleApart DEF RelaySend
  <2>2. relay' \in [Instances -> RelayType]
    BY <1>0, <1>2, <2>1 DEF RelaySend, Relaying, RelayType
  <2>3. queue' \in [Conns -> Seq(EventType)]
    BY <1>2, <2>1, SentType DEF RelaySend, TypeOK
  <2> QED
    BY <1>2, <2>2, <2>3
    DEF RelaySend, TypeOK, RelayType, rowVars, redisVars, faultVars, hubVars, clientVars
<1>3. ASSUME NEW c \in Conns, RelayPanics(i, c)
      PROVE  TypeOK'
  BY <1>3, DownType DEF RelayPanics, TypeOK
<1> QED
  BY <1>1, <1>2, <1>3 DEF OfRelay

\* Every step of a stream handler keeps the types.
LEMMA HandlerType ==
  ASSUME TypeOK, NEW c \in Conns, OfHandler(c)
  PROVE  TypeOK'
<1> USE DeliveryAssumption
<1>0. NextTime \in Times
  BY DEF NextTime, Times, TypeOK
<1>1. CASE Replay(c)
  <2>1. heard' \subseteq Kinds
    <3>1. {b.event.what : b \in Missed} \subseteq Kinds
      BY DEF Missed, TypeOK, EventType
    <3> QED
      BY <1>1, <3>1 DEF Replay, TypeOK
  <2>2. last' \in Times \cup {Dash, None}
    <3>1. \A b \in buffer : b.event.id \in Times \cup {Dash}
      BY DEF TypeOK, EventType
    <3> QED
      BY <1>0, <1>1, <3>1 DEF Replay, TypeOK
  <2>3. now' \in Times
    BY <1>0, <1>1 DEF Replay, TypeOK
  <2>4. phase' \in [Conns -> Phases]
    BY <1>1 DEF Replay, TypeOK, Phases
  <2>5. /\ UNCHANGED <<online, pending, buffer, wire, refused, relay, queue, subs, at>>
        /\ UNCHANGED <<client, issued, pub, stops>>
    BY <1>1 DEF Replay, rowVars
  <2>6. faults' \in 0..MaxFaults
    BY <1>1 DEF Replay, Refuses, TypeOK
  <2> QED
    BY <2>1, <2>2, <2>3, <2>4, <2>5, <2>6 DEF TypeOK
<1>2. CASE Subscribe(c)
  BY <1>2 DEF Subscribe, TypeOK, Phases, rowVars, redisVars, faultVars, clientVars
<1>3. CASE Deliver(c)
  <2>1. Head(queue[c]) \in EventType /\ Tail(queue[c]) \in Seq(EventType)
    BY <1>3 DEF Deliver, TypeOK
  <2>2. queue' \in [Conns -> Seq(EventType)]
    BY <1>3, <2>1 DEF Deliver, TypeOK
  <2>3. heard' \subseteq Kinds /\ last' \in Times \cup {Dash, None}
    BY <1>3, <2>1 DEF Deliver, TypeOK, EventType
  <2> QED
    BY <1>3, <2>2, <2>3 DEF Deliver, TypeOK, rowVars, redisVars, faultVars, hubVars
<1>4. CASE Unsubscribe(c)
  <2>1. /\ subs' \in [Instances -> SUBSET Conns]
        /\ phase' \in [Conns -> Phases]
    BY <1>4 DEF Unsubscribe, TypeOK, Phases
  <2>2. /\ at' \in [Conns -> Instances \cup {None}]
        /\ queue' \in [Conns -> Seq(EventType)]
    BY <1>4 DEF Unsubscribe, TypeOK
  <2> QED
    BY <1>4, <2>1, <2>2 DEF Unsubscribe, TypeOK, rowVars, redisVars, faultVars, clientVars
<1> QED
  BY <1>1, <1>2, <1>3, <1>4 DEF OfHandler

\* Every step keeps the types.
LEMMA TypeStep == TypeOK /\ [Next]_vars => TypeOK'
<1> USE DeliveryAssumption
<1> SUFFICES ASSUME TypeOK, [Next]_vars
             PROVE  TypeOK'
  OBVIOUS
<1>1. CASE Heartbeat \/ MarkStale \/ NodeWaits \/ NodeTaken \/ Disconnect \/ Expire
  BY <1>1 DEF Heartbeat, MarkStale, NodeWaits, NodeTaken, Disconnect, Expire, TypeOK,
              rowVars, redisVars, faultVars, hubVars, clientVars
<1>2. ASSUME NEW p \in Publishers, NEW what \in Kinds, NEW i \in Instances, Issue(p, what, i)
      PROVE  TypeOK'
  <2>1. NextTime \in Times
    BY DEF NextTime, Times, TypeOK
  <2>2. FirstStep(what) # "idle" => FirstStep(what) \in Steps
    BY DEF FirstStep, Steps, Kinds
  <2>3. [what |-> what, id |-> IDs(p)] \in EventType
    BY <2>1 DEF IDs, EventType
  <2>4. pub' \in [Publishers -> PubType]
    BY <1>2, <2>2, <2>3 DEF Issue, TypeOK, PubType
  <2> QED
    BY <1>2, <2>1, <2>4 DEF Issue, TypeOK, PubType, rowVars, faultVars, hubVars, clientVars
<1>3. ASSUME NEW p \in Publishers, OfPublisher(p)
      PROVE  TypeOK'
  BY <1>3, PublisherType
<1>4. ASSUME NEW i \in Instances, OfRelay(i)
      PROVE  TypeOK'
  BY <1>4, RelayTypeStep
<1>5. ASSUME NEW i \in Instances, Stop(i)
      PROVE  TypeOK'
  BY <1>5, DownType DEF Stop, TypeOK
<1>6. ASSUME NEW i \in Instances, Connect(i)
      PROVE  TypeOK'
  <2>1. client' \in Conns
    BY <1>6 DEF Connect, Free
  <2>2. at' \in [Conns -> Instances \cup {None}] /\ phase' \in [Conns -> Phases]
    BY <1>6, <2>1 DEF Connect, TypeOK, Phases
  <2>3. /\ UNCHANGED <<online, pending, now, buffer, wire, faults, refused, relay, queue, subs>>
        /\ UNCHANGED <<last, heard, issued, pub, stops>>
    BY <1>6 DEF Connect, rowVars, redisVars, faultVars
  <2> QED
    BY <2>1, <2>2, <2>3 DEF TypeOK
<1>7. ASSUME NEW c \in Conns, OfHandler(c)
      PROVE  TypeOK'
  BY <1>7, HandlerType
<1>8. CASE UNCHANGED vars
  BY <1>8 DEF TypeOK, vars, rowVars, redisVars, faultVars, hubVars, clientVars
<1> QED
  BY <1>1, <1>2, <1>3, <1>4, <1>5, <1>6, <1>7, <1>8 DEF Next

\* The initial state has the types.
LEMMA TypeInit == Init => TypeOK
<1> SUFFICES ASSUME Init
             PROVE  TypeOK
  OBVIOUS
<1>1. /\ wire \in [Instances -> Seq(EventType)]
      /\ queue \in [Conns -> Seq(EventType)]
  BY DEF Init
<1>2. /\ relay \in [Instances -> RelayType]
      /\ pub \in [Publishers -> PubType]
  BY DEF Init, RelayType, PubType
<1>3. now \in Times /\ stops \in 0..MaxStops
  BY DeliveryAssumption DEF Init, Times
<1>4. faults \in 0..MaxFaults /\ refused \subseteq EventType
  BY DeliveryAssumption DEF Init
<1> QED
  BY <1>1, <1>2, <1>3, <1>4 DEF Init, TypeOK, Phases, RelayType, PubType

\* The tables, the channels and the lists of the hub hold what they should.
THEOREM DeliveryTypes == Spec => []TypeOK
  BY TypeInit, TypeStep, PTL DEF Spec

-----------------------------------------------------------------------------
\* Every step keeps the lists of the hub equal to the open channels.
LEMMA SubscribersStep == TypeOK /\ SubscribersOpen /\ [Next]_vars => SubscribersOpen'
<1> SUFFICES ASSUME TypeOK, SubscribersOpen, [Next]_vars
             PROVE  SubscribersOpen'
  OBVIOUS
<1>1. ASSUME NEW i \in Instances, Down(i)
      PROVE  SubscribersOpen'
  BY <1>1, DeliveryAssumption DEF Down, SubscribersOpen, TypeOK
<1>2. ASSUME NEW i \in Instances, Connect(i)
      PROVE  SubscribersOpen'
  <2>1. client' \in Conns /\ phase[client'] = "closed"
    BY <1>2 DEF Connect, Free
  <2> QED
    BY <1>2, <2>1 DEF Connect, SubscribersOpen, TypeOK
<1>3. ASSUME NEW c \in Conns, Replay(c) \/ Subscribe(c) \/ Unsubscribe(c)
      PROVE  SubscribersOpen'
  <2>1. CASE Replay(c)
    BY <2>1 DEF Replay, SubscribersOpen, TypeOK
  <2>2. CASE Subscribe(c)
    BY <2>2 DEF Subscribe, SubscribersOpen, TypeOK
  <2>3. CASE Unsubscribe(c)
    BY <2>3, DeliveryAssumption DEF Unsubscribe, SubscribersOpen, TypeOK
  <2> QED
    BY <1>3, <2>1, <2>2, <2>3
<1>4. CASE UNCHANGED hubVars
  BY <1>4 DEF hubVars, SubscribersOpen
<1>5. \/ UNCHANGED hubVars
      \/ \E i \in Instances : Down(i) \/ Connect(i)
      \/ \E c \in Conns : Replay(c) \/ Subscribe(c) \/ Unsubscribe(c)
  <2>1. ASSUME NEW p \in Publishers, OfPublisher(p)
        PROVE  UNCHANGED hubVars \/ \E i \in Instances : Down(i)
    <3>1. ASSUME NEW c \in Conns, SendPanics(p, c)
          PROVE  UNCHANGED hubVars \/ \E i \in Instances : Down(i)
      <4>1. pub[p].on \in Instances
        BY <3>1, IdleApart DEF SendPanics, Steps, TypeOK, PubType
      <4> QED
        BY <3>1, <4>1 DEF SendPanics
    <3> QED
      BY <2>1, <3>1 DEF OfPublisher, BufferEvent, CopySubscribers, Send, PublishToRedis
  <2>2. ASSUME NEW i \in Instances, OfRelay(i)
        PROVE  UNCHANGED hubVars \/ Down(i)
    BY <2>2 DEF OfRelay, TakeMessage, RelaySend, RelayPanics
  <2>3. ASSUME NEW c \in Conns, Deliver(c)
        PROVE  UNCHANGED hubVars
    BY <2>3 DEF Deliver
  <2>4. CASE Heartbeat \/ MarkStale \/ NodeWaits \/ NodeTaken \/ Disconnect \/ Expire
    BY <2>4 DEF Heartbeat, MarkStale, NodeWaits, NodeTaken, Disconnect, Expire, hubVars
  <2>5. ASSUME NEW p \in Publishers, NEW what \in Kinds, NEW i \in Instances, Issue(p, what, i)
        PROVE  UNCHANGED hubVars
    BY <2>5 DEF Issue
  <2>6. CASE UNCHANGED vars
    BY <2>6 DEF vars
  <2> QED
    BY <2>1, <2>2, <2>3, <2>4, <2>5, <2>6 DEF Next, OfHandler, Stop
<1> QED
  BY <1>1, <1>2, <1>3, <1>4, <1>5

\* Hub.clients lists the open channels and no closed one, with any number of
\* connections that come and go while events are published.
THEOREM ListsMatch == Spec => []SubscribersOpen
<1>1. Init => SubscribersOpen
  BY DEF Init, SubscribersOpen
<1> QED
  BY <1>1, TypeInit, TypeStep, SubscribersStep, PTL DEF Spec

-----------------------------------------------------------------------------
\* The event is in the buffer, unless Redis refused it.
Buffered(event) == event \in refused \/ \E b \in buffer : b.event = event

\* Whatever is about to be sent, waits in Redis or is being relayed is buffered.
InFlightBuffered ==
  /\ \A p \in Publishers : pub[p].step \in {"copy", "send"} => Buffered(pub[p].event)
  /\ \A i \in Instances : \A k \in 1..Len(wire[i]) : Buffered(wire[i][k])
  /\ \A i \in Instances : relay[i] # Idle => Buffered(relay[i].event)

\* A restart takes what was in flight with it.
LEMMA DownInFlight ==
  ASSUME TypeOK, InFlightBuffered, NEW i \in Instances, Down(i)
  PROVE  InFlightBuffered'
<1>1. \A p \in Publishers : pub'[p] = Idle \/ pub'[p] = pub[p]
  BY DEF Down
<1>2. \A j \in Instances : /\ wire'[j] = wire[j] \/ Len(wire'[j]) = 0
                           /\ relay'[j] = relay[j] \/ relay'[j] = Idle
  BY DEF Down, TypeOK
<1>3. buffer' = buffer /\ refused' = refused
  BY DEF Down, faultVars
<1> QED
  BY <1>1, <1>2, <1>3 DEF InFlightBuffered, Buffered, Idle

\* Every step of a publication keeps InFlightBuffered.
LEMMA PublisherInFlight ==
  ASSUME TypeOK, InFlightBuffered, NEW p \in Publishers, OfPublisher(p)
  PROVE  InFlightBuffered'
<1>0. pub \in [Publishers -> PubType] /\ relay \in [Instances -> RelayType]
  BY DEF TypeOK, PubType, RelayType
<1>1. CASE BufferEvent(p)
  <2>1. pub[p].step = "buffer" => \/ pub[p].event \in refused'
                                  \/ \E b \in buffer' : b.event = pub[p].event
    <3> DEFINE copy == [event |-> pub[p].event, score |-> Score(pub[p].event)]
    <3> SUFFICES ASSUME pub[p].step = "buffer"
                 PROVE  \/ pub[p].event \in refused'
                        \/ \E b \in buffer' : b.event = pub[p].event
      OBVIOUS
    <3>1. CASE copy \in buffer'
      <4>1. copy.event = pub[p].event
        OBVIOUS
      <4> QED
        BY <3>1, <4>1
    <3>2. CASE pub[p].event \in refused'
      BY <3>2
    <3> QED
      BY <1>1, <3>1, <3>2 DEF BufferEvent
  <2>2. pub'[p].step \in {"copy", "send"} => pub[p].step = "buffer" /\ pub'[p].event = pub[p].event
    <3>1. pub[p] \in [step : Steps, event : EventType, on : Instances, left : SUBSET Conns]
      BY <1>0, <1>1, IdleApart DEF BufferEvent, Steps
    <3>2. pub'[p] = AfterBuffer(p)
      BY <1>0, <1>1 DEF BufferEvent
    <3> QED
      BY <3>1, <3>2 DEF AfterBuffer, Idle
  <2>3. \A q \in Publishers \ {p} : pub'[q] = pub[q]
    BY <1>0, <1>1 DEF BufferEvent
  <2>4. buffer \subseteq buffer' /\ refused \subseteq refused' /\ wire' = wire /\ relay' = relay
    BY <1>1 DEF BufferEvent, faultVars
  <2>5. \A q \in Publishers : pub'[q].step \in {"copy", "send"}
                              => \/ pub'[q].event \in refused'
                                 \/ \E b \in buffer' : b.event = pub'[q].event
    BY <2>1, <2>2, <2>3, <2>4 DEF InFlightBuffered, Buffered
  <2>6. /\ \A i \in Instances : \A k \in 1..Len(wire[i]) :
             wire[i][k] \in refused' \/ \E b \in buffer' : b.event = wire[i][k]
        /\ \A i \in Instances : relay[i] # Idle =>
             relay[i].event \in refused' \/ \E b \in buffer' : b.event = relay[i].event
    BY <2>4 DEF InFlightBuffered, Buffered
  <2> QED
    BY <2>4, <2>5, <2>6 DEF InFlightBuffered, Buffered
<1>2. CASE CopySubscribers(p)
  BY <1>0, <1>2 DEF CopySubscribers, InFlightBuffered, Buffered, redisVars, faultVars
<1>3. ASSUME NEW c \in Conns, Send(p, c)
      PROVE  InFlightBuffered'
  BY <1>0, <1>3 DEF Send, InFlightBuffered, Buffered, redisVars, faultVars
<1>4. ASSUME NEW c \in Conns, SendPanics(p, c)
      PROVE  InFlightBuffered'
  <2>1. CASE p = "request"
    BY <1>0, <1>4, <2>1 DEF SendPanics, InFlightBuffered, Buffered, redisVars, faultVars, Idle
  <2>2. CASE p = "job"
    <3>1. pub[p].on \in Instances
      BY <1>0, <1>4, IdleApart DEF SendPanics, Steps
    <3> QED
      BY <1>4, <2>2, <3>1, DownInFlight DEF SendPanics
  <2> QED
    BY <2>1, <2>2 DEF Publishers
<1>5. CASE PublishToRedis(p)
  <2>1. pub[p] \in [step : Steps, event : EventType, on : Instances, left : SUBSET Conns]
    BY <1>0, <1>5, IdleApart DEF PublishToRedis, Steps
  <2>2. Buffered(pub[p].event)
    BY <1>5 DEF PublishToRedis, InFlightBuffered
  <2>3. ASSUME NEW i \in Instances, NEW k \in 1..Len(wire'[i])
        PROVE  Buffered(wire'[i][k])
    <3>1. wire'[i] \in {wire[i], Delivered(i, pub[p].event)} /\ wire[i] \in Seq(EventType)
      BY <1>5 DEF PublishToRedis, TypeOK
    <3>2. wire'[i][k] = pub[p].event \/ (k \in 1..Len(wire[i]) /\ wire'[i][k] = wire[i][k])
      BY <2>1, <2>3, <3>1 DEF Delivered
    <3> QED
      BY <2>2, <3>2 DEF InFlightBuffered
  <2>4. \A q \in Publishers : pub'[q] = pub[q] \/ pub'[q].step \notin {"copy", "send"}
    <3>1. AfterPublish(p, TRUE).step \notin {"copy", "send"}
      BY <2>1 DEF AfterPublish, Idle
    <3>2. AfterPublish(p, FALSE).step \notin {"copy", "send"}
      BY <2>1 DEF AfterPublish, Idle
    <3> QED
      BY <1>0, <1>5, <3>1, <3>2 DEF PublishToRedis
  <2>5. UNCHANGED <<buffer, refused, relay>>
    BY <1>5 DEF PublishToRedis
  <2> QED
    BY <2>3, <2>4, <2>5 DEF InFlightBuffered, Buffered
<1> QED
  BY <1>1, <1>2, <1>3, <1>4, <1>5 DEF OfPublisher

\* Every step of the loop of Start keeps InFlightBuffered.
LEMMA RelayInFlight ==
  ASSUME TypeOK, InFlightBuffered, NEW i \in Instances, OfRelay(i)
  PROVE  InFlightBuffered'
<1>0. relay \in [Instances -> RelayType]
  BY DEF TypeOK, RelayType
<1>1. CASE TakeMessage(i)
  <2>1. wire[i] \in Seq(EventType) /\ wire[i] # <<>>
    BY <1>1 DEF TakeMessage, TypeOK
  <2>2. Buffered(Head(wire[i]))
    BY <2>1 DEF InFlightBuffered
  <2>3. ASSUME NEW j \in Instances, NEW k \in 1..Len(wire'[j])
        PROVE  Buffered(wire'[j][k])
    <3>1. CASE j = i
      <4>1. wire'[j] = Tail(wire[i])
        BY <1>1, <3>1 DEF TakeMessage, TypeOK
      <4>2. k + 1 \in 1..Len(wire[i]) /\ wire'[j][k] = wire[i][k + 1]
        BY <2>1, <2>3, <4>1
      <4> QED
        BY <4>2 DEF InFlightBuffered, Buffered
    <3>2. CASE j # i
      BY <1>1, <2>3, <3>2 DEF TakeMessage, TypeOK, InFlightBuffered, Buffered
    <3> QED
      BY <3>1, <3>2
  <2>4. \A j \in Instances : relay'[j] # Idle => Buffered(relay'[j].event)
    BY <1>0, <1>1, <2>2 DEF TakeMessage, Relaying, InFlightBuffered
  <2>5. UNCHANGED <<buffer, refused, pub>>
    BY <1>1 DEF TakeMessage, faultVars
  <2> QED
    BY <2>3, <2>4, <2>5 DEF InFlightBuffered, Buffered
<1>2. ASSUME NEW c \in Conns, RelaySend(i, c)
      PROVE  InFlightBuffered'
  BY <1>0, <1>2 DEF RelaySend, Relaying, InFlightBuffered, Buffered, redisVars, faultVars
<1>3. ASSUME NEW c \in Conns, RelayPanics(i, c)
      PROVE  InFlightBuffered'
  BY <1>3, DownInFlight DEF RelayPanics
<1> QED
  BY <1>1, <1>2, <1>3 DEF OfRelay

\* Every step keeps InFlightBuffered.
LEMMA InFlightStep == TypeOK /\ InFlightBuffered /\ [Next]_vars => InFlightBuffered'
<1> SUFFICES ASSUME TypeOK, InFlightBuffered, [Next]_vars
             PROVE  InFlightBuffered'
  OBVIOUS
<1>1. ASSUME NEW p \in Publishers, NEW what \in Kinds, NEW i \in Instances, Issue(p, what, i)
      PROVE  InFlightBuffered'
  <2>1. pub'[p].step \notin {"copy", "send"}
    <3>1. FirstStep(what) \notin {"copy", "send"}
      BY DeliveryAssumption DEF FirstStep, Kinds
    <3>2. pub'[p].step = FirstStep(what)
      BY <1>1 DEF Issue, TypeOK, Idle
    <3> QED
      BY <3>1, <3>2
  <2>2. \A q \in Publishers \ {p} : pub'[q] = pub[q]
    BY <1>1 DEF Issue, TypeOK
  <2> QED
    BY <1>1, <2>1, <2>2 DEF Issue, InFlightBuffered, Buffered, faultVars
<1>2. ASSUME NEW p \in Publishers, OfPublisher(p)
      PROVE  InFlightBuffered'
  BY <1>2, PublisherInFlight
<1>3. ASSUME NEW i \in Instances, OfRelay(i)
      PROVE  InFlightBuffered'
  BY <1>3, RelayInFlight
<1>4. ASSUME NEW i \in Instances, Stop(i)
      PROVE  InFlightBuffered'
  BY <1>4, DownInFlight DEF Stop
<1>5. CASE Expire
  <2>1. \A p \in Publishers : pub[p] # Idle => pub[p].event \in refused
    BY <1>5 DEF Expire, InFlight
  <2>2. \A i \in Instances : relay[i] # Idle => relay[i].event \in refused
    BY <1>5 DEF Expire, InFlight
  <2>3. ASSUME NEW i \in Instances, NEW k \in 1..Len(wire[i])
        PROVE  wire[i][k] \in refused
    <3>1. k \in DOMAIN wire[i]
      BY <2>3 DEF TypeOK
    <3>2. wire[i][k] \in InFlight
      BY <3>1 DEF InFlight
    <3> QED
      BY <1>5, <3>2 DEF Expire
  <2>4. UNCHANGED <<refused, pub, relay, wire>>
    BY <1>5 DEF Expire, faultVars
  <2> QED
    BY <2>1, <2>2, <2>3, <2>4 DEF InFlightBuffered, Buffered, Idle
<1>6. CASE UNCHANGED <<buffer, refused, wire, relay, pub>>
  BY <1>6 DEF InFlightBuffered, Buffered
<1>7. \/ \E p \in Publishers, what \in Kinds, i \in Instances : Issue(p, what, i)
      \/ \E p \in Publishers : OfPublisher(p)
      \/ \E i \in Instances : OfRelay(i) \/ Stop(i)
      \/ Expire
      \/ UNCHANGED <<buffer, refused, wire, relay, pub>>
  BY DEF Next, vars, redisVars, faultVars, Heartbeat, MarkStale, NodeWaits, NodeTaken, Disconnect,
         Connect, OfHandler, Replay, Subscribe, Deliver, Unsubscribe
<1> QED
  BY <1>1, <1>2, <1>3, <1>4, <1>5, <1>6, <1>7

\* A step that makes a channel longer is a send of Publish or of Start.
LEMMA WhoSends ==
  ASSUME TypeOK, [Next]_vars, NEW c \in Conns, Len(queue'[c]) > Len(queue[c])
  PROVE  \/ \E p \in Publishers, d \in Conns : Send(p, d)
         \/ \E i \in Instances, d \in Conns : RelaySend(i, d)
<1>1. queue[c] \in Seq(EventType)
  BY DEF TypeOK
<1>2. queue'[c] # queue[c] /\ queue'[c] # <<>>
  BY <1>1
<1>3. ASSUME NEW i \in Instances
      PROVE  ~Down(i)
  BY <1>2 DEF Down
<1>4. ASSUME NEW d \in Conns
      PROVE  ~Deliver(d) /\ ~Unsubscribe(d)
  <2>1. ~Unsubscribe(d)
    BY <1>2 DEF Unsubscribe, TypeOK
  <2>2. ~Deliver(d)
    BY <1>1 DEF Deliver, TypeOK
  <2> QED
    BY <2>1, <2>2
<1>5. ASSUME NEW p \in Publishers, NEW d \in Conns
      PROVE  ~SendPanics(p, d)
  <2>1. pub[p].step = "send" => pub[p].on \in Instances
    BY IdleApart DEF TypeOK, PubType, Steps
  <2> QED
    BY <1>2, <1>3, <2>1 DEF SendPanics
<1>6. queue' # queue
  BY <1>2
<1> QED
  BY <1>3, <1>4, <1>5, <1>6
  DEF Next, vars, Heartbeat, MarkStale, NodeWaits, NodeTaken, Disconnect, Expire, Issue,
      OfPublisher, BufferEvent, CopySubscribers, PublishToRedis, OfRelay, TakeMessage,
      RelayPanics, Stop, Connect, OfHandler, Replay, Subscribe

\* What a client is sent is in the buffer when it is sent, unless Redis refused to
\* buffer it: the order of Publish, and what that order gives the other instances.
THEOREM SentFromBuffer == Spec => SentIsBuffered
<1>1. Init => TypeOK /\ InFlightBuffered
  BY TypeInit DEF Init, InFlightBuffered, Idle
<1>2. TypeOK /\ InFlightBuffered /\ [Next]_vars => (TypeOK /\ InFlightBuffered)'
  BY TypeStep, InFlightStep
<1>3. TypeOK /\ InFlightBuffered /\ [Next]_vars =>
        [\A c \in Conns : Len(queue'[c]) > Len(queue[c])
           => LET event == queue'[c][Len(queue'[c])]
              IN event \in refused \/ \E b \in buffer : b.event = event]_vars
  <2> SUFFICES ASSUME TypeOK, InFlightBuffered, [Next]_vars,
                      NEW c \in Conns, Len(queue'[c]) > Len(queue[c])
               PROVE  Buffered(queue'[c][Len(queue'[c])])
    BY DEF Buffered
  <2>1. ASSUME NEW event \in EventType, NEW d \in Conns, queue' = Sent(d, event)
        PROVE  queue'[c][Len(queue'[c])] = event
    BY <2>1 DEF Sent, TypeOK
  <2>2. ASSUME NEW p \in Publishers, NEW d \in Conns, Send(p, d)
        PROVE  Buffered(queue'[c][Len(queue'[c])])
    <3>1. pub[p].event \in EventType
      BY <2>2, IdleApart DEF Send, Steps, TypeOK, PubType
    <3> QED
      BY <2>1, <2>2, <3>1 DEF Send, InFlightBuffered
  <2>3. ASSUME NEW i \in Instances, NEW d \in Conns, RelaySend(i, d)
        PROVE  Buffered(queue'[c][Len(queue'[c])])
    <3>1. relay[i].event \in EventType
      BY <2>3, IdleApart DEF RelaySend, TypeOK, RelayType
    <3> QED
      BY <2>1, <2>3, <3>1 DEF RelaySend, InFlightBuffered
  <2> QED
    BY WhoSends, <2>2, <2>3
<1> QED
  BY <1>1, <1>2, <1>3, PTL DEF Spec, SentIsBuffered
=============================================================================
