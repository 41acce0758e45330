--------------------------- MODULE EventBusProofs ---------------------------
(***************************************************************************)
(* The event bus is correct for every number of publishers, subscribers    *)
(* and events, and for every capacity of the channel.                      *)
(***************************************************************************)
EXTENDS EventBus, TLAPS

-----------------------------------------------------------------------------
(* Sequences.                                                              *)

\* What a receiver's queue holds after a send: the event last, and before it
\* what it held, in the same order.
LEMMA PushElements ==
    ASSUME NEW q \in Seq(Events), NEW e \in Events, Len(q) <= Capacity
    PROVE  /\ Push(q, e) \in Seq(Events) /\ Len(Push(q, e)) <= Capacity
           /\ \A i \in DOMAIN Push(q, e) :
                 \/ Push(q, e)[i] = e
                 \/ \E j \in DOMAIN q : Push(q, e)[i] = q[j]
           /\ \A i, k \in DOMAIN Push(q, e) : i < k =>
                 \/ Push(q, e)[k] = e
                 \/ \E j, l \in DOMAIN q : /\ j < l /\ Push(q, e)[i] = q[j]
                                           /\ Push(q, e)[k] = q[l]
<1> USE BusAssumption
<1>1. CASE Len(q) < Capacity
  <2>1. Push(q, e) = Append(q, e)
    BY <1>1 DEF Push
  <2>2. QED
    BY <1>1, <2>1, SMTT(30)
<1>2. CASE ~(Len(q) < Capacity)
  <2>1. Push(q, e) = Append(Tail(q), e) /\ q # <<>>
    BY <1>2 DEF Push
  <2>2. Tail(q) \in Seq(Events) /\ Len(Tail(q)) = Len(q) - 1
    BY <2>1
  <2>3. \A i \in DOMAIN Tail(q) : Tail(q)[i] = q[i + 1] /\ i + 1 \in DOMAIN q
    BY <2>1
  <2>4. /\ Append(Tail(q), e) \in Seq(Events)
        /\ Len(Append(Tail(q), e)) = Len(q)
        /\ \A i \in DOMAIN Append(Tail(q), e) :
              Append(Tail(q), e)[i] = IF i = Len(q) THEN e ELSE q[i + 1]
    BY <2>1, <2>2, <2>3
  <2>5. DOMAIN Append(Tail(q), e) = 1..Len(q) /\ DOMAIN q = 1..Len(q)
    BY <2>4
  <2>6. \A i \in 1..Len(q) : i # Len(q) => i + 1 \in 1..Len(q)
    OBVIOUS
  <2>7. \A i, k \in 1..Len(q) : i < k /\ k # Len(q) => i # Len(q) /\ i + 1 < k + 1
    OBVIOUS
  <2>8. QED
    BY <1>2, <2>1, <2>4, <2>5, <2>6, <2>7, ZenonT(40)
<1>3. QED
  BY <1>1, <1>2

\* What is left in a queue after its first event was taken.
LEMMA TailElements ==
    ASSUME NEW E, NEW q \in Seq(E), q # <<>>
    PROVE  /\ Head(q) \in E /\ Head(q) = q[1] /\ 1 \in DOMAIN q
           /\ Tail(q) \in Seq(E) /\ Len(Tail(q)) <= Len(q)
           /\ \A i \in DOMAIN Tail(q) : /\ i + 1 \in DOMAIN q /\ 1 < i + 1
                                        /\ Tail(q)[i] = q[i + 1]
           /\ DOMAIN Tail(q) \subseteq Nat
OBVIOUS

-----------------------------------------------------------------------------
(* The inductive invariant.                                                *)

\* publish_gate excludes: who holds it is between minting and sending, and
\* nobody else is.  The event in flight carries the newest tick and the phase
\* of the last state event; it is the replayed one once it is stored.
Gated ==
    /\ \A p \in Publishers :
           /\ step[p] # "idle" <=> gate = p
           /\ gate = p => event[p].tick = tick /\ event[p].phase = truth
           /\ step[p] = "stored" => current = event[p]
    /\ current.tick <= tick
    /\ CurrentIsTruth

\* What subscriber s has received and what still waits for it are in order: the
\* replay is not older than what it saw, the channel not older than the replay.
Ordered(s) ==
    /\ last[s] = seen[s] /\ last[s] <= tick /\ resume[s] <= last[s]
    /\ sub[s] # "live" => last[s] = resume[s] /\ chan[s] = <<>>
    /\ replay[s] # <<>> =>
           /\ last[s] = resume[s]
           /\ last[s] <= replay[s][1].tick /\ replay[s][1].tick <= tick
           /\ \A i \in DOMAIN chan[s] : replay[s][1].tick <= chan[s][i].tick
    /\ \A i \in DOMAIN chan[s] :
           /\ chan[s][i].tick <= tick
           /\ chan[s][i].tick > resume[s] => last[s] <= chan[s][i].tick
    /\ \A i, k \in DOMAIN chan[s] : i < k => chan[s][i].tick <= chan[s][k].tick

BusInv == TypeOK /\ Gated /\ \A s \in Subscribers : Ordered(s)

-----------------------------------------------------------------------------
(* Types.                                                                  *)

\* The types, spelled out for each variable.
LEMMA TypeFacts ==
    TypeOK <=>
    /\ gate \in Publishers \cup {None} /\ tick \in 0..MaxTick
    /\ current \in Events /\ event \in [Publishers -> Events]
    /\ step \in [Publishers -> {"idle", "minted", "stored"}]
    /\ sub \in [Subscribers -> {"closed", "reading", "live"}]
    /\ resume \in [Subscribers -> 0..MaxTick] /\ seen \in [Subscribers -> 0..MaxTick]
    /\ last \in [Subscribers -> 0..MaxTick] /\ newest \in [Subscribers -> 0..MaxTick]
    /\ view \in [Subscribers -> Phases] /\ truth \in Phases
    /\ replay \in [Subscribers -> Seq(Events)] /\ chan \in [Subscribers -> Seq(Events)]
    /\ \A s \in Subscribers : Len(replay[s]) <= 1 /\ Len(chan[s]) <= Capacity
BY DEF TypeOK

\* What an event is made of.
LEMMA EventFacts == \A e \in Events : e.tick \in 0..MaxTick /\ e.phase \in Phases
BY DEF Events

\* Minting keeps the types of what it writes.
LEMMA MintTypes ==
    ASSUME TypeOK, NEW p \in Publishers, NEW phase \in Phases, Mint(p, phase)
    PROVE  /\ gate' \in Publishers \cup {None} /\ tick' \in 0..MaxTick
           /\ event' \in [Publishers -> Events]
           /\ step' \in [Publishers -> {"idle", "minted", "stored"}]
<1>1. tick' \in 0..MaxTick
  BY BusAssumption DEF Mint, TypeOK
<1>2. [tick |-> tick + 1, phase |-> phase] \in Events
  BY <1>1 DEF Mint, Events
<1>3. QED
  BY <1>1, <1>2 DEF Mint, TypeOK

\* Receiving an event keeps the types of what it writes.
LEMMA ReceiveTypes ==
    ASSUME TypeOK, NEW s \in Subscribers, NEW e \in Events, Receive(s, e)
    PROVE  /\ seen' \in [Subscribers -> 0..MaxTick] /\ last' \in [Subscribers -> 0..MaxTick]
           /\ view' \in [Subscribers -> Phases]
BY TypeFacts, EventFacts DEF Receive

\* Setting or dropping a replay keeps its type.
LEMMA ReplayTypes ==
    ASSUME TypeOK, NEW s \in Subscribers, NEW q \in Seq(Events), Len(q) <= 1,
           replay' = [replay EXCEPT ![s] = q]
    PROVE  /\ replay' \in [Subscribers -> Seq(Events)]
           /\ \A d \in Subscribers : Len(replay'[d]) <= 1
<1>1. /\ replay \in [Subscribers -> Seq(Events)]
      /\ \A d \in Subscribers : Len(replay[d]) <= 1
  BY TypeFacts
<1>2. QED
  BY <1>1

\* Every action keeps the types of the variables.
LEMMA TypeStep == ASSUME TypeOK, [Next]_vars PROVE TypeOK'
<1> USE BusAssumption DEF busVars, subVars
<1>1. ASSUME NEW p \in Publishers, NEW phase \in Phases, Publish(p, phase) PROVE TypeOK'
  <2>1. Mint(p, phase)
    BY <1>1 DEF Publish
  <2>2. QED
    BY <1>1, <2>1, MintTypes DEF TypeOK, Publish
<1>2. ASSUME NEW p \in Publishers, PublishStats(p) PROVE TypeOK'
  <2>1. Mint(p, current.phase) /\ current.phase \in Phases
    BY <1>2, EventFacts DEF PublishStats, TypeOK
  <2>2. QED
    BY <1>2, <2>1, MintTypes DEF TypeOK, PublishStats
<1>3. ASSUME NEW p \in Publishers, Store(p) PROVE TypeOK'
  BY <1>3 DEF TypeOK, Store
<1>4. ASSUME NEW p \in Publishers, Send(p) PROVE TypeOK'
  <2>1. /\ event[p] \in Events /\ event[p].tick \in 0..MaxTick
        /\ chan \in [Subscribers -> Seq(Events)]
        /\ newest \in [Subscribers -> 0..MaxTick]
        /\ \A s \in Subscribers : Len(chan[s]) <= Capacity
    BY TypeFacts, EventFacts
  <2>2. \A s \in Subscribers : /\ Push(chan[s], event[p]) \in Seq(Events)
                               /\ Len(Push(chan[s], event[p])) <= Capacity
    BY <2>1, PushElements
  <2>3. /\ chan' \in [Subscribers -> Seq(Events)]
        /\ \A s \in Subscribers : Len(chan'[s]) <= Capacity
    BY <1>4, <2>1, <2>2 DEF Send
  <2>4. newest' \in [Subscribers -> 0..MaxTick]
    BY <1>4, <2>1 DEF Send
  <2>5. QED
    BY <1>4, <2>3, <2>4 DEF TypeOK, Send
<1>5. ASSUME NEW s \in Subscribers, SubscribeRead(s) PROVE TypeOK'
  <2>1. /\ replay' \in [Subscribers -> Seq(Events)]
        /\ \A d \in Subscribers : Len(replay'[d]) <= 1
    <3>1. <<current>> \in Seq(Events) /\ Len(<<current>>) <= 1
      BY TypeFacts
    <3>2. <<>> \in Seq(Events) /\ Len(<<>>) <= 1
      OBVIOUS
    <3>3. PICK q : replay' = [replay EXCEPT ![s] = q] /\ (q = <<current>> \/ q = <<>>)
      BY <1>5, Zenon DEF SubscribeRead
    <3>4. q \in Seq(Events) /\ Len(q) <= 1
      BY <3>1, <3>2, <3>3, Zenon
    <3>5. QED
      BY <3>3, <3>4, ReplayTypes, Zenon
  <2>2. sub' \in [Subscribers -> {"closed", "reading", "live"}]
    BY <1>5, TypeFacts DEF SubscribeRead
  <2>3. QED
    BY <1>5, <2>1, <2>2 DEF TypeOK, SubscribeRead
<1>6. ASSUME NEW s \in Subscribers, SubscribeJoin(s) PROVE TypeOK'
  BY <1>6 DEF TypeOK, SubscribeJoin
<1>7. ASSUME NEW s \in Subscribers, Deliver(s) PROVE TypeOK'
  <2>1. /\ replay[s] \in Seq(Events) /\ chan[s] \in Seq(Events)
    BY TypeFacts
  <2>2. CASE /\ replay[s] # <<>>
             /\ Receive(s, Head(replay[s]))
             /\ replay' = [replay EXCEPT ![s] = <<>>]
             /\ UNCHANGED chan
    <3>1. Head(replay[s]) \in Events
      BY <2>1, <2>2, TailElements
    <3>2. /\ seen' \in [Subscribers -> 0..MaxTick] /\ last' \in [Subscribers -> 0..MaxTick]
          /\ view' \in [Subscribers -> Phases]
      BY <2>2, <3>1, ReceiveTypes
    <3>3. <<>> \in Seq(Events) /\ Len(<<>>) <= 1
      OBVIOUS
    <3>4. /\ replay' \in [Subscribers -> Seq(Events)]
          /\ \A d \in Subscribers : Len(replay'[d]) <= 1
      BY <2>2, <3>3, ReplayTypes, Zenon
    <3>5. QED
      BY <1>7, <2>2, <3>2, <3>4 DEF TypeOK, Deliver
  <2>3. CASE /\ replay[s] = <<>> /\ chan[s] # <<>>
             /\ IF Head(chan[s]).tick > resume[s]
                THEN Receive(s, Head(chan[s]))
                ELSE UNCHANGED <<seen, last, view>>
             /\ chan' = [chan EXCEPT ![s] = Tail(@)]
             /\ UNCHANGED replay
    <3>1. Head(chan[s]) \in Events /\ Tail(chan[s]) \in Seq(Events)
      BY <2>1, <2>3, TailElements
    <3>2. /\ seen' \in [Subscribers -> 0..MaxTick] /\ last' \in [Subscribers -> 0..MaxTick]
          /\ view' \in [Subscribers -> Phases]
      BY <2>3, <3>1, ReceiveTypes, TypeFacts, Zenon
    <3>3. Len(Tail(chan[s])) <= Capacity
      BY <2>1, <2>3, TailElements, TypeFacts
    <3>4. /\ chan' \in [Subscribers -> Seq(Events)]
          /\ \A d \in Subscribers : Len(chan'[d]) <= Capacity
      BY <2>3, <3>1, <3>3, TypeFacts
    <3>5. /\ UNCHANGED <<gate, tick, current, event, step, sub, resume, newest, truth>>
          /\ replay' = replay
      BY <1>7, <2>3 DEF Deliver
    <3>6. QED
      BY <3>2, <3>4, <3>5, SMTT(30) DEF TypeOK
  <2>4. QED
    BY <1>7, <2>2, <2>3 DEF Deliver
<1>8. ASSUME NEW s \in Subscribers, StreamBreaks(s) PROVE TypeOK'
  BY <1>8, SMTT(20) DEF TypeOK, StreamBreaks
<1>9. ASSUME UNCHANGED vars PROVE TypeOK'
  BY <1>9 DEF TypeOK, vars
<1>10. QED
  BY <1>1, <1>2, <1>3, <1>4, <1>5, <1>6, <1>7, <1>8, <1>9
     DEF Next, PublisherStep, SubscriberStep, Quiet

-----------------------------------------------------------------------------
(* Publication under the gate.                                             *)

\* An event that is minted while nobody holds the gate is the newest one.
LEMMA MintGated ==
    ASSUME TypeOK, Gated, NEW p \in Publishers, NEW phase \in Phases, gate = None,
           Mint(p, phase), truth' = phase, current' = current
    PROVE  Gated'
<1> USE BusAssumption
<1>1. /\ tick \in Nat /\ current.tick <= tick /\ current.tick \in Nat
      /\ \A q \in Publishers : step[q] = "idle"
  BY EventFacts DEF Gated, TypeOK
<1>2. /\ tick' = tick + 1 /\ gate' = p
      /\ event'[p].tick = tick + 1 /\ event'[p].phase = phase
      /\ \A q \in Publishers : step'[q] = IF q = p THEN "minted" ELSE "idle"
  BY <1>1 DEF Mint, TypeOK
<1>3. QED
  BY <1>1, <1>2 DEF Gated, CurrentIsTruth

\* Every action keeps the gate's invariant.
LEMMA GatedStep == ASSUME TypeOK, Gated, [Next]_vars PROVE Gated'
<1> USE BusAssumption DEF busVars, subVars
<1>1. ASSUME UNCHANGED busVars PROVE Gated'
  BY <1>1 DEF Gated, CurrentIsTruth
<1>2. ASSUME NEW p \in Publishers, NEW phase \in Phases, Publish(p, phase) PROVE Gated'
  BY <1>2, MintGated DEF Publish
<1>3. ASSUME NEW p \in Publishers, PublishStats(p) PROVE Gated'
  <2>1. current.phase \in Phases /\ truth' = current.phase
    BY <1>3, EventFacts DEF PublishStats, TypeOK, Gated, CurrentIsTruth
  <2>2. QED
    BY <1>3, <2>1, MintGated DEF PublishStats
<1>4. ASSUME NEW p \in Publishers, Store(p) PROVE Gated'
  <2>1. gate = p /\ event[p].tick = tick /\ gate' = gate /\ tick' = tick
        /\ event' = event /\ current' = event[p] /\ truth' = truth
    BY <1>4 DEF Store, Gated
  <2>2. \A q \in Publishers : step'[q] = IF q = p THEN "stored" ELSE step[q]
    BY <1>4 DEF Store, TypeOK
  <2>3. tick <= tick
    BY DEF TypeOK
  <2>4. QED
    BY <2>1, <2>2, <2>3 DEF Gated, CurrentIsTruth
<1>5. ASSUME NEW p \in Publishers, Send(p) PROVE Gated'
  <2>1. /\ gate = p /\ current = event[p] /\ current.tick = tick /\ current.phase = truth
        /\ gate' = None /\ UNCHANGED <<tick, current, event, truth>>
    BY <1>5 DEF Send, Gated
  <2>2. \A q \in Publishers : step'[q] = IF q = p THEN "idle" ELSE step[q]
    BY <1>5 DEF Send, TypeOK
  <2>3. \A q \in Publishers : step'[q] = "idle"
    BY <2>1, <2>2 DEF Gated
  <2>4. QED
    BY <2>1, <2>3 DEF Gated, CurrentIsTruth
<1>6. QED
  BY <1>1, <1>2, <1>3, <1>4, <1>5
     DEF Next, PublisherStep, SubscriberStep, SubscribeRead, SubscribeJoin, Deliver,
         StreamBreaks, Quiet, vars

-----------------------------------------------------------------------------
(* Delivery in order.                                                      *)

\* Events have natural ticks, wherever they wait.
LEMMA WaitingTicks ==
    ASSUME TypeOK, NEW s \in Subscribers
    PROVE  /\ tick \in Nat /\ last[s] \in Nat /\ seen[s] \in Nat /\ resume[s] \in Nat
           /\ \A i \in DOMAIN chan[s] : chan[s][i].tick \in Nat
           /\ replay[s] # <<>> => replay[s][1].tick \in Nat
<1>1. chan[s] \in Seq(Events) /\ replay[s] \in Seq(Events)
  BY TypeFacts
<1>2. \A i \in DOMAIN chan[s] : chan[s][i] \in Events
  BY <1>1
<1>3. replay[s] # <<>> => replay[s][1] \in Events
  BY <1>1
<1>4. QED
  BY <1>2, <1>3, TypeFacts, EventFacts, SMTT(30)

\* A step that leaves a subscriber and its queue alone keeps its order.
LEMMA OrderedFrame ==
    ASSUME TypeOK, NEW s \in Subscribers, Ordered(s), tick' \in Nat, tick <= tick',
           UNCHANGED <<last[s], seen[s], resume[s], sub[s], replay[s], chan[s]>>
    PROVE  Ordered(s)'
<1>1. Ordered(s)' <=>
      /\ last[s] = seen[s] /\ last[s] <= tick' /\ resume[s] <= last[s]
      /\ sub[s] # "live" => last[s] = resume[s] /\ chan[s] = <<>>
      /\ replay[s] # <<>> =>
             /\ last[s] = resume[s]
             /\ last[s] <= replay[s][1].tick /\ replay[s][1].tick <= tick'
             /\ \A i \in DOMAIN chan[s] : replay[s][1].tick <= chan[s][i].tick
      /\ \A i \in DOMAIN chan[s] :
             /\ chan[s][i].tick <= tick'
             /\ chan[s][i].tick > resume[s] => last[s] <= chan[s][i].tick
      /\ \A i, k \in DOMAIN chan[s] : i < k => chan[s][i].tick <= chan[s][k].tick
  BY DEF Ordered
<1>2. QED
  BY <1>1, WaitingTicks, SMTT(20) DEF Ordered

\* Sending the event in flight keeps every queue in order.
LEMMA SendOrdered ==
    ASSUME TypeOK, Gated, NEW s \in Subscribers, Ordered(s),
           NEW p \in Publishers, Send(p)
    PROVE  Ordered(s)'
<1> DEFINE e == event[p]
           q == Push(chan[s], e)
<1>1. /\ e \in Events /\ e.tick = tick /\ chan[s] \in Seq(Events) /\ Len(chan[s]) <= Capacity
  BY TypeFacts DEF Send, Gated
<1>2. UNCHANGED <<last[s], seen[s], resume[s], sub[s], replay[s], tick>>
  BY DEF Send, subVars
<1>3. CASE sub[s] # "live"
  <2>1. chan'[s] = chan[s]
    BY <1>3 DEF Send
  <2>2. QED
    BY <1>2, <2>1, OrderedFrame, WaitingTicks
<1>4. CASE sub[s] = "live"
  <2>1. chan'[s] = q
    BY <1>4, SMTT(30) DEF Send
  <2>2. /\ \A i \in DOMAIN q : q[i] = e \/ \E j \in DOMAIN chan[s] : q[i] = chan[s][j]
        /\ \A i, k \in DOMAIN q : i < k =>
              \/ q[k] = e
              \/ \E j, l \in DOMAIN chan[s] : j < l /\ q[i] = chan[s][j] /\ q[k] = chan[s][l]
    <3>1. \A i \in DOMAIN q : q[i] = e \/ \E j \in DOMAIN chan[s] : q[i] = chan[s][j]
      BY <1>1, PushElements
    <3>2. \A i, k \in DOMAIN q : i < k =>
              \/ q[k] = e
              \/ \E j, l \in DOMAIN chan[s] : /\ j < l /\ q[i] = chan[s][j]
                                              /\ q[k] = chan[s][l]
      BY <1>1, PushElements, Zenon
    <3>3. QED
      BY <3>1, <3>2
  <2> HIDE DEF q, e
  <2>3. \A i \in DOMAIN q : q[i].tick \in Nat /\ q[i].tick <= tick
    BY <1>1, <2>2, WaitingTicks DEF Ordered
  <2>4. \A i, k \in DOMAIN q : i < k => q[i].tick <= q[k].tick
    <3>1. SUFFICES ASSUME NEW i \in DOMAIN q, NEW k \in DOMAIN q, i < k
                   PROVE  q[i].tick <= q[k].tick
      OBVIOUS
    <3>2. CASE q[k] = e
      BY <1>1, <2>3, <3>2
    <3>3. CASE \E j, l \in DOMAIN chan[s] : j < l /\ q[i] = chan[s][j] /\ q[k] = chan[s][l]
      BY <3>3 DEF Ordered
    <3>4. QED
      BY <2>2, <3>1, <3>2, <3>3
  <2>5. \A i \in DOMAIN q : q[i].tick > resume[s] => last[s] <= q[i].tick
    BY <1>1, <2>2, SMTT(30) DEF Ordered
  <2>6. replay[s] # <<>> => \A i \in DOMAIN q : replay[s][1].tick <= q[i].tick
    BY <1>1, <2>2 DEF Ordered
  <2>7. QED
    BY <1>2, <1>4, <2>1, <2>3, <2>4, <2>5, <2>6 DEF Ordered
<1>5. QED
  BY <1>3, <1>4

\* Opening, joining and losing a stream keep the order.
LEMMA StreamOrdered ==
    ASSUME TypeOK, Gated, NEW s \in Subscribers, Ordered(s),
           SubscribeRead(s) \/ SubscribeJoin(s) \/ StreamBreaks(s)
    PROVE  Ordered(s)'
<1> USE DEF busVars
<1>0. /\ tick \in Nat /\ last[s] \in Nat /\ seen[s] \in Nat /\ resume[s] \in Nat
      /\ current.tick \in Nat /\ current.tick <= tick
  BY WaitingTicks, EventFacts, SMTT(20) DEF Gated, TypeOK
<1>1. CASE SubscribeRead(s)
  <2>1. /\ UNCHANGED <<last[s], seen[s], resume[s], chan[s], tick>>
        /\ chan[s] = <<>> /\ last[s] = resume[s] /\ sub'[s] = "reading"
    BY <1>1 DEF SubscribeRead, Ordered, TypeOK
  <2>2. replay'[s] = IF current.tick > 0 /\ (resume[s] = 0 \/ current.tick > resume[s])
                     THEN <<current>> ELSE <<>>
    BY <1>1, TypeFacts, SMTT(30) DEF SubscribeRead
  <2>3. replay'[s] # <<>> => /\ replay'[s][1].tick = current.tick
                             /\ last[s] <= current.tick
    BY <1>0, <2>1, <2>2
  <2>4. DOMAIN chan'[s] = {}
    BY <2>1, SMTT(30)
  <2>5. QED
    BY <1>0, <2>1, <2>3, <2>4 DEF Ordered
<1>2. CASE SubscribeJoin(s)
  <2>1. /\ UNCHANGED <<last[s], seen[s], resume[s], chan[s], replay[s], tick>>
        /\ sub'[s] = "live"
    BY <1>2 DEF SubscribeJoin, TypeOK
  <2>2. QED
    BY <2>1 DEF Ordered
<1>3. CASE StreamBreaks(s)
  <2>1. /\ UNCHANGED <<last[s], seen[s], tick>>
        /\ resume'[s] = seen[s] /\ chan'[s] = <<>> /\ replay'[s] = <<>>
    BY <1>3, TypeFacts DEF StreamBreaks
  <2>2. QED
    BY <1>0, <2>1 DEF Ordered
<1>4. QED
  BY <1>1, <1>2, <1>3

\* The replay is delivered before the channel, and the channel from its head.
LEMMA DeliverOrdered ==
    ASSUME TypeOK, NEW s \in Subscribers, Ordered(s), Deliver(s)
    PROVE  Ordered(s)' /\ last'[s] >= last[s]
<1>0. /\ tick \in Nat /\ last[s] \in Nat /\ seen[s] \in Nat /\ resume[s] \in Nat
      /\ \A i \in DOMAIN chan[s] : chan[s][i].tick \in Nat
      /\ replay[s] # <<>> => replay[s][1].tick \in Nat
  BY WaitingTicks
<1>1. /\ replay[s] \in Seq(Events) /\ chan[s] \in Seq(Events)
      /\ UNCHANGED <<resume[s], sub[s], tick>> /\ sub[s] = "live"
  BY TypeFacts DEF Deliver, busVars
<1>2. ASSUME NEW e, Receive(s, e), e.tick \in Nat, last[s] <= e.tick
      PROVE  last'[s] = e.tick /\ seen'[s] = e.tick
  BY <1>0, <1>2, TypeFacts, SMTT(30) DEF Receive, Ordered
<1>3. CASE /\ replay[s] # <<>>
           /\ Receive(s, Head(replay[s]))
           /\ replay' = [replay EXCEPT ![s] = <<>>]
           /\ UNCHANGED chan
  <2>1. Head(replay[s]) = replay[s][1]
    BY <1>1, <1>3, TailElements
  <2>2. last'[s] = replay[s][1].tick /\ seen'[s] = replay[s][1].tick
    BY <1>0, <1>2, <1>3, <2>1 DEF Ordered
  <2>3. replay'[s] = <<>> /\ chan'[s] = chan[s]
    BY <1>3, TypeFacts
  <2>4. QED
    BY <1>0, <1>1, <1>3, <2>2, <2>3, SMTT(30) DEF Ordered
<1>4. CASE /\ replay[s] = <<>> /\ chan[s] # <<>>
           /\ IF Head(chan[s]).tick > resume[s]
              THEN Receive(s, Head(chan[s]))
              ELSE UNCHANGED <<seen, last, view>>
           /\ chan' = [chan EXCEPT ![s] = Tail(@)]
           /\ UNCHANGED replay
  <2> DEFINE q == Tail(chan[s])
  <2>1. /\ Head(chan[s]) = chan[s][1] /\ 1 \in DOMAIN chan[s]
        /\ \A i \in DOMAIN q : /\ i + 1 \in DOMAIN chan[s] /\ 1 < i + 1
                               /\ q[i] = chan[s][i + 1]
        /\ DOMAIN q \subseteq Nat
    BY <1>1, <1>4, TailElements
  <2>2. chan'[s] = q /\ replay'[s] = <<>>
    BY <1>4, TypeFacts
  <2> HIDE DEF q
  <2>3. \A i, k \in DOMAIN q : i < k => i + 1 < k + 1
    BY <2>1
  <2>4. /\ \A i \in DOMAIN q : q[i].tick \in Nat /\ q[i].tick <= tick
        /\ \A i \in DOMAIN q : chan[s][1].tick <= q[i].tick
        /\ \A i \in DOMAIN q : q[i].tick > resume[s] => last[s] <= q[i].tick
        /\ \A i, k \in DOMAIN q : i < k => q[i].tick <= q[k].tick
    BY <1>0, <2>1, <2>3 DEF Ordered
  <2>5. CASE Head(chan[s]).tick > resume[s]
    <3>1. last'[s] = chan[s][1].tick /\ seen'[s] = chan[s][1].tick
      BY <1>0, <1>2, <1>4, <2>1, <2>5, SMTT(30) DEF Ordered
    <3>2. last[s] <= chan[s][1].tick /\ chan[s][1].tick <= tick
      BY <2>1, <2>5 DEF Ordered
    <3>3. QED
      BY <1>0, <1>1, <2>1, <2>2, <2>4, <3>1, <3>2, SMTT(30) DEF Ordered
  <2>6. CASE ~(Head(chan[s]).tick > resume[s])
    <3>1. last'[s] = last[s] /\ seen'[s] = seen[s]
      BY <1>4, <2>6, SMTT(30)
    <3>2. QED
      BY <1>0, <1>1, <2>2, <2>4, <3>1 DEF Ordered
  <2>7. QED
    BY <2>5, <2>6
<1>5. QED
  BY <1>3, <1>4 DEF Deliver

\* One step of anyone keeps every subscriber in order and delivers nothing old.
LEMMA OrderedStep ==
    ASSUME TypeOK, Gated, NEW s \in Subscribers, Ordered(s), [Next]_vars
    PROVE  Ordered(s)' /\ last'[s] >= last[s]
<1> USE DEF busVars, subVars
<1>0. last[s] \in Nat /\ tick \in Nat /\ tick' \in Nat
  BY TypeStep, WaitingTicks, SMTT(20) DEF TypeOK
<1>1. ASSUME tick <= tick',
             UNCHANGED <<last[s], seen[s], resume[s], sub[s], replay[s], chan[s]>>
      PROVE  Ordered(s)' /\ last'[s] >= last[s]
  BY <1>0, <1>1, OrderedFrame, SMTT(20)
<1>2. ASSUME NEW p \in Publishers,
             (\E phase \in Phases : Publish(p, phase)) \/ PublishStats(p) \/ Store(p)
      PROVE  Ordered(s)' /\ last'[s] >= last[s]
  <2>1. tick <= tick'
    BY <1>0, <1>2 DEF Publish, PublishStats, Mint, Store
  <2>2. UNCHANGED <<last, seen, resume, sub, replay, chan>>
    BY <1>2 DEF Publish, PublishStats, Store
  <2>3. QED
    BY <1>1, <2>1, <2>2
<1>3. ASSUME NEW p \in Publishers, Send(p) PROVE Ordered(s)' /\ last'[s] >= last[s]
  <2>1. last'[s] = last[s]
    BY <1>3 DEF Send
  <2>2. QED
    BY <1>0, <1>3, <2>1, SendOrdered
<1>4. ASSUME SubscribeRead(s) \/ SubscribeJoin(s) \/ StreamBreaks(s)
      PROVE  Ordered(s)' /\ last'[s] >= last[s]
  <2>1. last'[s] = last[s]
    BY <1>4 DEF SubscribeRead, SubscribeJoin, StreamBreaks
  <2>2. QED
    BY <1>0, <1>4, <2>1, StreamOrdered
<1>5. ASSUME NEW d \in Subscribers, d # s, SubscriberStep(d) \/ StreamBreaks(d)
      PROVE  Ordered(s)' /\ last'[s] >= last[s]
  <2>1. tick' = tick
    BY <1>5 DEF SubscriberStep, SubscribeRead, SubscribeJoin, Deliver, StreamBreaks
  <2>2. UNCHANGED <<last[s], seen[s]>>
    BY <1>5, TypeFacts
       DEF SubscriberStep, SubscribeRead, SubscribeJoin, Deliver, StreamBreaks, Receive
  <2>3. UNCHANGED <<resume[s], sub[s], replay[s], chan[s]>>
    BY <1>5, TypeFacts, SMTT(30)
       DEF SubscriberStep, SubscribeRead, SubscribeJoin, Deliver, StreamBreaks
  <2>4. QED
    BY <1>0, <1>1, <2>1, <2>2, <2>3
<1>6. ASSUME UNCHANGED vars PROVE Ordered(s)' /\ last'[s] >= last[s]
  BY <1>0, <1>1, <1>6, SMTT(20) DEF vars
<1>7. QED
  BY <1>2, <1>3, <1>4, <1>5, <1>6, DeliverOrdered
     DEF Next, PublisherStep, SubscriberStep, Quiet

-----------------------------------------------------------------------------
(* The theorems.                                                           *)

\* The invariant holds in every reachable state.
LEMMA BusInvariant == Spec => []BusInv
<1>1. ASSUME Init PROVE BusInv
  <2>1. TypeOK
    BY <1>1, BusAssumption DEF Init, TypeOK, NoTick, Events, Phases
  <2>2. Gated
    BY <1>1, BusAssumption DEF Init, Gated, CurrentIsTruth, NoTick
  <2>3. \A s \in Subscribers : Ordered(s)
    BY <1>1 DEF Init, Ordered
  <2>4. QED
    BY <2>1, <2>2, <2>3 DEF BusInv
<1>2. ASSUME BusInv, [Next]_vars PROVE BusInv'
  <2>1. TypeOK' /\ Gated'
    BY <1>2, TypeStep, GatedStep DEF BusInv
  <2>2. ASSUME NEW s \in Subscribers PROVE Ordered(s)'
    BY <1>2, <2>2, OrderedStep DEF BusInv
  <2>3. QED
    BY <2>1, <2>2 DEF BusInv
<1>3. QED
  BY <1>1, <1>2, PTL DEF Spec

\* EventBus::publish_stats never revives a phase that has ended: between two
\* publications the stored event is the newest and shows the last state.
THEOREM StoredIsTruth == Spec => []CurrentIsTruth
<1>1. BusInv => CurrentIsTruth
  BY DEF BusInv, Gated
<1>2. QED
  BY <1>1, BusInvariant, PTL

\* A subscription loop never goes back in time, though subscribe reads the
\* stored event and joins the channel without publish_gate.
THEOREM DeliveredInOrder == Spec => InOrder
<1>1. ASSUME BusInv, [Next]_vars
      PROVE  [\A s \in Subscribers : last'[s] >= last[s]]_vars
  <2>1. \A s \in Subscribers : last'[s] >= last[s]
    BY <1>1, OrderedStep DEF BusInv
  <2>2. QED
    BY <2>1
<1>2. QED
  BY <1>1, BusInvariant, PTL DEF Spec, InOrder

=============================================================================
