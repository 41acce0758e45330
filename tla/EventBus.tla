------------------------------- MODULE EventBus -------------------------------
(***************************************************************************)
(* The core's event bus (exv-vpn-host, event_bus.rs) and the UI's          *)
(* subscription loop (kernel/events.rs), which both platforms share: state *)
(* events and the statistics that repeat a Connected state get ticks from  *)
(* one counter, the newest event is replayed to a new subscriber, and a    *)
(* subscriber that falls behind loses the oldest events.  The companion    *)
(* data of a snapshot is left out.                                         *)
(***************************************************************************)
EXTENDS Naturals, Sequences

CONSTANTS Publishers,    \* threads that publish (status and statistics forwarders)
          Subscribers,   \* UI subscription loops
          Capacity,      \* of the broadcast channel (64 in the code)
          MaxTick,       \* bound on the number of events
          None

ASSUME BusAssumption == Capacity \in Nat \ {0} /\ MaxTick \in Nat /\ None \notin Publishers

Phases == {"idle", "connected"}
NoTick == [tick |-> 0, phase |-> "idle"]

VARIABLES
    gate,     \* holder of publish_gate
    tick,     \* newest minted tick
    current,  \* newest event, for replays
    event,    \* event[p]: the event publisher p is publishing
    step,     \* step[p]: how far publisher p is
    sub,      \* state of the loop of subscriber s
    resume,   \* resume_tick of its stream
    replay,   \* the replayed event its stream starts with, if any
    chan,     \* its receiver on the broadcast channel
    seen,     \* largest tick it has received
    view,     \* the phase it shows
    last,     \* tick of the event it received last (history)
    newest,   \* newest tick sent while it was on the channel (history)
    truth     \* phase of the last state event (history)

busVars == <<gate, tick, current, event, step, truth>>
subVars == <<sub, resume, replay, seen, view, last>>
vars == <<busVars, subVars, chan, newest>>

Events == [tick : 0..MaxTick, phase : Phases]

TypeOK ==
    /\ gate \in Publishers \cup {None}
    /\ tick \in 0..MaxTick
    /\ current \in Events
    /\ event \in [Publishers -> Events]
    /\ step \in [Publishers -> {"idle", "minted", "stored"}]
    /\ sub \in [Subscribers -> {"closed", "reading", "live"}]
    /\ \A f \in {resume, seen, last, newest} : f \in [Subscribers -> 0..MaxTick]
    /\ view \in [Subscribers -> Phases] /\ truth \in Phases
    /\ \A q \in {replay, chan} : q \in [Subscribers -> Seq(Events)]
    /\ \A s \in Subscribers : Len(replay[s]) <= 1 /\ Len(chan[s]) <= Capacity

Init ==
    /\ gate = None /\ tick = 0 /\ current = NoTick
    /\ event = [p \in Publishers |-> NoTick]
    /\ step = [p \in Publishers |-> "idle"]
    /\ sub = [s \in Subscribers |-> "closed"]
    /\ resume = [s \in Subscribers |-> 0] /\ seen = resume /\ last = resume
    /\ newest = resume
    /\ replay = [s \in Subscribers |-> <<>>] /\ chan = replay
    /\ view = [s \in Subscribers |-> "idle"] /\ truth = "idle"

-----------------------------------------------------------------------------
(* publish and publish_stats, under publish_gate.                          *)

Mint(p, phase) ==
    /\ tick < MaxTick
    /\ tick' = tick + 1
    /\ event' = [event EXCEPT ![p] = [tick |-> tick + 1, phase |-> phase]]
    /\ step' = [step EXCEPT ![p] = "minted"]
    /\ gate' = p

\* publish_composing: take the gate, mint the tick, compose the snapshot ...
Publish(p, phase) ==
    /\ step[p] = "idle"
    /\ gate = None
    /\ Mint(p, phase)
    /\ truth' = phase
    /\ UNCHANGED <<current, subVars, chan, newest>>

\* Mutant: publish_stats does not take the gate.
PublishStatsUngated(p) ==
    /\ step[p] = "idle"
    /\ current.tick > 0 /\ current.phase = "connected"
    /\ Mint(p, current.phase)
    /\ UNCHANGED <<current, truth, subVars, chan, newest>>

\* publish_stats: take the gate; a connected snapshot is published again with
\* the sample, under a new tick.  In any other phase nothing is published.
PublishStats(p) ==
    /\ step[p] = "idle"
    /\ gate = None
    /\ current.tick > 0 /\ current.phase = "connected"
    /\ Mint(p, current.phase)
    /\ UNCHANGED <<current, truth, subVars, chan, newest>>

\* ... then store it for replays ...
Store(p) ==
    /\ step[p] = "minted"
    /\ current' = event[p]
    /\ step' = [step EXCEPT ![p] = "stored"]
    /\ UNCHANGED <<gate, tick, event, truth, subVars, chan, newest>>

\* broadcast::Sender::send: a receiver that is Capacity events behind loses the
\* oldest one.
Push(q, e) == IF Len(q) < Capacity THEN Append(q, e) ELSE Append(Tail(q), e)

\* ... and send it to everyone on the channel.
Send(p) ==
    /\ step[p] = "stored"
    /\ chan' = [s \in Subscribers |->
                  IF sub[s] = "live" THEN Push(chan[s], event[p]) ELSE chan[s]]
    /\ newest' = [s \in Subscribers |->
                    IF sub[s] = "live" /\ event[p].tick > resume[s]
                    THEN event[p].tick ELSE newest[s]]
    /\ step' = [step EXCEPT ![p] = "idle"]
    /\ gate' = None
    /\ UNCHANGED <<tick, current, event, truth, subVars>>

-----------------------------------------------------------------------------
(* subscribe, which does not take the gate, and the UI's loop around it.   *)

\* Look at the newest event and keep it for the replay ...
SubscribeRead(s) ==
    /\ sub[s] = "closed"
    /\ sub' = [sub EXCEPT ![s] = "reading"]
    /\ replay' = [replay EXCEPT ![s] =
          IF current.tick > 0 /\ (resume[s] = 0 \/ current.tick > resume[s])
          THEN <<current>> ELSE <<>>]
    /\ UNCHANGED <<busVars, resume, chan, seen, view, last, newest>>

\* ... and only then join the channel.
SubscribeJoin(s) ==
    /\ sub[s] = "reading"
    /\ sub' = [sub EXCEPT ![s] = "live"]
    /\ UNCHANGED <<busVars, resume, replay, chan, seen, view, last, newest>>

Receive(s, e) ==
    /\ seen' = [seen EXCEPT ![s] = IF e.tick > @ THEN e.tick ELSE @]
    /\ last' = [last EXCEPT ![s] = e.tick]
    /\ view' = [view EXCEPT ![s] = e.phase]

\* Mutant: the replay and the channel are merged instead of chained.
DeliverMerged(s) ==
    /\ sub[s] = "live"
    /\ \/ /\ replay[s] # <<>>
          /\ Receive(s, Head(replay[s]))
          /\ replay' = [replay EXCEPT ![s] = <<>>]
          /\ UNCHANGED chan
       \/ /\ chan[s] # <<>>
          /\ IF Head(chan[s]).tick > resume[s]
             THEN Receive(s, Head(chan[s]))
             ELSE UNCHANGED <<seen, last, view>>
          /\ chan' = [chan EXCEPT ![s] = Tail(@)]
          /\ UNCHANGED replay
    /\ UNCHANGED <<busVars, sub, resume, newest>>

\* Mutant: the filter skips the event that follows resume_tick.
DeliverBeyondNext(s) ==
    /\ sub[s] = "live"
    /\ \/ /\ replay[s] # <<>>
          /\ Receive(s, Head(replay[s]))
          /\ replay' = [replay EXCEPT ![s] = <<>>]
          /\ UNCHANGED chan
       \/ /\ replay[s] = <<>> /\ chan[s] # <<>>
          /\ IF Head(chan[s]).tick > resume[s] + 1
             THEN Receive(s, Head(chan[s]))
             ELSE UNCHANGED <<seen, last, view>>
          /\ chan' = [chan EXCEPT ![s] = Tail(@)]
          /\ UNCHANGED replay
    /\ UNCHANGED <<busVars, sub, resume, newest>>

\* The stream yields the replayed event first, then what the channel holds and
\* is newer than resume_tick.
Deliver(s) ==
    /\ sub[s] = "live"
    /\ \/ /\ replay[s] # <<>>
          /\ Receive(s, Head(replay[s]))
          /\ replay' = [replay EXCEPT ![s] = <<>>]
          /\ UNCHANGED chan
       \/ /\ replay[s] = <<>> /\ chan[s] # <<>>
          /\ IF Head(chan[s]).tick > resume[s]
             THEN Receive(s, Head(chan[s]))
             ELSE UNCHANGED <<seen, last, view>>
          /\ chan' = [chan EXCEPT ![s] = Tail(@)]
          /\ UNCHANGED replay
    /\ UNCHANGED <<busVars, sub, resume, newest>>

\* The stream breaks; the loop opens the next one from the largest tick it saw.
StreamBreaks(s) ==
    /\ sub[s] = "live"
    /\ sub' = [sub EXCEPT ![s] = "closed"]
    /\ resume' = [resume EXCEPT ![s] = seen[s]]
    /\ replay' = [replay EXCEPT ![s] = <<>>]
    /\ chan' = [chan EXCEPT ![s] = <<>>]
    /\ newest' = [newest EXCEPT ![s] = 0]
    /\ UNCHANGED <<busVars, seen, view, last>>

-----------------------------------------------------------------------------
PublisherStep(p) == Store(p) \/ Send(p)
SubscriberStep(s) == SubscribeRead(s) \/ SubscribeJoin(s) \/ Deliver(s)

\* Nothing is left to publish or to deliver.
Quiet ==
    /\ tick = MaxTick /\ gate = None
    /\ \A s \in Subscribers : sub[s] = "live" /\ chan[s] = <<>> /\ replay[s] = <<>>
    /\ UNCHANGED vars

Next ==
    \/ \E p \in Publishers : \/ \E phase \in Phases : Publish(p, phase)
                             \/ PublishStats(p) \/ PublisherStep(p)
    \/ \E s \in Subscribers : SubscriberStep(s) \/ StreamBreaks(s)
    \/ Quiet

Spec == Init /\ [][Next]_vars

\* A publication that began goes on, and the subscription loop runs; nothing
\* forces anyone to publish or a stream to break.
FairSpec ==
    /\ Spec
    /\ \A p \in Publishers : WF_vars(PublisherStep(p))
    /\ \A s \in Subscribers : WF_vars(SubscriberStep(s))

-----------------------------------------------------------------------------
(* Properties.                                                             *)

\* A subscriber never receives an older event after a newer one: not around the
\* replay, not from two publishers, not across a broken stream.
InOrder == [][\A s \in Subscribers : last'[s] >= last[s]]_vars

\* Between publications the replayed event is the newest one and shows the phase
\* of the last state event: a statistics sample never revives a phase that has
\* ended meanwhile.
CurrentIsTruth == gate = None => current.tick = tick /\ current.phase = truth

\* What is sent while a subscriber is on the channel reaches it in the end, or a
\* newer event does, however far behind it fell.
CatchesUp ==
    \A s \in Subscribers : newest[s] > seen[s] ~> newest[s] <= seen[s]

=============================================================================
