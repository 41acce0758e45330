---- MODULE RuntimeActor ----
(***************************************************************************)
(* The portable runtime actor (exv-vpn-runtime) around the pure reducer    *)
(* (exv-vpn-domain): two bounded mailboxes, one lock, a pump that drains   *)
(* commands before completions, fenced effects and the convergence of      *)
(* completions that arrive late.                                           *)
(*                                                                         *)
(* Callers submit commands, effect runners report completions and register *)
(* late handles, all under the same lock as the pump, so each of these is  *)
(* one step that happens only while no pump is running; the pump itself    *)
(* takes one step per message.  Fresh identities (UUIDs in the code) are   *)
(* consecutive numbers; an attempt shares the number of its first effect.  *)
(***************************************************************************)
EXTENDS Naturals, Sequences, FiniteSets, SequencesExt

CONSTANTS
  Intents,            \* connect intents: [key, epoch, digest, profile] records
  Epochs,             \* runtime epochs
  NormalMailbox,      \* limits.normal_mailbox_messages
  CompletionMailbox,  \* limits.completion_mailbox_messages
  MaxSubmits,         \* bound: commands submitted
  MaxInputs,          \* bound: commands, reports and late handles together
  None

VARIABLES
  state,         \* RuntimeState: the tag, the attempt and the queued connect
  commands,      \* mailbox of RuntimeCommands
  completions,   \* mailbox of EffectCompletions
  inflight,      \* fenced effects scheduled and not yet settled, in order
  currentEpoch,  \* the current era, None until the first effect
  lateHandles,   \* registered late-resource cleanups
  pc,            \* who holds the lock: "free", or the loop the pump is in
  fresh,         \* next identity
  submits,       \* commands submitted so far
  reports,       \* effect |-> completions reported so far; its domain is every effect scheduled
  settled,       \* history: the effects settled by a current completion, in order
  outcomes       \* history: operation outcomes decided by the reducer

vars == <<state, commands, completions, inflight, currentEpoch, lateHandles, pc,
          fresh, submits, reports, settled, outcomes>>


Kinds == {"ProtocolLateHandle", "PacketLateHandle"}
Scheduled == DOMAIN reports

(* Everything the actor was told so far.                                   *)
Inputs == submits + FoldFunction(LAMBDA m, n : m + n, 0, reports) + Len(lateHandles)

Attempt(epoch, id, intent) == [epoch |-> epoch, id |-> id, intent |-> intent]
Effect(id, epoch, attempt, request) ==
  [id |-> id, epoch |-> epoch, attempt |-> attempt, request |-> request]

State(tag, attempt, queued) == [tag |-> tag, attempt |-> attempt, queued |-> queued]

Decision(next, effects, outs) == [next |-> next, effects |-> effects, outcomes |-> outs]
Outcome(intent, disposition) == [key |-> intent.key, disposition |-> disposition]

-----------------------------------------------------------------------------
(* The reducer                                                             *)

ConnectDisposition(current, intent, busy) ==
  IF current = intent THEN "AlreadyCurrent"
  ELSE IF current.key = intent.key THEN "IdempotencyConflict" ELSE busy

LeafDecision(s, intent, disposition) == Decision(s, << >>, <<Outcome(intent, disposition)>>)

StartConnect(intent, id) ==
  Decision(State("Connecting", Attempt(intent.epoch, id, intent), None),
           <<Effect(id, intent.epoch, id, "ConnectProtocol")>>,
           <<Outcome(intent, "Accepted")>>)

(* A mutant: a connect that meets a stopping or recovering runtime starts. *)
ReduceConnectEager(s, intent, id) == StartConnect(intent, id)

ReduceConnect(s, intent, id) ==
  CASE s.tag \in {"Idle", "FailedClean"} -> StartConnect(intent, id)
    [] s.tag \in {"Connecting", "AwaitingInteraction"} ->
         LeafDecision(s, intent, ConnectDisposition(s.attempt.intent, intent, "ConnectInProgress"))
    [] s.tag = "Connected" ->
         LeafDecision(s, intent, ConnectDisposition(s.attempt.intent, intent, "SessionBusy"))
    [] s.tag = "Stopping" /\ s.queued = None ->
         Decision([s EXCEPT !.queued = intent], << >>, <<Outcome(intent, "AcceptedQueued")>>)
    [] s.tag = "Stopping" /\ s.queued # None ->
         LeafDecision(s, intent,
           IF s.queued.key = intent.key /\ s.queued.digest = intent.digest
           THEN "AlreadyCurrent" ELSE "ReconnectAlreadyQueued")
    [] s.tag \in {"Reconciling", "FailedDirty"} -> LeafDecision(s, intent, "RequiresReconcile")

(* The Stop of a connected session schedules the three teardown effects of *)
(* its attempt at once; a Stop while stopping revokes the queued connect.  *)
TeardownRequests == <<"StopProtocol", "StopPacket", "BeginPlatformStop">>

(* A mutant: the teardown is scheduled and the session stays Connected.    *)
ReduceStopStays(s, stop, id) ==
  IF s.tag # "Connected" THEN Decision(s, << >>, << >>)
  ELSE Decision(s, [n \in 1..3 |-> Effect(id + n - 1, s.attempt.epoch, s.attempt.id,
                                          TeardownRequests[n])], << >>)

ReduceStop(s, stop, id) ==
  CASE s.tag = "Idle" -> LeafDecision(s, stop, "AlreadyStopped")
    [] s.tag = "Connecting" -> Decision(State("Stopping", s.attempt, None), << >>, << >>)
    [] s.tag = "AwaitingInteraction" ->
         Decision(State("Stopping", s.attempt, None),
                  <<Effect(id, s.attempt.epoch, s.attempt.id, "RevokeInteraction")>>, << >>)
    [] s.tag = "Connected" ->
         Decision(State("Stopping", s.attempt, None),
                  [n \in 1..3 |-> Effect(id + n - 1, s.attempt.epoch, s.attempt.id,
                                         TeardownRequests[n])],
                  << >>)
    [] s.tag = "Stopping" /\ s.queued # None ->
         Decision([s EXCEPT !.queued = None],
                  <<Effect(id, s.queued.epoch, None, "RevokeQueuedConnect")>>,
                  <<Outcome(s.queued, "CancelledBeforeStart")>>)
    [] OTHER -> Decision(s, << >>, << >>)

(* Every command but Connect and Stop, a completion included, passes       *)
(* through the reducer unchanged.                                          *)
Reduce(s, command, id) ==
  CASE command.kind = "Connect" -> ReduceConnect(s, command.intent, id)
    [] command.kind = "Stop" -> ReduceStop(s, command.intent, id)
    [] OTHER -> Decision(s, << >>, << >>)

-----------------------------------------------------------------------------
(* Mailboxes                                                               *)

(* submit, complete_effect: a full mailbox drops the message silently.     *)
TrySend(mailbox, capacity, item) ==
  IF Len(mailbox) >= capacity THEN mailbox ELSE Append(mailbox, item)

Commands ==
  [kind : {"Connect", "Stop"}, intent : Intents] \cup
  [kind : {"HostLost"}, epoch : Epochs] \cup [kind : {"Other"}]

Submit(command) ==
  /\ pc = "free" /\ submits < MaxSubmits /\ Inputs < MaxInputs
  /\ submits' = submits + 1
  /\ commands' = TrySend(commands, NormalMailbox, command)
  /\ UNCHANGED <<state, completions, inflight, currentEpoch, lateHandles, pc, fresh, reports,
                 settled, outcomes>>

(* What a completion that no longer matches an effect in flight says of    *)
(* the work that was done: nothing, an ephemeral resource that somebody    *)
(* must release, or an effect outside the process.                         *)
Dispositions == {"ProvenNoEffect", "External"} \cup Kinds

(* An effect runner reports.  A runner that timed out may report again     *)
(* when its work ends, so one effect may be reported more than once.       *)
Report(e, disposition) ==
  /\ pc = "free" /\ Inputs < MaxInputs
  /\ reports' = [reports EXCEPT ![e] = @ + 1]
  /\ completions' = TrySend(completions, CompletionMailbox,
                            [fence |-> e, disposition |-> disposition])
  /\ UNCHANGED <<state, commands, inflight, currentEpoch, lateHandles, pc, fresh, submits,
                 settled, outcomes>>

(* register_late_handle: a runner parks the cleanup of a resource it got.  *)
RegisterLateHandle(e, kind) ==
  /\ pc = "free" /\ Inputs < MaxInputs
  /\ lateHandles' = Append(lateHandles, [effect |-> e.id, kind |-> kind, armed |-> TRUE,
                                         consumed |-> FALSE, runs |-> 0])
  /\ UNCHANGED <<state, commands, completions, inflight, currentEpoch, pc, fresh, submits,
                 reports, settled, outcomes>>

-----------------------------------------------------------------------------
(* The pump                                                                *)

PumpBegin ==
  /\ pc = "free"
  /\ pc' = "commands"
  /\ UNCHANGED <<state, commands, completions, inflight, currentEpoch, lateHandles, fresh,
                 submits, reports, settled, outcomes>>

(* commit_effects: in flight before it is scheduled; the first effect of   *)
(* all fixes the era.                                                      *)
CommitEffects(effects, flying, era) ==
  /\ inflight' = flying \o effects
  /\ currentEpoch' = IF era = None /\ effects # << >> THEN effects[1].epoch ELSE era
  /\ reports' = [e \in Scheduled \cup ToSet(effects) |-> IF e \in Scheduled THEN reports[e] ELSE 0]
  /\ fresh' = fresh + Len(effects)

CommitDecision(d, flying) ==
  /\ state' = d.next
  /\ outcomes' = outcomes \o d.outcomes
  /\ CommitEffects(d.effects, flying, currentEpoch)

(* begin_host_lost_teardown: whatever the state was, a new attempt of the  *)
(* lost epoch is Stopping, without a queued connect.                       *)
BeginHostLostTeardown(epoch) ==
  /\ state' = State("Stopping", Attempt(epoch, fresh, None), None)
  /\ CommitEffects(<<Effect(fresh, epoch, fresh, "StopProtocol")>>, inflight, epoch)
  /\ UNCHANGED outcomes

HandleCommand ==
  /\ pc = "commands" /\ commands # << >>
  /\ commands' = Tail(commands)
  /\ LET command == Head(commands) IN
       IF command.kind = "HostLost"
       THEN BeginHostLostTeardown(command.epoch)
       ELSE CommitDecision(Reduce(state, command, fresh), inflight)
  /\ UNCHANGED <<completions, lateHandles, pc, submits, settled>>

CommandsDrained ==
  /\ pc = "commands" /\ commands = << >>
  /\ pc' = "completions"
  /\ UNCHANGED <<state, commands, completions, inflight, currentEpoch, lateHandles, fresh,
                 submits, reports, settled, outcomes>>

(* consume_late_handle: the first entry registered under the reference;    *)
(* its cleanup is taken out, and run, once.                                *)
Consumed(h) ==
  [h EXCEPT !.consumed = TRUE, !.armed = FALSE, !.runs = IF h.armed THEN @ + 1 ELSE @]

ConsumeLateHandle(e, kind) ==
  LET Matches(h) == h.effect = e.id /\ h.kind = kind
      n == SelectInSeq(lateHandles, Matches)
  IN  lateHandles' = IF n = 0 \/ lateHandles[n].consumed THEN lateHandles
                     ELSE [lateHandles EXCEPT ![n] = Consumed(@)]

EnterReconciling == state' = State("Reconciling", None, None)

(* apply_stale                                                             *)
ApplyStale(e, disposition) ==
  /\ IF disposition \in Kinds
     THEN ConsumeLateHandle(e, disposition)
     ELSE UNCHANGED lateHandles
  /\ IF disposition \in {"PacketLateHandle", "External"}
     THEN EnterReconciling
     ELSE UNCHANGED state
  /\ UNCHANGED <<inflight, currentEpoch, reports, fresh, settled, outcomes>>

(* A mutant: the settled effect stays in flight.                           *)
SettleCurrentKeeps(e) ==
  /\ settled' = Append(settled, e)
  /\ UNCHANGED <<state, inflight, currentEpoch, lateHandles, reports, fresh, outcomes>>

(* settle_current: the completion goes through the reducer as a command.   *)
SettleCurrent(e) ==
  /\ settled' = Append(settled, e)
  /\ CommitDecision(Reduce(state, [kind |-> "Other"], fresh), RemoveFirst(inflight, e))
  /\ UNCHANGED lateHandles

HandleCompletion ==
  /\ pc = "completions" /\ completions # << >>
  /\ completions' = Tail(completions)
  /\ LET c == Head(completions) IN
       IF currentEpoch # None /\ c.fence.epoch # currentEpoch
       THEN UNCHANGED <<state, inflight, currentEpoch, lateHandles, reports, fresh, settled,
                        outcomes>>
       ELSE IF c.fence \in ToSet(inflight)
       THEN SettleCurrent(c.fence)
       ELSE ApplyStale(c.fence, c.disposition)
  /\ UNCHANGED <<commands, pc, submits>>

PumpEnd ==
  /\ pc = "completions" /\ completions = << >>
  /\ pc' = "free"
  /\ UNCHANGED <<state, commands, completions, inflight, currentEpoch, lateHandles, fresh,
                 submits, reports, settled, outcomes>>

Pump == PumpBegin \/ HandleCommand \/ CommandsDrained \/ HandleCompletion \/ PumpEnd

-----------------------------------------------------------------------------
(* from_state seeds the actor with any state; the attempt of a restored    *)
(* one has identity 0.                                                     *)
Restored ==
  {State(tag, None, None) : tag \in {"Idle", "Reconciling", "FailedClean", "FailedDirty"}} \cup
  {State(tag, Attempt(i.epoch, 0, i), None) :
     tag \in {"Connecting", "AwaitingInteraction", "Connected", "Stopping"}, i \in Intents}

Init ==
  /\ state \in Restored
  /\ commands = << >> /\ completions = << >> /\ inflight = << >> /\ lateHandles = << >>
  /\ currentEpoch = None
  /\ pc = "free"
  /\ fresh = 1 /\ submits = 0
  /\ reports = << >> /\ settled = << >> /\ outcomes = << >>

Next ==
  \/ \E command \in Commands : Submit(command)
  \/ \E e \in Scheduled, d \in Dispositions : Report(e, d)
  \/ \E e \in Scheduled, k \in Kinds : RegisterLateHandle(e, k)
  \/ Pump

Spec == Init /\ [][Next]_vars

-----------------------------------------------------------------------------
(* Properties                                                              *)

Tags == {"Idle", "Connecting", "AwaitingInteraction", "Connected", "Stopping", "Reconciling",
         "FailedClean", "FailedDirty"}
Down == {"Stopping", "Reconciling", "FailedDirty"}
Epoched == {e \in Scheduled : e.epoch \in Epochs}

(* Types: the mailboxes never exceed the limits of MvpLimits, an era is an *)
(* epoch, and only a stopping runtime holds a queued connect.              *)
TypeOK ==
  /\ state.tag \in Tags
  /\ state.queued \in Intents \cup {None}
  /\ state.queued # None => state.tag = "Stopping"
  /\ commands \in Seq(Commands) /\ Len(commands) <= NormalMailbox
  /\ Len(completions) <= CompletionMailbox
  /\ \A n \in DOMAIN completions : completions[n].fence \in Scheduled
  /\ currentEpoch \in Epochs \cup {None}
  /\ pc \in {"free", "commands", "completions"}
  /\ Epoched = Scheduled

(* Every effect the actor ever scheduled is in flight or was settled, and  *)
(* it is settled once however often its runner reports: a completion       *)
(* delivered twice (a timeout followed by the late answer) reaches the     *)
(* reducer once.  Likewise the cleanup of a late handle runs once, and     *)
(* exactly when its entry is consumed.                                     *)
SettledOnce ==
  /\ IsInjective(settled \o inflight)
  /\ ToSet(settled \o inflight) = Scheduled
  /\ \A n \in DOMAIN lateHandles :
       lateHandles[n].runs = IF lateHandles[n].consumed THEN 1 ELSE 0

(* A runtime that stops or recovers never runs again: whatever commands    *)
(* and late completions follow, it schedules no ConnectProtocol and never  *)
(* returns to Idle, Connecting or Connected.                               *)
NeverForwardAgain ==
  [][state.tag \in Down =>
       /\ state'.tag \in Down
       /\ \A e \in DOMAIN reports' \ Scheduled : e.request # "ConnectProtocol"]_vars

Teardown(id) == {e \in Scheduled : e.attempt = id /\ e.request \in ToSet(TeardownRequests)}

Decided(disposition) ==
  Cardinality({n \in DOMAIN outcomes : outcomes[n].disposition = disposition})

(* Under any flood of Stop commands the three teardown effects of a        *)
(* connected session are scheduled together and once, and none while it is *)
(* Connected; and a queued connect is cancelled once: there is one         *)
(* RevokeQueuedConnect per CancelledBeforeStart and never more than        *)
(* connects were accepted into the queue.                                  *)
TeardownBatch ==
  /\ Cardinality(Teardown(0)) \in {0, 3}
  /\ {e.request : e \in Teardown(0)} \in {{}, ToSet(TeardownRequests)}
  /\ state.tag = "Connected" => Teardown(0) = {}
  /\ Decided("CancelledBeforeStart") =
       Cardinality({e \in Scheduled : e.request = "RevokeQueuedConnect"})
  /\ Decided("CancelledBeforeStart") <= Decided("AcceptedQueued")

-----------------------------------------------------------------------------
(* The intents TLC runs with: the second of era 1 conflicts with the first *)
(* on the same key, the third is of the other era.                         *)
MCIntents ==
  {[key |-> "k1", epoch |-> 1, digest |-> "d1", profile |-> "p"],
   [key |-> "k1", epoch |-> 1, digest |-> "d2", profile |-> "p"],
   [key |-> "k2", epoch |-> 2, digest |-> "d1", profile |-> "p"]}
====
