----------------------------- MODULE DarwinStats -----------------------------
(***************************************************************************)
(* Traffic statistics on macOS: the engine's registry, which reads the     *)
(* counters of the packet pump attached to it (darwin-engine stats.rs),    *)
(* and the Core's projection (darwin-core stats.rs LiveStatsState,         *)
(* kernel_control_service.rs spawn_stats_projection).  Each connect        *)
(* operation starts a task of its own, but all of them share one           *)
(* LiveStatsState: a task learns that its operation ended only when it     *)
(* looks at that state again.                                              *)
(***************************************************************************)
EXTENDS Integers, Sequences

CONSTANTS MaxOp,      \* connect operations
          MaxBytes,   \* the pump counter's bound
          MaxClock,   \* wall-clock readings 1..MaxClock
          Room        \* samples a stream holds

VARIABLES pump,    \* the counters the registry reads: whose, and their value
          clock,   \* the wall clock samples are stamped with
          op,      \* the last operation accepted
          state,   \* LiveStatsState
          task,    \* the stats task of each operation
          shown    \* EventBus::current_stats

vars == <<pump, clock, op, state, task, shown>>

Ops == 1..MaxOp
NoStats == [by |-> 0, bytes |-> 0, rate |-> 0, phase |-> "none"]
Detached == [of |-> 0, bytes |-> 0]

TrafficSampleNew == [prior |-> FALSE, bytes |-> 0, at |-> 0]
LiveStatsStateNew == [connected |-> FALSE, live |-> TRUE, latest |-> NoStats, op |-> 0]

Init ==
  /\ pump = Detached
  /\ clock = 1
  /\ op = 0
  /\ state = LiveStatsStateNew
  /\ task = [o \in Ops |-> [pc |-> "none", stream |-> <<>>,
                            traffic |-> TrafficSampleNew, holds |-> NoStats]]
  /\ shown = NoStats

-----------------------------------------------------------------------------
(* The engine.                                                             *)

Traffic ==
  /\ pump.of # 0
  /\ pump.bytes < MaxBytes
  /\ pump' = [pump EXCEPT !.bytes = @ + 1]
  /\ UNCHANGED <<clock, op, state, task, shown>>

\* The pipeline of the operation starts its pump and attaches its counters.
AttachPump ==
  /\ state.op # 0
  /\ pump.of = 0
  /\ ~state.connected
  /\ pump' = [of |-> state.op, bytes |-> 0]
  /\ UNCHANGED <<clock, op, state, task, shown>>

\* The pipeline ends: the registry reads zeros again.
DetachPump ==
  /\ pump.of # 0
  /\ pump' = Detached
  /\ UNCHANGED <<clock, op, state, task, shown>>

ClockAdvances ==
  /\ clock < MaxClock
  /\ clock' = clock + 1
  /\ UNCHANGED <<pump, op, state, task, shown>>

Snapshot ==
  [bytes |-> pump.bytes, at |-> clock,
   phase |-> IF pump.of = 0 THEN "Idle" ELSE "Connected"]

\* Every stream whose reader still holds it has a sampler.
SampleLoop(o) ==
  /\ task[o].pc \notin {"none", "done"}
  /\ Len(task[o].stream) < Room
  /\ task' = [task EXCEPT ![o].stream = Append(@, Snapshot)]
  /\ UNCHANGED <<pump, clock, op, state, shown>>

-----------------------------------------------------------------------------
(* The Core.                                                               *)

\* The engine answered the dispatch: the shared state is rebuilt for the new
\* operation and its task starts on a stream of its own.
ConnectAccepted ==
  /\ op < MaxOp
  /\ state.op = 0
  /\ pump.of = 0
  /\ op' = op + 1
  /\ state' = [LiveStatsStateNew EXCEPT !.op = op + 1]
  /\ task' = [task EXCEPT ![op + 1].pc = "wait"]
  /\ UNCHANGED <<pump, clock, shown>>

ConnectedBaseline(s) ==
  IF s.latest = NoStats THEN s ELSE [s EXCEPT !.latest.phase = "Connected"]

MarkConnected(s) == [s EXCEPT !.connected = TRUE]

\* The status projection publishes Connected with the newest sample.
ProjectsConnected ==
  /\ state.op # 0
  /\ pump.of = state.op
  /\ ~state.connected
  /\ state' = MarkConnected(ConnectedBaseline(state))
  /\ shown' = ConnectedBaseline(state).latest
  /\ UNCHANGED <<pump, clock, op, task>>

\* A failure, a lost stream or a stop ends the operation.
MarkFinished ==
  /\ state.op # 0
  /\ state' = [connected |-> FALSE, live |-> FALSE, latest |-> NoStats, op |-> 0]
  /\ UNCHANGED <<pump, clock, op, task, shown>>

Elapsed(s, ev) == IF ev.at > s.at THEN ev.at - s.at ELSE 0

RateBytesPerSec(delta, elapsed) == IF elapsed = 0 THEN 0 ELSE delta \div elapsed

Feed(s, ev) ==
  IF ~s.prior \/ ev.bytes < s.bytes THEN 0
  ELSE RateBytesPerSec(ev.bytes - s.bytes, Elapsed(s, ev))

NormalizeStats(o, ev) ==
  [by |-> o, bytes |-> ev.bytes, rate |-> Feed(task[o].traffic, ev), phase |-> ev.phase]

\* A sample arrives.  It is kept as the newest while an operation is live,
\* and published once that operation is connected.
Observe(o) ==
  /\ task[o].pc = "wait"
  /\ task[o].stream # <<>>
  /\ LET ev == Head(task[o].stream)
         sample == NormalizeStats(o, ev)
     IN /\ state' = IF state.live THEN [state EXCEPT !.latest = sample] ELSE state
        /\ task' = [task EXCEPT
             ![o].stream = Tail(@),
             ![o].traffic = [prior |-> TRUE, bytes |-> ev.bytes, at |-> ev.at],
             ![o].holds = IF state.live /\ state.connected THEN sample ELSE NoStats,
             ![o].pc = IF state.live /\ state.connected THEN "publish" ELSE "check"]
  /\ UNCHANGED <<pump, clock, op, shown>>

PublishStats(o) ==
  /\ task[o].pc = "publish"
  /\ shown' = task[o].holds
  /\ task' = [task EXCEPT ![o].pc = "cache"]
  /\ UNCHANGED <<pump, clock, op, state>>

CacheMinted(o) ==
  /\ task[o].pc = "cache"
  /\ state' = IF state.live THEN [state EXCEPT !.latest = task[o].holds] ELSE state
  /\ task' = [task EXCEPT ![o].pc = "check", ![o].holds = NoStats]
  /\ UNCHANGED <<pump, clock, op, shown>>

\* The task goes on while the shared state is live, and otherwise drops its
\* stream.
IsLive(o) ==
  /\ task[o].pc = "check"
  /\ task' = IF state.live THEN [task EXCEPT ![o].pc = "wait"]
             ELSE [task EXCEPT ![o] = [@ EXCEPT !.pc = "done", !.stream = <<>>]]
  /\ UNCHANGED <<pump, clock, op, state, shown>>

\* The stream fails or ends with its engine.
StreamEnds(o) ==
  /\ task[o].pc = "wait"
  /\ task[o].stream = <<>>
  /\ task' = [task EXCEPT ![o].pc = "done"]
  /\ UNCHANGED <<pump, clock, op, state, shown>>

TaskSteps(o) == Observe(o) \/ PublishStats(o) \/ CacheMinted(o) \/ IsLive(o)

Next ==
  \/ Traffic
  \/ AttachPump
  \/ DetachPump
  \/ ClockAdvances
  \/ \E o \in Ops : SampleLoop(o)
  \/ ConnectAccepted
  \/ ProjectsConnected
  \/ MarkFinished
  \/ \E o \in Ops : TaskSteps(o)
  \/ \E o \in Ops : StreamEnds(o)

-----------------------------------------------------------------------------

\* An operation that ended keeps no sample, although its task may still be
\* between publishing one and writing it back: "a finished operation revives
\* no sample".
EndedKeepsNoSample == ~state.live => state.latest = NoStats

=============================================================================
