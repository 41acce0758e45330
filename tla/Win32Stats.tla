----------------------------- MODULE Win32Stats -----------------------------
(***************************************************************************)
(* Traffic statistics on Windows: the engine's registry and its sampler    *)
(* (win32-engine stats.rs), the stream to the Core (win32-host             *)
(* grpc_control.rs), and the Core's forwarder task with its normalisation, *)
(* its log throttle and its diagnostic record (kernel_control_service.rs   *)
(* spawn_stats_forwarder, stats.rs).                                       *)
(*                                                                         *)
(* One counter stands for received and sent bytes, which take the same     *)
(* path.  The slot names the engine the Core is attached to, 0 when it is  *)
(* detached; swapping the slot does not end the engine it named before.    *)
(* The phase and the latency ride along in every sample and are left out:  *)
(* nothing here tells their values apart, and an engine of the same build  *)
(* never sends the unspecified phase the third throttle lane is for.       *)
(***************************************************************************)
EXTENDS Integers, Sequences, FiniteSets

CONSTANTS Engines,      \* engine processes, numbered from 1
          MaxBytes,     \* the counter's last value, where it saturates
          MaxClock,     \* wall-clock readings 1..MaxClock; 0 is an unknown time
          Room,         \* samples a stream holds: its channel and the sampler's
          MaxFault      \* engine deaths, slot swaps, clock steps and failed calls

VARIABLES engine,   \* the engines: new, up or gone, and the counter
          clock,    \* the wall clock the engines stamp samples with
          slot,     \* the engine the Core is attached to
          swapped,  \* the forwarder's watch holds an unseen swap
          stream,   \* the stream held: its engine, the samples on their way
          fwd,      \* the forwarder task
          lanes,    \* the throttle: the retry key and the sample lanes in force
          diag,     \* StatsForwarderDiagnostic
          shown,    \* EventBus::current_stats
          faults

vars == <<engine, clock, slot, swapped, stream, fwd, lanes, diag, shown, faults>>

Clocks == 0..MaxClock
Lanes == {"timestamp", "counter"}
Up(g) == engine[g].is = "up"
NoStats == [bytes |-> 0, rate |-> 0, of |-> 0, since |-> 0]
OpenStream(g) == [of |-> g, samples |-> <<>>]
NoStream == OpenStream(0)

StatsRegistryNew(up) == [is |-> up, bytes |-> 0]
TrafficSampleNew == [prior |-> FALSE, bytes |-> 0, at |-> 0, of |-> 0]
NoRetry == <<>>
ThrottleNew == [retry |-> NoRetry, samples |-> {}]
Starting == [state |-> "Starting", error |-> "none", suppressed |-> 0]

Init ==
  /\ engine = [g \in Engines |-> StatsRegistryNew(IF g = 1 THEN "up" ELSE "new")]
  /\ clock = 1
  /\ slot = 0
  /\ swapped = FALSE
  /\ stream = NoStream
  /\ fwd = [pc |-> "subscribe", sample |-> TrafficSampleNew, count |-> 0,
            settled |-> FALSE, firsts |-> 0]
  /\ lanes = ThrottleNew
  /\ diag = Starting
  /\ shown = NoStats
  /\ faults = 0

Fault == faults < MaxFault /\ faults' = faults + 1

-----------------------------------------------------------------------------
(* The engine process.                                                     *)

SaturatingAdd(n) == IF n < MaxBytes THEN n + 1 ELSE n

\* StatsRegistry::record_rx, record_tx.
Record(g) ==
  /\ Up(g)
  /\ engine' = [engine EXCEPT ![g].bytes = SaturatingAdd(@)]
  /\ UNCHANGED <<clock, slot, swapped, stream, fwd, lanes, diag, shown, faults>>

Snapshot(g) == [bytes |-> engine[g].bytes, at |-> clock]

\* One turn of sample_loop.  The send waits when the channel is full: the
\* sample it holds is the last of the stream's room.  The loop ends with its
\* receiver.
SampleLoop ==
  /\ stream.of # 0
  /\ Up(stream.of)
  /\ Len(stream.samples) < Room
  /\ stream' = [stream EXCEPT !.samples = Append(@, Snapshot(stream.of))]
  /\ UNCHANGED <<engine, clock, slot, swapped, fwd, lanes, diag, shown, faults>>

\* The system clock moves: it advances freely and may be set back.
ClockMoves ==
  /\ \E c \in Clocks \ {clock} :
       /\ clock' = c
       /\ IF c > clock THEN UNCHANGED faults ELSE Fault
  /\ UNCHANGED <<engine, slot, swapped, stream, fwd, lanes, diag, shown>>

\* An engine process ends.
EngineEnds(g) ==
  /\ Up(g)
  /\ Fault
  /\ engine' = [engine EXCEPT ![g].is = "gone"]
  /\ UNCHANGED <<clock, slot, swapped, stream, fwd, lanes, diag, shown>>

\* The Core attaches its slot to an engine it started or found, or detaches it.
SlotSwaps(g) ==
  /\ g # slot
  /\ Fault
  /\ slot' = g
  /\ swapped' = TRUE
  /\ g # 0 => engine[g].is # "gone"
  /\ engine' = IF g = 0 THEN engine ELSE [engine EXCEPT ![g].is = "up"]
  /\ UNCHANGED <<clock, stream, fwd, lanes, diag, shown>>

-----------------------------------------------------------------------------
(* The throttle.  A lane in force means less than sixty seconds have       *)
(* passed since it was last let through.                                   *)

ResetRetryLane(l) == [l EXCEPT !.retry = NoRetry]

AllowRetry(key) == lanes.retry # key

\* The window of a lane passes.
WindowPasses ==
  /\ lanes # ThrottleNew
  /\ lanes' \in {[lanes EXCEPT !.retry = NoRetry]}
                \cup {[lanes EXCEPT !.samples = @ \ {l}] : l \in Lanes}
  /\ lanes' # lanes
  /\ UNCHANGED <<engine, clock, slot, swapped, stream, fwd, diag, shown, faults>>

\* The diagnostic after a throttled retry: logged, or counted as suppressed.
Retrying(key) ==
  [state |-> "Retrying", error |-> key[1],
   suppressed |-> IF AllowRetry(key) THEN 0 ELSE 1]

-----------------------------------------------------------------------------
(* The forwarder.                                                          *)

\* Mutant: the normalisation goes on from the stream before.
SubscribesOn ==
  /\ fwd.pc = "subscribe"
  /\ slot # 0
  /\ Up(slot)
  /\ stream' = OpenStream(slot)
  /\ fwd' = [pc |-> "held", sample |-> fwd.sample, count |-> 0,
             settled |-> FALSE, firsts |-> 0]
  /\ lanes' = ResetRetryLane(lanes)
  /\ diag' = [state |-> "Subscribed", error |-> "none", suppressed |-> 0]
  /\ UNCHANGED <<engine, clock, slot, swapped, shown, faults>>

\* A stream opens on the engine the slot names: the diagnostic says so, the
\* retry lane opens, and the normalisation starts over.
Subscribes ==
  /\ fwd.pc = "subscribe"
  /\ slot # 0
  /\ Up(slot)
  /\ stream' = OpenStream(slot)
  /\ fwd' = [pc |-> "held", sample |-> TrafficSampleNew, count |-> 0,
             settled |-> FALSE, firsts |-> 0]
  /\ lanes' = ResetRetryLane(lanes)
  /\ diag' = [state |-> "Subscribed", error |-> "none", suppressed |-> 0]
  /\ UNCHANGED <<engine, clock, slot, swapped, shown, faults>>

\* The class an error is logged under; a lane tells classes apart.
ErrorKind(g) == IF g = 0 \/ ~Up(g) THEN "connection_lost" ELSE "rpc_other"

\* Detached, a dead engine, or a call that fails on a live one.
SubscribeFails ==
  /\ fwd.pc = "subscribe"
  /\ IF slot = 0 \/ ~Up(slot) THEN UNCHANGED faults ELSE Fault
  /\ LET key == <<"SubscribeFailed", ErrorKind(slot)>>
     IN diag' = Retrying(key) /\ lanes' = [lanes EXCEPT !.retry = key]
  /\ fwd' = [fwd EXCEPT !.pc = "backoff"]
  /\ UNCHANGED <<engine, clock, slot, swapped, stream, shown>>

\* The backoff is over.
BackoffEnds ==
  /\ fwd.pc = "backoff"
  /\ fwd' = [fwd EXCEPT !.pc = "subscribe"]
  /\ UNCHANGED <<engine, clock, slot, swapped, stream, lanes, diag, shown, faults>>

\* Leaving the stream drops it with the samples still in it.
HeldSwaps ==
  /\ fwd.pc = "held"
  /\ swapped
  /\ swapped' = FALSE
  /\ stream' = NoStream
  /\ fwd' = [fwd EXCEPT !.pc = "subscribe"]
  /\ UNCHANGED <<engine, clock, slot, lanes, diag, shown, faults>>

FirstSampleTimesOut ==
  /\ fwd.pc = "held"
  /\ ~fwd.settled
  /\ fwd' = [fwd EXCEPT !.settled = TRUE]
  /\ diag' = [diag EXCEPT !.error = "FirstSampleTimeout", !.suppressed = 0]
  /\ UNCHANGED <<engine, clock, slot, swapped, stream, lanes, shown, faults>>

Elapsed(s, ev) == IF ev.at > 0 /\ s.at > 0 /\ ev.at > s.at THEN ev.at - s.at ELSE 0

RateBytesPerSec(delta, elapsed) == IF elapsed = 0 THEN 0 ELSE delta \div elapsed

Regressions(s, ev) ==
  {l \in Lanes :
     \/ l = "timestamp" /\ s.prior /\ ev.at > 0 /\ s.at > 0 /\ ev.at < s.at
     \/ l = "counter" /\ s.prior /\ ev.bytes < s.bytes}

\* TrafficSample::feed: the first sample is a baseline, a counter that went
\* back counts as no traffic.
Feed(s, ev) ==
  IF ~s.prior \/ ev.bytes < s.bytes THEN 0
  ELSE RateBytesPerSec(ev.bytes - s.bytes, Elapsed(s, ev))

NormalizeStats(s, ev) ==
  [bytes |-> ev.bytes, rate |-> Feed(s, ev), of |-> stream.of,
   since |-> IF s.prior THEN s.of ELSE stream.of]

LastLane(irregular) ==
  IF "counter" \in irregular THEN "counter" ELSE "timestamp"

\* Each irregular lane is logged at most once per window; the last one looked
\* at settles the count.
SampleSuppressed(irregular) ==
  IF irregular = {} THEN diag.suppressed
  ELSE IF LastLane(irregular) \in lanes.samples THEN 1 ELSE 0

IsFirst == diag.state # "Receiving"

Bumped(n) == IF n < 2 THEN n + 1 ELSE n

\* A sample: normalised, the diagnostic moved to Receiving by the first one of
\* the subscription, the irregular lanes logged or suppressed, then published.
Receives ==
  /\ fwd.pc = "held"
  /\ stream.samples # <<>>
  /\ LET ev == Head(stream.samples)
         irregular == Regressions(fwd.sample, ev)
     IN /\ shown' = NormalizeStats(fwd.sample, ev)
        /\ fwd' = [fwd EXCEPT
             !.sample = [prior |-> TRUE, bytes |-> ev.bytes, at |-> ev.at, of |-> stream.of],
             !.count = Bumped(@), !.settled = TRUE,
             !.firsts = IF IsFirst THEN Bumped(@) ELSE @]
        /\ lanes' = [retry |-> IF IsFirst THEN NoRetry ELSE lanes.retry,
                     samples |-> lanes.samples \cup irregular]
        /\ diag' = [state |-> "Receiving",
                    error |-> IF IsFirst THEN "none" ELSE diag.error,
                    suppressed |-> IF IsFirst /\ irregular = {} THEN 0
                                   ELSE SampleSuppressed(irregular)]
  /\ stream' = [stream EXCEPT !.samples = Tail(@)]
  /\ UNCHANGED <<engine, clock, slot, swapped, faults>>

\* The samples come before the item that ends the stream.
Finished == stream.samples = <<>>

\* The stream of a dead engine fails or ends once its samples are read; one
\* of a live engine may fail too.
StreamEnds(code) ==
  /\ fwd.pc = "held"
  /\ IF Up(stream.of) THEN code = "StreamError" /\ Fault
     ELSE Finished /\ UNCHANGED faults
  /\ LET key == <<code, IF code = "StreamError" THEN ErrorKind(stream.of) ELSE "none">>
     IN diag' = Retrying(key) /\ lanes' = [lanes EXCEPT !.retry = key]
  /\ stream' = NoStream
  /\ fwd' = [fwd EXCEPT !.pc = "backoff"]
  /\ UNCHANGED <<engine, clock, slot, swapped, shown>>

Forwards ==
  \/ Subscribes
  \/ SubscribeFails
  \/ BackoffEnds
  \/ HeldSwaps
  \/ Receives
  \/ \E code \in {"StreamError", "StreamEnded"} : StreamEnds(code)

Next ==
  \/ \E g \in Engines : Record(g)
  \/ SampleLoop
  \/ ClockMoves
  \/ \E g \in Engines : EngineEnds(g)
  \/ \E g \in Engines \cup {0} : SlotSwaps(g)
  \/ WindowPasses
  \/ FirstSampleTimesOut
  \/ Forwards

-----------------------------------------------------------------------------

\* A rate shown to the user comes from two samples of one engine, however the
\* slot was swapped and the stream reopened between them ("no traffic is made
\* up across a break").
RateIsReal == shown.rate > 0 => shown.since = shown.of

\* The diagnostic names what the forwarder is doing: Receiving once the
\* subscription brought a sample and until it is lost, Subscribed only while
\* none came, Retrying only while no stream is held; the first sample is
\* logged exactly once for a subscription.
DiagnosticIsHonest ==
  /\ fwd.pc = "held" => diag.state = (IF fwd.count > 0 THEN "Receiving" ELSE "Subscribed")
  /\ fwd.pc = "backoff" => diag.state = "Retrying"
  /\ fwd.pc = "held" => fwd.firsts = (IF fwd.count > 0 THEN 1 ELSE 0)

\* The stream held is not the attached engine's although that engine serves.
Behind == slot # 0 /\ Up(slot) /\ stream.of # slot
=============================================================================
