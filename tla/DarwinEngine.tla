---------------------------- MODULE DarwinEngine ----------------------------
(***************************************************************************)
(* The privileged Engine of macOS: one attempt slot, the pipeline task of  *)
(* each accepted operation, the ledger of platform resources that outlive  *)
(* a session, StopTunnel, and the unified exit convergence.                *)
(*                                                                         *)
(* The Engine runs on a single-threaded executor, so an action is the code *)
(* between two await points.  `eng` is the state of the session being      *)
(* served (EngineRuntime is built anew for each), `kernel` what the        *)
(* operating system really holds, `wire` the one ordered connection to     *)
(* Core (status events, replies, end of file) and `req` the request Core   *)
(* is waiting on.                                                          *)
(***************************************************************************)
EXTENDS Naturals, Sequences, FiniteSets

CONSTANTS
  Ops,          \* operation ids of ApplyTunnel
  OuterFirst,   \* does a task woken by its pipeline run before a queued request
  MaxFaults,    \* bound on operating-system calls that fail
  MaxLosses,    \* bound on sessions the gateway drops
  MaxKills,     \* bound on crashes and stop signals
  MaxTroubles   \* bound on all of these together

VARIABLES eng, kernel, wire, req, faults, losses, kills

engineVars == <<eng, kernel, wire, req, faults, losses, kills>>

None == "none"
Form == {"oneshot", "service"}
NoRequest == [k |-> None, t |-> None, op |-> None]

(* A session the Engine starts to serve: empty slots, flags down. *)
FreshSession(id, form) ==
  [id |-> id, form |-> form, up |-> TRUE, attempt |-> None, cancel |-> {},
   stage |-> [o \in Ops |-> "none"], live |-> FALSE, shutdown |-> FALSE,
   done |-> FALSE, ctl |-> FALSE, idle |-> FALSE, pending |-> FALSE,
   stopper |-> None, converging |-> FALSE]

Down(e) == [FreshSession(e.id, e.form) EXCEPT !.up = FALSE]

Event(op, k) == [k |-> k, op |-> op, t |-> None]
Reply(t, k)  == [k |-> k, op |-> None, t |-> t]
EndOfFile(id) == [k |-> "eof", op |-> None, t |-> None, id |-> id]

Cleared(e) == e.attempt = None /\ ~e.live
Pipelines(e) == {o \in Ops : e.stage[o] \notin {"none", "over"}}
Reported(e) == \A o \in Ops : e.stage[o] # "lost"
Calm == faults + losses + kills < MaxTroubles
MayFail == Calm /\ faults < MaxFaults
MayLose == Calm /\ losses < MaxLosses
MayKill == Calm /\ kills < MaxKills

(* A route deletion that fails stays in the ledger; the device is dropped  *)
(* whatever happens.  `ok` says whether the deletions succeeded.           *)
CompleteCleanup(e, ok) ==
  [e EXCEPT !.pending = IF ok THEN FALSE ELSE @,
            !.ctl = IF ok THEN FALSE ELSE @,
            !.idle = FALSE]
KernelAfterCleanup(e, k, ok) ==
  (k \ {"utun"}) \ (IF ok THEN (IF e.ctl THEN {"ctl"} ELSE {})
                               \cup (IF e.pending THEN {"biz"} ELSE {})
                    ELSE {})
NeedsDelete(e) == e.ctl \/ e.pending
CleanupOutcome(e) == IF NeedsDelete(e) /\ MayFail THEN BOOLEAN ELSE {TRUE}
FaultIf(ok) == faults' = IF ok THEN faults ELSE faults + 1
-----------------------------------------------------------------------------
(***************************************************************************)
(* ApplyTunnel: one attempt at a time; an accepted attempt resets the      *)
(* teardown-done flag and spawns its task.                                 *)
(***************************************************************************)
ApplyTunnel ==
  /\ eng.up /\ req.k = "apply"
  /\ OuterFirst => Reported(eng)
  /\ IF eng.attempt # None
       THEN /\ eng' = eng
            /\ wire' = Append(wire, Reply(req.t, "rejected"))
       ELSE /\ eng' = [eng EXCEPT !.attempt = req.op, !.done = FALSE,
                                  !.stage[req.op] = "spawned"]
            /\ wire' = Append(wire, Reply(req.t, "pending"))
  /\ req' = NoRequest
  /\ UNCHANGED <<kernel, faults, losses, kills>>

(* The task finds the gateway and pins the route to it before it logs in.  *)
EnsureControlRoute(op) ==
  /\ eng.up /\ eng.stage[op] = "spawned"
  /\ eng' = [eng EXCEPT !.stage[op] = "routed", !.ctl = TRUE]
  /\ kernel' = kernel \cup {"ctl"}
  /\ wire' = Append(wire, Event(op, "phase"))
  /\ UNCHANGED <<req, faults, losses, kills>>

(* Login or negotiation failed, or a cancel was seen at a phase boundary:  *)
(* the ledger is cleaned, the failure is published, the slot is freed.     *)
EstablishFails(op) ==
  /\ eng.up /\ eng.stage[op] \in {"spawned", "routed"}
  /\ op \in eng.cancel \/ MayFail
  /\ \E ok \in CleanupOutcome(eng) :
       /\ LET e == CompleteCleanup(eng, ok)
          IN  eng' = [e EXCEPT !.stage[op] = "over", !.attempt = None]
       /\ kernel' = KernelAfterCleanup(eng, kernel, ok)
       /\ faults' = faults + (IF ok THEN 0 ELSE 1)
                           + (IF op \in eng.cancel THEN 0 ELSE 1)
  /\ wire' = Append(wire, Event(op, "fail"))
  /\ UNCHANGED <<req, losses, kills>>

EstablishSucceeds(op) ==
  /\ eng.up /\ eng.stage[op] = "routed"
  /\ op \notin eng.cancel
  /\ eng' = [eng EXCEPT !.stage[op] = "agreed"]
  /\ UNCHANGED <<kernel, wire, req, faults, losses, kills>>

(***************************************************************************)
(* run_tunnel_pipeline up to its hold loop runs without an await: device   *)
(* (retained or new), address, routes, pumps, Connected, live slot.        *)
(***************************************************************************)
PipelineUp(op) ==
  /\ eng.up /\ eng.stage[op] = "agreed"
  /\ eng' = [eng EXCEPT !.stage[op] = "held", !.idle = FALSE, !.live = TRUE]
  /\ kernel' = kernel \cup {"utun", "biz"}
  /\ wire' = Append(wire, Event(op, "connected"))
  /\ UNCHANGED <<req, faults, losses, kills>>

(* A platform step fails: what was applied is rolled back in reverse; a    *)
(* route whose deletion fails too goes to the ledger.                      *)
PipelineFails(op) ==
  /\ eng.up /\ eng.stage[op] = "agreed" /\ MayFail
  /\ \E ok \in BOOLEAN :
       /\ ok \/ faults + 1 < MaxFaults
       /\ LET e == CompleteCleanup(eng, ok)
          IN  eng' = [e EXCEPT !.stage[op] = "failed", !.pending = @ \/ ~ok]
       /\ kernel' = IF ok THEN KernelAfterCleanup(eng, kernel, TRUE)
                          ELSE (kernel \ {"utun"}) \cup {"biz"}
       /\ faults' = faults + (IF ok THEN 1 ELSE 2)
  /\ UNCHANGED <<wire, req, losses, kills>>

(***************************************************************************)
(* The hold loop ends.  A cancelled or shut down pipeline drops its device *)
(* and cleans the ledger; a lost session whose routes are all gone keeps   *)
(* the idle device and the control route for a reconnect.                  *)
(***************************************************************************)
TeardownKept(op) ==
  /\ eng' = [eng EXCEPT !.stage[op] = "lost", !.idle = TRUE, !.done = TRUE,
                        !.live = FALSE, !.attempt = None]
  /\ kernel' = kernel \ {"biz"}
  /\ UNCHANGED faults

TeardownAll(op, stage) ==
  \E ok \in (IF MayFail THEN BOOLEAN ELSE {TRUE}) :
    /\ LET e == CompleteCleanup([eng EXCEPT !.pending = TRUE], ok)
       IN  eng' = [e EXCEPT !.stage[op] = stage, !.done = TRUE,
                            !.live = FALSE, !.attempt = None]
    /\ kernel' = KernelAfterCleanup([eng EXCEPT !.pending = TRUE], kernel, ok)
    /\ FaultIf(ok)

HoldCancelled(op) ==
  /\ eng.up /\ eng.stage[op] = "held"
  /\ op \in eng.cancel \/ eng.shutdown
  /\ TeardownAll(op, "over")
  /\ UNCHANGED <<wire, req, losses, kills>>

HoldLost(op) ==
  /\ eng.up /\ eng.stage[op] = "held"
  /\ op \notin eng.cancel /\ ~eng.shutdown
  /\ MayLose
  /\ losses' = losses + 1
  /\ \/ TeardownKept(op)
     \/ MayFail /\ TeardownAll(op, "lost")
  /\ UNCHANGED <<wire, req, kills>>

ReportOutcomeSilently(op) ==
  /\ eng.up /\ eng.stage[op] \in {"lost", "failed"}
  /\ eng' = [eng EXCEPT !.stage[op] = "over", !.attempt = None]
  /\ UNCHANGED <<wire, kernel, req, faults, losses, kills>>

(* The task that awaited the pipeline wakes: it publishes the outcome and  *)
(* empties the attempt slot once more.                                     *)
ReportOutcome(op) ==
  /\ eng.up /\ eng.stage[op] \in {"lost", "failed"}
  /\ eng' = [eng EXCEPT !.stage[op] = "over", !.attempt = None]
  /\ wire' = Append(wire, Event(op, IF eng.stage[op] = "lost"
                                      THEN "lost" ELSE "fail"))
  /\ UNCHANGED <<kernel, req, faults, losses, kills>>
-----------------------------------------------------------------------------
(***************************************************************************)
(* StopTunnel cancels whatever is in the slot, polls until the pipeline is *)
(* gone, cleans the ledger, and only then replies Stopped.  The poll       *)
(* sleeps; a task already woken by its pipeline runs first.                *)
(***************************************************************************)
StopTunnel ==
  /\ eng.up /\ req.k = "stop"
  /\ eng' = [eng EXCEPT !.stopper = req.t, !.cancel = @ \cup ({eng.attempt} \ {None})]
  /\ req' = NoRequest
  /\ UNCHANGED <<kernel, wire, faults, losses, kills>>

StopCompletes ==
  /\ eng.up /\ eng.stopper # None
  /\ Cleared(eng) /\ Reported(eng)
  /\ \E ok \in CleanupOutcome(eng) :
       /\ eng' = [CompleteCleanup(eng, ok) EXCEPT !.stopper = None]
       /\ kernel' = KernelAfterCleanup(eng, kernel, ok)
       /\ FaultIf(ok)
       /\ wire' = Append(wire, Reply(eng.stopper, IF ok THEN "stopped" ELSE "error"))
  /\ UNCHANGED <<req, losses, kills>>

(* The ten-second bound passed with the pipeline still in the slot.        *)
StopTimesOut ==
  /\ eng.up /\ eng.stopper # None /\ ~Cleared(eng) /\ MayFail
  /\ eng' = [eng EXCEPT !.stopper = None]
  /\ wire' = Append(wire, Reply(eng.stopper, "error"))
  /\ faults' = faults + 1
  /\ UNCHANGED <<kernel, req, losses, kills>>
-----------------------------------------------------------------------------
(* Exit convergence, common to every trigger: flag the pipeline down and   *)
(* cancel the attempt in the slot ...                                      *)
Converge ==
  eng' = [eng EXCEPT !.converging = TRUE, !.shutdown = TRUE,
                     !.cancel = @ \cup ({eng.attempt} \ {None})]

(* ... on SIGTERM or an explicit Shutdown.                                 *)
ConvergeOnSignal ==
  /\ eng.up /\ ~eng.converging /\ MayKill
  /\ Converge
  /\ kills' = kills + 1
  /\ UNCHANGED <<kernel, wire, req, faults, losses>>

(* The teardown is confirmed: the ledger is cleaned and the session ends.  *)
ConvergeCompletes ==
  /\ eng.up /\ eng.converging
  /\ Cleared(eng) \/ eng.done
  /\ \E ok \in CleanupOutcome(eng) :
       /\ kernel' = KernelAfterCleanup(eng, kernel, ok)
       /\ FaultIf(ok)
  /\ eng' = Down(eng)
  /\ wire' = Append(wire, EndOfFile(eng.id))
  /\ req' = NoRequest
  /\ UNCHANGED <<losses, kills>>

(* The ten-second bound passed: the session ends unconfirmed.  A one-shot  *)
(* process takes its device along.                                         *)
ConvergeTimesOut ==
  /\ eng.up /\ eng.converging /\ ~Cleared(eng) /\ ~eng.done /\ MayFail
  /\ eng.form = "oneshot"
  /\ eng' = Down(eng)
  /\ kernel' = kernel \ {"utun", "biz"}
  /\ faults' = faults + 1
  /\ wire' = Append(wire, EndOfFile(eng.id))
  /\ req' = NoRequest
  /\ UNCHANGED <<losses, kills>>

(* The Engine is killed: its device, and the routes on it, go with the     *)
(* process; the pinned route to the gateway stays in the system.           *)
EngineCrash ==
  /\ eng.up /\ MayKill
  /\ eng' = Down(eng)
  /\ kernel' = kernel \ {"utun", "biz"}
  /\ wire' = Append(wire, EndOfFile(eng.id))
  /\ req' = NoRequest
  /\ kills' = kills + 1
  /\ UNCHANGED <<faults, losses>>

EngineTask(op) ==
  \/ EnsureControlRoute(op)
  \/ EstablishFails(op)
  \/ EstablishSucceeds(op)
  \/ PipelineUp(op)
  \/ PipelineFails(op)
  \/ HoldCancelled(op)
  \/ HoldLost(op)
  \/ ReportOutcome(op)

EngineStep ==
  \/ ApplyTunnel
  \/ StopTunnel
  \/ StopCompletes
  \/ StopTimesOut
  \/ ConvergeOnSignal
  \/ ConvergeCompletes
  \/ ConvergeTimesOut
  \/ EngineCrash
  \/ \E op \in Ops : EngineTask(op)
=============================================================================
