------------------------------ MODULE MCSessions -----------------------------
(***************************************************************************)
(* The connection session of both platforms, one instance per behaviour:   *)
(* the Windows core with the engine as a service, the Windows core that    *)
(* may also start one-shot engines, and the macOS core over its Engine.    *)
(* `which` is chosen initially; the pool variables that the Windows core   *)
(* does not need stay unused.                                              *)
(***************************************************************************)
EXTENDS Naturals

CONSTANTS Nobody, c1, c2, r1, s1

VARIABLES which, v1, v2, v3, v4, v5, v6, v7, v8, v9, v10, v11, v12, v13, v14, v15,
          v16, v17, v18, v19, v20, v21, v22, v23, v24, v25, v26, v27

S == INSTANCE HostSession WITH
       comp <- v1, disp <- v2, recon <- v3, worker <- v4, slot <- v5, lock <- v6,
       sup <- v7, att <- v8, fw <- v9, stream <- v10, eng <- v11, mon <- v12,
       pc <- v13, tgt <- v14, cap <- v15, prov <- v16, heal <- v17, faults <- v18,
       wanted <- v19, sent <- v20,
       Connects <- {c1, c2}, Reconnects <- {r1}, Stops <- {s1}, Forms <- {"service"},
       AutoReconnect <- TRUE, None <- Nobody, MaxRetries <- 2, StreamSize <- 1,
       MaxGen <- 2, MaxFaults <- 1

F == INSTANCE HostSession WITH
       comp <- v1, disp <- v2, recon <- v3, worker <- v4, slot <- v5, lock <- v6,
       sup <- v7, att <- v8, fw <- v9, stream <- v10, eng <- v11, mon <- v12,
       pc <- v13, tgt <- v14, cap <- v15, prov <- v16, heal <- v17, faults <- v18,
       wanted <- v19, sent <- v20,
       Connects <- {c1}, Reconnects <- {r1}, Stops <- {s1}, Forms <- {"oneshot", "service"},
       AutoReconnect <- TRUE, None <- Nobody, MaxRetries <- 2, StreamSize <- 1,
       MaxGen <- 2, MaxFaults <- 2

D == INSTANCE DarwinSession WITH
       eng <- v1, kernel <- v2, wire <- v3, req <- v4, faults <- v5, losses <- v6,
       kills <- v7, gen <- v8, policy <- v9, attempts <- v10, active <- v11, ever <- v12,
       slot <- v13, ticker <- v14, lockq <- v15, run <- v16, task <- v17, proj <- v18,
       stats <- v19, ui <- v20, sig <- v21, cut <- v22, opened <- v23, minted <- v24,
       asleep <- v25, core <- v26, saved <- v27,
       Ops <- {"a", "b", "c"}, OpOrder <- <<"a", "b", "c">>, Calls <- {"u1", "u2"},
       OuterFirst <- TRUE, MaxFaults <- 1, MaxLosses <- 1, MaxKills <- 1,
       MaxTroubles <- 1, MaxExtras <- 1, MaxAttempts <- 1, MaxSessions <- 2

ASSUME HostAssumption == S!SessionConstants /\ F!SessionConstants

vars == <<which, v1, v2, v3, v4, v5, v6, v7, v8, v9, v10, v11, v12, v13, v14, v15,
          v16, v17, v18, v19, v20, v21, v22, v23, v24, v25, v26, v27>>
NotHost == <<which, v21, v22, v23, v24, v25, v26, v27>>

Service == which = "service"
Forms == which = "forms"
Darwin == which = "darwin"
Windows == Service \/ Forms

Unused == v21 = 0 /\ v22 = 0 /\ v23 = 0 /\ v24 = 0 /\ v25 = 0 /\ v26 = 0 /\ v27 = 0

Init ==
  \/ which = "service" /\ S!Init /\ Unused
  \/ which = "forms" /\ F!Init /\ Unused
  \/ which = "darwin" /\ D!Init

Next ==
  \/ Service /\ S!Next /\ UNCHANGED NotHost
  \/ Forms /\ F!Next /\ UNCHANGED NotHost
  \/ Darwin /\ D!Next /\ UNCHANGED which

Progress ==
  \/ Service /\ S!Progress /\ UNCHANGED NotHost
  \/ Forms /\ F!Progress /\ UNCHANGED NotHost
  \/ Darwin /\ D!Progress /\ UNCHANGED which

Spec == Init /\ [][Next]_vars /\ WF_vars(Progress)

(* A Stop reaches what it has to stop.  Windows: while the engine in the slot
   holds a tunnel, or assembles one, that was applied to it since it entered
   the slot, stop_required is set, so the next Stop goes to the engine; and a
   Stop that returned without asking the engine is right for ever: the attempt
   it cancelled never reaches one, or an engine had confirmed an earlier Stop
   of it.  macOS: a pipeline that runs is the one in the attempt slot, where
   StopTunnel looks for it.                                                 *)
ObligationKept ==
  /\ Service => S!ObligationKept /\ S!LocalStopSound
  /\ Forms => F!ObligationKept /\ F!LocalStopSound
  /\ Darwin => D!SlotHoldsPipeline

(* macOS: what is on show is so.  A settled state means that the Engine holds
   no pipeline, no route and no idle device; Connected, while the operation
   counts as live, means that the pipeline of that very operation is up or
   that the news of its end is on its way.                                  *)
ShownIsReal == Darwin => D!SettledIsClean /\ D!ConnectedIsReal

(* The Windows host leaves Stopping only for Stopped and Idle, whatever late
   events arrive; with the service as its engine it shows Connecting only
   after a request the user still stands by.                                *)
StopIsObeyed ==
  [][/\ Windows => S!StoppingStep
     /\ Service => S!ConnectingStep]_vars

Unsettled ==
  \/ Service /\ (S!StopPending \/ S!Unreal)
  \/ Forms /\ (F!StopPending \/ F!Unreal)
  \/ Darwin /\ (D!StopPending \/ D!ExitPending)

(* What has to come to an end does.  Stopping is left once the engine has
   confirmed or is gone for good, Connected without a tunnel is noticed, and
   when the macOS core ends its Engine ends and leaves nothing behind.      *)
SessionSettles == Unsettled ~> ~Unsettled
=============================================================================
