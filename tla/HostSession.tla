------------------------------ MODULE HostSession ------------------------------
(***************************************************************************)
(* The Windows core's connection session (exv-vpn-win32-host): Connect and *)
(* Stop requests (kernel_control_service.rs), the automatic reconnect      *)
(* worker, the status forwarder, the on-demand engine provisioner and the  *)
(* crash self-heal of the core's main loop, around the host composition    *)
(* and the engine slot.  An engine process is seen through its control     *)
(* connection: what it does inside is the subject of TunnelRuntime and     *)
(* HelperControl.  Statistics, logs, probes and credentials are left out;  *)
(* so are the service transitions of ServiceControl.                       *)
(***************************************************************************)
EXTENDS Naturals, Sequences, FiniteSets

CONSTANTS Connects,     \* Connect requests of the user
          Reconnects,   \* attempts of the reconnect worker
          Stops,        \* Stop requests of the user
          Forms,        \* engine forms a route may lead to: "service", "oneshot"
          AutoReconnect,\* the user's setting auto_reconnect
          MaxRetries,   \* its max_attempts, 0 for unlimited
          StreamSize,   \* queue of a status stream (64 in the code)
          MaxGen,       \* bound on the generations of the engine slot
          MaxFaults,    \* bound on crashes, lost tunnels and transport failures
          None

Attempts == Connects \cup Reconnects
Ops == Attempts \cup Stops

(* Request identifiers are fresh: a new one for each request, whoever made it. *)
SessionConstants ==
    /\ Connects \cap Reconnects = {} /\ Attempts \cap Stops = {}
    /\ None \notin Ops \cup Nat /\ "monitor" \notin Attempts \cup {None}
    /\ Forms \subseteq {"service", "oneshot"}
    /\ {MaxGen, MaxFaults, StreamSize} \subseteq Nat

Gens == 0 .. MaxGen
Service == 0            \* the process behind the service's pipe; 1 .. MaxGen are oneshot engines
Procs == 0 .. MaxGen

VARIABLES
    comp,    \* the host composition: phase, admission, teardown barrier, operation id
    disp,    \* connect_dispatch
    recon,   \* session policy, reconnect_active, reconnect_attempts, queued signals
    worker,  \* the reconnect worker
    slot,    \* EngineSlot: generation and process of each; selected_mode, the form routed to
    lock,    \* connect_route_lock, the supervisor's lock, the lock of each engine client
    sup,     \* the supervised oneshot process
    att,     \* status_attachment
    fw,      \* the status forwarder
    stream,  \* the status stream it reads
    eng,     \* the engine processes
    mon,     \* the core's main loop
    pc,      \* pc[o]: how far request o is
    tgt,     \* the slot generation request o works on
    cap,     \* cap[s]: the dispatch that stop s captured
    prov,    \* the process being provisioned and the operation found in flight
    heal,    \* the self-heal report shown to the user
    faults,  \* faults so far
    wanted,  \* the user's last request was a Connect (history)
    sent     \* attempts passed to an engine (history)

vars == <<comp, disp, recon, worker, slot, lock, sup, att, fw, stream, eng, mon,
          pc, tgt, cap, prov, heal, faults, wanted, sent>>

-------------------------------------------------------------------------------
(* The host composition.                                                   *)

Fresh == [phase |-> "Idle", open |-> TRUE, joined |-> {}, op |-> None]

Sides == {"control", "data"}

Admits(c) == c.open /\ c.phase \notin {"Stopping", "Reconciling"}

Connecting(c, op) == [c EXCEPT !.phase = IF Admits(c) THEN "Connecting" ELSE @, !.op = op]

Join(c, side) ==
    IF side \in c.joined \/ c.joined = Sides THEN c
    ELSE [c EXCEPT !.joined = @ \cup {side},
                   !.phase = IF c.joined \cup {side} = Sides THEN "Stopped" ELSE @]

Reopen(c) == IF c.phase = "Stopped" THEN [c EXCEPT !.phase = "Idle", !.open = TRUE] ELSE c

Disconnect(c, op) ==
    Join([c EXCEPT !.phase = "Stopping", !.open = FALSE, !.joined = {}, !.op = op], "control")

ConnectFailed(c) == IF c.phase = "Connecting" THEN [c EXCEPT !.phase = "Failed"] ELSE c

ConnectionLost(c) ==
    IF c.phase \in {"Connected", "Connecting"} THEN [c EXCEPT !.phase = "Failed"] ELSE c

LinkTerminal(c) ==
    [c EXCEPT !.open = FALSE,
              !.phase = IF @ \in {"Connecting", "Connected"} THEN "Reconciling" ELSE @]

SynthesizeDataJoin(c) == IF c.phase = "Stopping" THEN Join(c, "data") ELSE c

-------------------------------------------------------------------------------
(* Engine events as the host sees them.                                    *)

Event(kind, op) == [kind |-> kind, op |-> op]
NoEvent == Event("None", None)
Terminal == {"Failed", "Stopped", "Lost"}

Stale(c, e) == c.op # None /\ e.op # c.op

(* A Stopped nobody asked for is treated as a lost data plane.             *)
Normalize(c, e) ==
    IF c.phase = "Connected" /\ ~Stale(c, e) /\ e.kind = "Stopped"
    THEN Event("Lost", e.op) ELSE e

Ignored(c, e) == Stale(c, e) \/ (e.kind = "Connected" /\ c.phase = "Failed")

Handle(c, e) ==
    IF Ignored(c, e) THEN c
    ELSE CASE e.kind = "Connected" -> [c EXCEPT !.phase = "Connected"]
           [] e.kind = "Stopped"   -> Reopen(Join(c, "data"))
           [] OTHER                -> IF c.phase = "Connected" THEN ConnectionLost(c)
                                      ELSE ConnectFailed(c)

(* What a handled event does to the reconnect session.                     *)
Signalled(r, c, e) ==
    IF Ignored(c, e) THEN r
    ELSE [r EXCEPT !.active = FALSE,
                   !.attempts = IF e.kind = "Connected" THEN 0 ELSE @,
                   !.signals = IF e.kind = "Lost" THEN @ + 1 ELSE @]

-------------------------------------------------------------------------------
(* Engine processes and their status streams.                              *)

Process(live) == [alive |-> live, op |-> None, up |-> FALSE, late |-> None, latest |-> NoEvent]
NoStream == [proc |-> None, open |-> FALSE, q |-> <<>>]

ProcOf(g) == slot.link[g]
Alive(g) == ProcOf(g) # None /\ eng[ProcOf(g)].alive

(* Connected after a terminal event of the same operation is dropped.      *)
Suppressed(p, e) ==
    e.kind = "Connected" /\ eng[p].latest.op = e.op /\ eng[p].latest.kind \in Terminal

(* Process p changes to r and publishes e.                                 *)
PublishAs(p, r, e) ==
    IF Suppressed(p, e)
    THEN /\ eng' = [eng EXCEPT ![p] = r]
         /\ UNCHANGED stream
    ELSE /\ eng' = [eng EXCEPT ![p] = [r EXCEPT !.latest = e]]
         /\ stream' = IF stream.proc # p \/ ~stream.open THEN stream
                      ELSE IF Len(stream.q) < StreamSize
                           THEN [stream EXCEPT !.q = Append(@, e)]
                           ELSE [stream EXCEPT !.open = FALSE]

Fault == faults < MaxFaults /\ faults' = faults + 1

(* The assembly succeeds, fails, or ends after a stop cancelled it.        *)
EngineUp(p) ==
    /\ eng[p].alive /\ eng[p].op # None /\ ~eng[p].up
    /\ PublishAs(p, [eng[p] EXCEPT !.up = TRUE], Event("Connected", eng[p].op))
    /\ UNCHANGED <<comp, disp, recon, worker, slot, lock, sup, att, fw, mon, pc, tgt, cap,
                   prov, heal, faults, wanted, sent>>

EngineFails(p) ==
    /\ eng[p].alive /\ eng[p].op # None /\ ~eng[p].up
    /\ PublishAs(p, [eng[p] EXCEPT !.op = None], Event("Failed", eng[p].op))
    /\ UNCHANGED <<comp, disp, recon, worker, slot, lock, sup, att, fw, mon, pc, tgt, cap,
                   prov, heal, faults, wanted, sent>>

EngineCancelled(p) ==
    /\ eng[p].alive /\ eng[p].late # None
    /\ PublishAs(p, [eng[p] EXCEPT !.late = None], Event("Failed", eng[p].late))
    /\ UNCHANGED <<comp, disp, recon, worker, slot, lock, sup, att, fw, mon, pc, tgt, cap,
                   prov, heal, faults, wanted, sent>>

(* The data plane is lost; the engine reports a retryable failure.         *)
EngineDrops(p) ==
    /\ eng[p].alive /\ eng[p].up
    /\ Fault
    /\ PublishAs(p, [eng[p] EXCEPT !.op = None, !.up = FALSE], Event("Lost", eng[p].op))
    /\ UNCHANGED <<comp, disp, recon, worker, slot, lock, sup, att, fw, mon, pc, tgt, cap,
                   prov, heal, wanted, sent>>

(* The streams of a process end with it; what was queued may be lost.      *)
StreamAfterExit(p) ==
    IF stream.proc # p THEN {stream}
    ELSE {[stream EXCEPT !.open = FALSE, !.q = q] : q \in {<<>>, stream.q}}

EngineCrashes(p) ==
    /\ eng[p].alive
    /\ Fault
    /\ eng' = [eng EXCEPT ![p] = Process(FALSE)]
    /\ stream' \in StreamAfterExit(p)
    /\ UNCHANGED <<comp, disp, recon, worker, slot, lock, sup, att, fw, mon, pc, tgt, cap,
                   prov, heal, wanted, sent>>

(* The service manager restarts the service; its pipe keeps its name, so   *)
(* the host's client reaches the new process through the same slot.        *)
ServiceRestarts ==
    /\ "service" \in Forms /\ ~eng[Service].alive
    /\ eng' = [eng EXCEPT ![Service] = Process(TRUE)]
    /\ UNCHANGED <<comp, disp, recon, worker, slot, lock, sup, att, fw, stream, mon, pc, tgt,
                   cap, prov, heal, faults, wanted, sent>>

StreamBreaks ==
    /\ stream.open
    /\ Fault
    /\ stream' = [stream EXCEPT !.open = FALSE]
    /\ UNCHANGED <<comp, disp, recon, worker, slot, lock, sup, att, fw, eng, mon, pc, tgt, cap,
                   prov, heal, wanted, sent>>

-------------------------------------------------------------------------------
(* Connect requests and reconnect attempts: run_connect.                   *)

NoDispatch == [id |-> None, cancelled |-> FALSE, stopReq |-> FALSE]

Cancelled(a) == disp.id # a \/ disp.cancelled

Goto(o, l) == pc' = [pc EXCEPT ![o] = l]

Free(a) == lock' = [lock EXCEPT !.route = IF @ = a THEN None ELSE @]

FreeBoth(a) == lock' = [lock EXCEPT !.route = None, !.engine[tgt[a]] = None]

DispatchFresh(a) == [id |-> a, cancelled |-> FALSE, stopReq |-> FALSE]

(* The attempt becomes the current dispatch; whether a tunnel may need a   *)
(* stop is inherited from the dispatch it replaces.                        *)
Dispatch(a) == [id |-> a, cancelled |-> FALSE, stopReq |-> disp.stopReq]

Admitted(a) ==
    /\ Admits(comp)
    /\ comp' = Connecting(comp, a)
    /\ disp' = Dispatch(a)
    /\ heal' = "none"
    /\ Goto(a, "admitted")

Connect(a) ==
    /\ a \in Connects /\ pc[a] = "idle"
    /\ Admitted(a)
    /\ recon' = [recon EXCEPT !.policy = TRUE, !.attempts = 0, !.active = FALSE]
    /\ wanted' = TRUE
    /\ UNCHANGED <<worker, slot, lock, sup, att, fw, stream, eng, mon, tgt, cap, prov,
                   faults, sent>>

ConnectRefused(a) ==
    /\ a \in Connects /\ pc[a] = "idle" /\ ~Admits(comp)
    /\ Goto(a, "err")
    /\ wanted' = TRUE
    /\ UNCHANGED <<comp, disp, recon, worker, slot, lock, sup, att, fw, stream, eng, mon, tgt,
                   cap, prov, heal, faults, sent>>

(* Every wait of run_connect gives way to a cancel first.                  *)
ConnectCancelled(a) ==
    /\ pc[a] \in {"admitted", "routed", "gate"} /\ Cancelled(a)
    /\ Goto(a, "err")
    /\ Free(a)
    /\ UNCHANGED <<comp, disp, recon, worker, slot, sup, att, fw, stream, eng, mon, tgt, cap,
                   prov, heal, faults, wanted, sent>>

RouteLock(a) ==
    /\ pc[a] = "admitted" /\ ~Cancelled(a) /\ lock.route = None
    /\ lock' = [lock EXCEPT !.route = a]
    /\ Goto(a, "route")
    /\ UNCHANGED <<comp, disp, recon, worker, slot, sup, att, fw, stream, eng, mon, tgt, cap,
                   prov, heal, faults, wanted, sent>>

Swapped(p) == [slot EXCEPT !.gen = @ + 1, !.link[slot.gen + 1] = p]

(* The engine in the slot answers a lease request and is kept.             *)
RouteReuse(a, form) ==
    /\ pc[a] = "route" /\ form \in Forms
    /\ form = "service" => slot.mode = "service"
    /\ Alive(slot.gen) /\ lock.engine[slot.gen] = None
    /\ slot' = [slot EXCEPT !.form = form]
    /\ Goto(a, "routed")
    /\ UNCHANGED <<comp, disp, recon, worker, lock, sup, att, fw, stream, eng, mon, tgt, cap,
                   prov, heal, faults, wanted, sent>>

(* The service is started if need be, dialled, and put into the slot.      *)
RouteDial(a) ==
    /\ pc[a] = "route" /\ "service" \in Forms /\ slot.gen < MaxGen
    /\ IF slot.mode = "service" /\ Alive(slot.gen) THEN Fault ELSE UNCHANGED faults
    /\ eng' = IF eng[Service].alive THEN eng ELSE [eng EXCEPT ![Service] = Process(TRUE)]
    /\ slot' = [Swapped(Service) EXCEPT !.mode = "service", !.form = "service"]
    /\ att' = IF att.gen < slot.gen + 1 THEN [gen |-> slot.gen + 1, on |-> FALSE] ELSE att
    /\ Goto(a, "routed")
    /\ UNCHANGED <<comp, disp, recon, worker, lock, sup, fw, stream, mon, tgt, cap, prov,
                   heal, wanted, sent>>

(* EngineProvisioner::provision: the old process is ended, a new one is    *)
(* spawned and connected, the composition is rebuilt for it, and a connect *)
(* found in flight is put back before the slot is swapped.                 *)
Spare == {p \in Procs \ {Service} : ~eng[p].alive /\ \A g \in Gens : slot.link[g] # p}

NewProc == CHOOSE p \in Spare : TRUE

(* The supervised process, if any, is ended and another one is spawned.    *)
Replace ==
    /\ slot.gen < MaxGen /\ Spare # {}
    /\ prov' = [proc |-> NewProc, op |-> None]
    /\ eng' = [p \in Procs |-> IF p = NewProc THEN Process(TRUE)
                               ELSE IF p = sup THEN Process(FALSE) ELSE eng[p]]
    /\ stream' \in IF sup = None THEN {stream} ELSE StreamAfterExit(sup)

Provision(a) ==
    /\ pc[a] = "route" /\ "oneshot" \in Forms /\ lock.sup = None
    /\ IF Alive(slot.gen) THEN Fault ELSE UNCHANGED faults
    /\ lock' = [lock EXCEPT !.sup = a]
    /\ Replace
    /\ Goto(a, "spawned")
    /\ UNCHANGED <<comp, disp, recon, worker, slot, sup, att, fw, mon, tgt, cap, heal, wanted,
                   sent>>

(* The new process does not answer and is terminated.                      *)
ProvisionFails(a) ==
    /\ pc[a] = "spawned" /\ Fault
    /\ eng' = [eng EXCEPT ![prov.proc] = Process(FALSE)]
    /\ lock' = [lock EXCEPT !.sup = None, !.route = IF Cancelled(a) THEN None ELSE @]
    /\ Goto(a, IF Cancelled(a) THEN "err" ELSE "failing")
    /\ UNCHANGED <<comp, disp, recon, worker, slot, sup, att, fw, stream, mon, tgt, cap, prov,
                   heal, wanted, sent>>

ProvisionCapture(a) ==
    /\ pc[a] = "spawned"
    /\ prov' = [prov EXCEPT !.op = IF comp.phase = "Connecting" THEN comp.op ELSE None]
    /\ Goto(a, "captured")
    /\ UNCHANGED <<comp, disp, recon, worker, slot, lock, sup, att, fw, stream, eng, mon, tgt,
                   cap, heal, faults, wanted, sent>>

ProvisionRebind(a) ==
    /\ pc[a] = "captured"
    /\ comp' = Fresh
    /\ Goto(a, "rebound")
    /\ UNCHANGED <<disp, recon, worker, slot, lock, sup, att, fw, stream, eng, mon, tgt, cap,
                   prov, heal, faults, wanted, sent>>

ProvisionRestore(a) ==
    /\ pc[a] = "rebound"
    /\ comp' = IF prov.op = None THEN comp ELSE Connecting(comp, prov.op)
    /\ Goto(a, "restored")
    /\ UNCHANGED <<disp, recon, worker, slot, lock, sup, att, fw, stream, eng, mon, tgt, cap,
                   prov, heal, faults, wanted, sent>>

ProvisionSwap(a) ==
    /\ pc[a] = "restored"
    /\ slot' = [Swapped(prov.proc) EXCEPT !.form = "oneshot"]
    /\ sup' = prov.proc
    /\ lock' = [lock EXCEPT !.sup = None]
    /\ Goto(a, "routed")
    /\ UNCHANGED <<comp, disp, recon, worker, att, fw, stream, eng, mon, tgt, cap, prov, heal,
                   faults, wanted, sent>>

(* Starting, dialling or spawning failed.                                  *)
RouteFails(a) ==
    /\ pc[a] = "route" /\ Fault
    /\ Goto(a, IF Cancelled(a) THEN "err" ELSE "failing")
    /\ IF Cancelled(a) THEN Free(a) ELSE UNCHANGED lock
    /\ UNCHANGED <<comp, disp, recon, worker, slot, sup, att, fw, stream, eng, mon, tgt, cap,
                   prov, heal, wanted, sent>>

RouteTarget(a) ==
    /\ pc[a] = "routed" /\ ~Cancelled(a)
    /\ tgt' = [tgt EXCEPT ![a] = slot.gen]
    /\ slot' = [slot EXCEPT !.mode = slot.form]
    /\ Goto(a, "gate")
    /\ UNCHANGED <<comp, disp, recon, worker, lock, sup, att, fw, stream, eng, mon, cap,
                   prov, heal, faults, wanted, sent>>

(* No status stream in time, a newer generation, or a request that could   *)
(* not be prepared (credentials, lease).                                   *)
GateFails(a) ==
    /\ pc[a] = "gate" /\ ~Cancelled(a)
    /\ Goto(a, "failing")
    /\ UNCHANGED <<comp, disp, recon, worker, slot, lock, sup, att, fw, stream, eng, mon, tgt,
                   cap, prov, heal, faults, wanted, sent>>

(* before_apply: the last check, under the dispatch lock and with the      *)
(* engine client locked; from here on a stop must reach the engine.        *)
MayApply(a) ==
    ~Cancelled(a) /\ slot.gen = tgt[a] /\ att = [gen |-> tgt[a], on |-> TRUE]

(* The lock of an engine client is fair: a stop that waits for it goes     *)
(* first.                                                                  *)
FirstInQueue(a) == \A s \in Stops : pc[s] = "rpc" => tgt[s] # tgt[a]

BeforeApply(a) ==
    /\ pc[a] = "gate" /\ MayApply(a) /\ lock.engine[tgt[a]] = None /\ FirstInQueue(a)
    /\ lock' = [lock EXCEPT !.engine[tgt[a]] = a]
    /\ disp' = [disp EXCEPT !.stopReq = TRUE]
    /\ Goto(a, "apply")
    /\ UNCHANGED <<comp, recon, worker, slot, sup, att, fw, stream, eng, mon, tgt, cap,
                   prov, heal, faults, wanted, sent>>

(* ApplyTunnel.  An engine whose assembly runs, cancelled or not, refuses  *)
(* and reports Failed for the new operation; otherwise a live tunnel makes *)
(* way for it.                                                             *)
EngineApply(p, a) ==
    IF (eng[p].op # None /\ ~eng[p].up) \/ eng[p].late # None
    THEN PublishAs(p, eng[p], Event("Failed", a))
    ELSE /\ eng' = [eng EXCEPT ![p].op = a, ![p].up = FALSE]
         /\ UNCHANGED stream

Apply(a) ==
    /\ pc[a] = "apply" /\ Alive(tgt[a])
    /\ EngineApply(ProcOf(tgt[a]), a)
    /\ sent' = sent \cup {a}
    /\ \/ Goto(a, "ok") /\ FreeBoth(a) /\ UNCHANGED faults
       \/ Goto(a, "failing") /\ Fault /\ lock' = [lock EXCEPT !.engine[tgt[a]] = None]
    /\ UNCHANGED <<comp, disp, recon, worker, slot, sup, att, fw, mon, tgt, cap, prov,
                   heal, wanted>>

ApplyUnreachable(a) ==
    /\ pc[a] = "apply" /\ ~Alive(tgt[a])
    /\ lock' = [lock EXCEPT !.engine[tgt[a]] = None]
    /\ Goto(a, "failing")
    /\ UNCHANGED <<comp, disp, recon, worker, slot, sup, att, fw, stream, eng, mon, tgt, cap,
                   prov, heal, faults, wanted, sent>>

(* apply_connect_failed_for_route: only the current attempt may fail it.   *)
ReportFailure(a) ==
    /\ pc[a] = "failing"
    /\ comp' = IF Cancelled(a) THEN comp ELSE ConnectFailed(comp)
    /\ Goto(a, "err")
    /\ Free(a)
    /\ UNCHANGED <<disp, recon, worker, slot, sup, att, fw, stream, eng, mon, tgt, cap,
                   prov, heal, faults, wanted, sent>>

-------------------------------------------------------------------------------
(* Stop requests.                                                          *)

(* The current dispatch is cancelled and the reconnect session ends, in    *)
(* one step with the phase.                                                *)
StopAccept(s) ==
    /\ pc[s] = "idle"
    /\ disp' = [disp EXCEPT !.cancelled = disp.id # None]
    /\ cap' = [cap EXCEPT ![s] = disp.id]
    /\ recon' = [recon EXCEPT !.policy = FALSE, !.active = FALSE]
    /\ comp' = Disconnect(comp, s)
    /\ Goto(s, IF disp.id = None \/ disp.stopReq THEN "target" ELSE "local")
    /\ wanted' = FALSE
    /\ UNCHANGED <<worker, slot, lock, sup, att, fw, stream, eng, mon, tgt, prov, heal, faults,
                   sent>>

(* It waits for a status stream, in vain or not, and takes the engine.     *)
StopTarget(s) ==
    /\ pc[s] = "target"
    /\ tgt' = [tgt EXCEPT ![s] = slot.gen]
    /\ Goto(s, "rpc")
    /\ UNCHANGED <<comp, disp, recon, worker, slot, lock, sup, att, fw, stream, eng, mon, cap,
                   prov, heal, faults, wanted, sent>>

(* StopTunnel: an assembly is cancelled and ends later, a tunnel is taken  *)
(* down, and Idle is published under the stop's own operation.  The reply  *)
(* may get lost.                                                           *)
StopRpc(s) ==
    /\ pc[s] = "rpc" /\ lock.engine[tgt[s]] = None /\ Alive(tgt[s])
    /\ LET p == ProcOf(tgt[s])
           e == eng[p] IN
       PublishAs(p, [e EXCEPT !.op = None, !.up = FALSE,
                              !.late = IF e.op # None /\ ~e.up THEN e.op ELSE @],
                 Event("Stopped", s))
    /\ \/ Goto(s, "finish") /\ UNCHANGED faults
       \/ Goto(s, "err") /\ Fault
    /\ UNCHANGED <<comp, disp, recon, worker, slot, lock, sup, att, fw, mon, tgt, cap, prov,
                   heal, wanted, sent>>

StopUnreachable(s) ==
    /\ pc[s] = "rpc" /\ lock.engine[tgt[s]] = None /\ ~Alive(tgt[s])
    /\ Goto(s, "err")
    /\ UNCHANGED <<comp, disp, recon, worker, slot, lock, sup, att, fw, stream, eng, mon, tgt,
                   cap, prov, heal, faults, wanted, sent>>

StopFinishClosed(s) ==
    /\ pc[s] \in {"local", "finish"}
    /\ disp' = [disp EXCEPT !.stopReq = FALSE]
    /\ Goto(s, IF pc[s] = "local" THEN "cancelled" ELSE "ok")
    /\ UNCHANGED <<comp, recon, worker, slot, lock, sup, att, fw, stream, eng, mon, tgt, cap,
                   prov, heal, faults, wanted, sent>>

(* finish_local_stop, after the engine's answer or without an engine.      *)
StopFinish(s) ==
    /\ pc[s] \in {"local", "finish"}
    /\ IF disp.id = cap[s]
       THEN /\ disp' = [disp EXCEPT !.stopReq = FALSE]
            /\ comp' = Reopen(SynthesizeDataJoin(comp))
       ELSE UNCHANGED <<disp, comp>>
    /\ Goto(s, IF pc[s] = "local" THEN "cancelled" ELSE "ok")
    /\ UNCHANGED <<recon, worker, slot, lock, sup, att, fw, stream, eng, mon, tgt, cap, prov,
                   heal, faults, wanted, sent>>

-------------------------------------------------------------------------------
(* The reconnect worker: drive_reconnect.                                  *)

MayReconnect ==
    /\ ~recon.active /\ recon.policy /\ AutoReconnect
    /\ MaxRetries # 0 => recon.attempts < MaxRetries
    /\ disp.id # None /\ ~disp.cancelled

WorkerSkips ==
    /\ worker.pc = "idle" /\ recon.signals > 0 /\ ~MayReconnect
    /\ recon' = [recon EXCEPT !.signals = @ - 1]
    /\ UNCHANGED <<comp, disp, worker, slot, lock, sup, att, fw, stream, eng, mon, pc, tgt, cap,
                   prov, heal, faults, wanted, sent>>

(* The originating dispatch is read, then the attempt is announced; the    *)
(* backoff may follow.                                                     *)
WorkerTakes(a) ==
    /\ worker.pc = "idle" /\ recon.signals > 0 /\ MayReconnect
    /\ a \in Reconnects /\ pc[a] = "idle"
    /\ worker' = [pc |-> "taken", origin |-> disp.id, id |-> a]
    /\ recon' = [recon EXCEPT !.signals = @ - 1]
    /\ UNCHANGED <<comp, disp, slot, lock, sup, att, fw, stream, eng, mon, pc, tgt, cap, prov,
                   heal, faults, wanted, sent>>

WorkerArms ==
    /\ worker.pc = "taken"
    /\ worker' = [worker EXCEPT !.pc = "armed"]
    /\ recon' = [recon EXCEPT !.active = TRUE, !.attempts = @ + 1]
    /\ UNCHANGED <<comp, disp, slot, lock, sup, att, fw, stream, eng, mon, pc, tgt, cap, prov,
                   heal, faults, wanted, sent>>

AnySession == TRUE

(* The attempt is admitted only for the session it started from.           *)
SameSession == disp.id = worker.origin /\ ~disp.cancelled

WorkerConnects ==
    /\ worker.pc = "armed" /\ SameSession
    /\ Admitted(worker.id)
    /\ worker' = [worker EXCEPT !.pc = "running"]
    /\ UNCHANGED <<recon, slot, lock, sup, att, fw, stream, eng, mon, tgt, cap, prov, faults,
                   wanted, sent>>

WorkerSuperseded ==
    /\ worker.pc = "armed" /\ ~SameSession
    /\ worker' = [worker EXCEPT !.pc = "idle"]
    /\ UNCHANGED <<comp, disp, recon, slot, lock, sup, att, fw, stream, eng, mon, pc, tgt, cap,
                   prov, heal, faults, wanted, sent>>

WorkerRefused ==
    /\ worker.pc = "armed" /\ SameSession /\ ~Admits(comp)
    /\ worker' = [worker EXCEPT !.pc = "idle"]
    /\ recon' = [recon EXCEPT !.active = FALSE]
    /\ UNCHANGED <<comp, disp, slot, lock, sup, att, fw, stream, eng, mon, pc, tgt, cap, prov,
                   heal, faults, wanted, sent>>

WorkerReturns ==
    /\ worker.pc = "running" /\ pc[worker.id] \in {"ok", "err"}
    /\ worker' = [worker EXCEPT !.pc = "idle"]
    /\ recon' = [recon EXCEPT !.active = IF pc[worker.id] = "err" THEN FALSE ELSE @]
    /\ UNCHANGED <<comp, disp, slot, lock, sup, att, fw, stream, eng, mon, pc, tgt, cap, prov,
                   heal, faults, wanted, sent>>

-------------------------------------------------------------------------------
(* The status forwarder and GetSnapshot.                                   *)

Revoke == att' = IF att.gen = fw.gen THEN [att EXCEPT !.on = FALSE] ELSE att

ForwarderBegins ==
    /\ fw.pc = "begin"
    /\ fw' = [pc |-> "attach", gen |-> slot.gen]
    /\ att' = IF att.gen < slot.gen THEN [gen |-> slot.gen, on |-> FALSE] ELSE att
    /\ UNCHANGED <<comp, disp, recon, worker, slot, lock, sup, stream, eng, mon, pc, tgt, cap,
                   prov, heal, faults, wanted, sent>>

(* A new stream starts with the newest event of the engine, if any.        *)
ForwarderAttaches ==
    /\ fw.pc = "attach" /\ slot.gen = fw.gen
    /\ lock.engine[fw.gen] = None /\ Alive(fw.gen)
    /\ LET p == ProcOf(fw.gen) IN
       stream' = [proc |-> p, open |-> TRUE,
                  q |-> IF eng[p].latest = NoEvent THEN <<>> ELSE <<eng[p].latest>>]
    /\ att' = [gen |-> fw.gen, on |-> TRUE]
    /\ fw' = [fw EXCEPT !.pc = "live"]
    /\ UNCHANGED <<comp, disp, recon, worker, slot, lock, sup, eng, mon, pc, tgt, cap, prov,
                   heal, faults, wanted, sent>>

(* Without a stream the data plane counts as gone while a stop waits for it. *)
ForwarderRetries ==
    /\ slot.gen = fw.gen
    /\ Revoke
    /\ comp' = SynthesizeDataJoin(comp)
    /\ stream' = NoStream
    /\ fw' = [fw EXCEPT !.pc = "begin"]
    /\ UNCHANGED <<disp, recon, worker, slot, lock, sup, eng, mon, pc, tgt, cap, prov, heal,
                   wanted, sent>>

ForwarderRefused ==
    /\ fw.pc = "attach" /\ lock.engine[fw.gen] = None
    /\ IF Alive(fw.gen) THEN Fault ELSE UNCHANGED faults
    /\ ForwarderRetries

ForwarderEof ==
    /\ fw.pc = "live" /\ ~stream.open /\ stream.q = <<>>
    /\ UNCHANGED faults
    /\ ForwarderRetries

ForwarderSwapped ==
    /\ fw.pc \in {"attach", "live"} /\ slot.gen # fw.gen
    /\ fw' = [fw EXCEPT !.pc = "begin"]
    /\ stream' = NoStream
    /\ UNCHANGED <<comp, disp, recon, worker, slot, lock, sup, att, eng, mon, pc, tgt, cap,
                   prov, heal, faults, wanted, sent>>

ForwarderEvent ==
    /\ fw.pc = "live" /\ slot.gen = fw.gen /\ stream.q # <<>>
    /\ LET e == Normalize(comp, Head(stream.q)) IN
       /\ comp' = Handle(comp, e)
       /\ recon' = Signalled(recon, comp, e)
    /\ stream' = [stream EXCEPT !.q = Tail(@)]
    /\ UNCHANGED <<disp, worker, slot, lock, sup, att, fw, eng, mon, pc, tgt, cap, prov, heal,
                   faults, wanted, sent>>

(* GetSnapshot finds a Connected host on an engine that has no session.    *)
SnapshotFindsNoSession ==
    /\ comp.phase = "Connected" /\ Alive(slot.gen) /\ lock.engine[slot.gen] = None
    /\ eng[ProcOf(slot.gen)].latest = NoEvent
    /\ comp' = ConnectionLost(comp)
    /\ recon' = [recon EXCEPT !.signals = @ + 1]
    /\ UNCHANGED <<disp, worker, slot, lock, sup, att, fw, stream, eng, mon, pc, tgt, cap, prov,
                   heal, faults, wanted, sent>>

-------------------------------------------------------------------------------
(* The core's main loop: it watches one oneshot engine and replaces it     *)
(* when it dies during business.                                           *)

Busy == comp.phase \notin {"Idle", "Stopped"}

(* A swap of the slot makes an idle watch read the supervisor's liveness.  *)
MonitorSwap ==
    /\ mon.pc = "watch" /\ mon.seen # slot.gen /\ lock.sup = None
    /\ mon' = [mon EXCEPT !.seen = slot.gen, !.watch = IF @ = None THEN sup ELSE @]
    /\ UNCHANGED <<comp, disp, recon, worker, slot, lock, sup, att, fw, stream, eng, pc, tgt,
                   cap, prov, heal, faults, wanted, sent>>

MonitorDied == mon.pc = "watch" /\ mon.watch # None /\ ~eng[mon.watch].alive

MonitorGivesUp ==
    /\ MonitorDied /\ (slot.mode # "oneshot" \/ ~Busy)
    /\ comp' = IF Busy THEN LinkTerminal(comp) ELSE comp
    /\ mon' = [mon EXCEPT !.watch = None]
    /\ UNCHANGED <<disp, recon, worker, slot, lock, sup, att, fw, stream, eng, pc, tgt, cap,
                   prov, heal, faults, wanted, sent>>

Respawn ==
    /\ MonitorDied /\ slot.mode = "oneshot" /\ Busy /\ lock.sup = None
    /\ comp' = LinkTerminal(comp)
    /\ lock' = [lock EXCEPT !.sup = "monitor"]
    /\ Replace
    /\ heal' = "respawning"
    /\ mon' = [mon EXCEPT !.pc = "spawned"]
    /\ UNCHANGED <<disp, recon, worker, slot, sup, att, fw, pc, tgt, cap, faults, wanted, sent>>

(* Residue, a refused elevation, or no connection to the new process.      *)
RespawnFails ==
    /\ mon.pc = "spawned" /\ Fault
    /\ eng' = [eng EXCEPT ![prov.proc] = Process(FALSE)]
    /\ lock' = [lock EXCEPT !.sup = None]
    /\ heal' = "failed"
    /\ mon' = [mon EXCEPT !.pc = "watch", !.watch = None]
    /\ UNCHANGED <<comp, disp, recon, worker, slot, sup, att, fw, stream, pc, tgt, cap, prov,
                   wanted, sent>>

RespawnRebind ==
    /\ mon.pc = "spawned"
    /\ comp' = Fresh
    /\ mon' = [mon EXCEPT !.pc = "rebound"]
    /\ UNCHANGED <<disp, recon, worker, slot, lock, sup, att, fw, stream, eng, pc, tgt, cap,
                   prov, heal, faults, wanted, sent>>

RespawnSwap ==
    /\ mon.pc = "rebound" /\ slot.gen < MaxGen
    /\ slot' = Swapped(prov.proc)
    /\ sup' = prov.proc
    /\ lock' = [lock EXCEPT !.sup = None]
    /\ heal' = "succeeded"
    /\ mon' = [mon EXCEPT !.pc = "watch", !.watch = prov.proc]
    /\ UNCHANGED <<comp, disp, recon, worker, att, fw, stream, eng, pc, tgt, cap, prov, faults,
                   wanted, sent>>

-------------------------------------------------------------------------------
Init ==
    /\ comp = Fresh
    /\ disp = NoDispatch
    /\ recon = [policy |-> FALSE, active |-> FALSE, attempts |-> 0, signals |-> 0]
    /\ worker = [pc |-> "idle", origin |-> None, id |-> None]
    /\ slot = [gen |-> 0, link |-> [g \in Gens |-> None], mode |-> "auto", form |-> "auto"]
    /\ lock = [route |-> None, sup |-> None, engine |-> [g \in Gens |-> None]]
    /\ sup = None
    /\ att = [gen |-> 0, on |-> FALSE]
    /\ fw = [pc |-> "begin", gen |-> 0]
    /\ stream = NoStream
    /\ eng = [p \in Procs |-> Process(FALSE)]
    /\ mon = [pc |-> "watch", watch |-> None, seen |-> 0]
    /\ pc = [o \in Ops |-> "idle"]
    /\ tgt = [o \in Ops |-> 0]
    /\ cap = [s \in Stops |-> None]
    /\ prov = [proc |-> None, op |-> None]
    /\ heal = "none"
    /\ faults = 0
    /\ wanted = FALSE
    /\ sent = {}

(* What a request does once it is accepted.                                *)
AttemptStep(a) ==
    \/ ConnectCancelled(a) \/ RouteLock(a) \/ RouteDial(a) \/ RouteFails(a)
    \/ \E form \in Forms : RouteReuse(a, form)
    \/ Provision(a) \/ ProvisionFails(a) \/ ProvisionCapture(a)
    \/ ProvisionRebind(a) \/ ProvisionRestore(a) \/ ProvisionSwap(a)
    \/ RouteTarget(a) \/ GateFails(a) \/ BeforeApply(a)
    \/ Apply(a) \/ ApplyUnreachable(a) \/ ReportFailure(a)

StopStep(s) == StopTarget(s) \/ StopRpc(s) \/ StopUnreachable(s) \/ StopFinish(s)

EngineStep(p) == EngineUp(p) \/ EngineFails(p) \/ EngineCancelled(p)

ForwarderStep ==
    \/ ForwarderBegins \/ ForwarderAttaches \/ ForwarderRefused
    \/ ForwarderEof \/ ForwarderSwapped \/ ForwarderEvent

WorkerStep ==
    \/ WorkerSkips \/ WorkerArms \/ WorkerConnects \/ WorkerSuperseded
    \/ WorkerRefused \/ WorkerReturns
    \/ \E a \in Reconnects : WorkerTakes(a)

MonitorStep ==
    \/ MonitorSwap \/ MonitorGivesUp \/ Respawn \/ RespawnFails
    \/ RespawnRebind \/ RespawnSwap

Next ==
    \/ \E a \in Connects : Connect(a) \/ ConnectRefused(a)
    \/ \E a \in Attempts : AttemptStep(a)
    \/ \E s \in Stops : StopAccept(s) \/ StopStep(s)
    \/ \E p \in Procs : EngineStep(p) \/ EngineDrops(p) \/ EngineCrashes(p)
    \/ ServiceRestarts \/ StreamBreaks
    \/ WorkerStep \/ ForwarderStep \/ MonitorStep \/ SnapshotFindsNoSession

Spec == Init /\ [][Next]_vars

(* Tasks that are not waiting for the user run on; the user interface asks *)
(* for snapshots again and again.                                          *)
Progress ==
    \/ \E a \in Attempts : AttemptStep(a)
    \/ \E s \in Stops : StopStep(s)
    \/ \E p \in Procs : EngineStep(p)
    \/ ForwarderStep \/ WorkerStep \/ MonitorStep \/ SnapshotFindsNoSession

-------------------------------------------------------------------------------
Phases == {"Idle", "Connecting", "Connected", "Failed", "Stopping", "Stopped", "Reconciling"}
Kinds == Terminal \cup {"Connected"}
Events == [kind : Kinds, op : Ops]

(* Every variable has its type; the queue of a status stream is bounded    *)
(* and a closed admission goes with every phase that a stop or a lost link *)
(* brings about.                                                           *)
TypeOK ==
    /\ comp \in [phase : Phases, open : BOOLEAN, joined : SUBSET Sides, op : Ops \cup {None}]
    /\ disp \in [id : Attempts \cup {None}, cancelled : BOOLEAN, stopReq : BOOLEAN]
    /\ recon.policy \in BOOLEAN /\ recon.active \in BOOLEAN
    /\ recon.attempts \in Nat /\ recon.signals \in Nat
    /\ worker \in [pc : {"idle", "taken", "armed", "running"},
                   origin : Attempts \cup {None}, id : Reconnects \cup {None}]
    /\ slot.gen \in Gens /\ slot.link \in [Gens -> Procs \cup {None}]
    /\ {slot.mode, slot.form} \subseteq {"auto", "service", "oneshot"}
    /\ lock.route \in Attempts \cup {None} /\ lock.sup \in Attempts \cup {None, "monitor"}
    /\ lock.engine \in [Gens -> Attempts \cup {None}]
    /\ att \in [gen : Gens, on : BOOLEAN] /\ fw \in [pc : {"begin", "attach", "live"}, gen : Gens]
    /\ stream.proc \in Procs \cup {None} /\ Len(stream.q) <= StreamSize
    /\ \A i \in 1 .. Len(stream.q) : stream.q[i] \in Events
    /\ eng \in [Procs -> [alive : BOOLEAN, op : Attempts \cup {None}, up : BOOLEAN,
                          late : Attempts \cup {None}, latest : Events \cup {NoEvent}]]
    /\ comp.phase \in {"Stopping", "Stopped", "Reconciling"} => ~comp.open
    /\ tgt \in [Ops -> Gens] /\ sent \subseteq Attempts /\ faults \in 0 .. MaxFaults

(* The process in the slot has been there since generation g.              *)
InSlotSince(g) == \A h \in g .. slot.gen : ProcOf(h) = ProcOf(slot.gen)

(* While the engine in the slot holds a tunnel or assembles one that was   *)
(* applied to it since it entered the slot, a stop will be sent to it:     *)
(* stop_required is set before ApplyTunnel leaves, is inherited by later   *)
(* dispatches, and is cleared only by a stop that the engine confirmed.    *)
ObligationKept ==
    LET a == eng[ProcOf(slot.gen)].op IN
    (Alive(slot.gen) /\ a # None /\ InSlotSince(tgt[a])) => disp.stopReq

Unapplied(a) == a \notin sent /\ pc[a] # "apply"

(* A Stop that returned without asking the engine is right for ever: the   *)
(* attempt it cancelled never reaches an engine, or the engine had already *)
(* confirmed an earlier Stop of that attempt.                              *)
LocalStopSound ==
    \A s \in Stops : (pc[s] \in {"local", "cancelled"} /\ cap[s] # None) =>
        \/ Unapplied(cap[s])
        \/ \E t \in Stops : pc[t] = "ok" /\ cap[t] = cap[s]

ConnectingStep == comp.phase # "Connecting" /\ comp'.phase = "Connecting" => wanted'
StoppingStep == comp.phase = "Stopping" => comp'.phase \in {"Stopping", "Stopped", "Idle"}

(* The host shows Connecting only after a request the user still stands    *)
(* by: neither a late reconnect nor a restored composition undoes a Stop.  *)
ConnectingIsWanted == [][ConnectingStep]_vars

(* A stop in progress that no engine has left unanswered: it is either on  *)
(* its way, or confirmed, or its engine is gone.                           *)
StopPending ==
    comp.phase = "Stopping" /\ ~(Alive(slot.gen) /\ \E s \in Stops : pc[s] = "err")

(* A host that shows Connected on an engine it can reach, which has no     *)
(* tunnel.                                                                 *)
Unreal == comp.phase = "Connected" /\ Alive(slot.gen) /\ ~eng[ProcOf(slot.gen)].up

=============================================================================
