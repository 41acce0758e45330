--------------------------- MODULE ServiceControl ---------------------------
(***************************************************************************)
(* The core's side of the Windows service: ServiceControl requests, which  *)
(* take service_control_lock, and the routing of a connect, which does     *)
(* not.  Whatever needs privileges runs in a batch: an elevated child      *)
(* process that carries out a list of steps against the SCM and service.key*)
(* and leaves a result file.  The core waits for it for 60 seconds and     *)
(* then terminates it; if the core dies, a watchdog in the child ends it.  *)
(*                                                                         *)
(* "ctl" is the ServiceControl request that holds the lock, "con" the      *)
(* connect that is being routed.                                           *)
(***************************************************************************)
EXTENDS Naturals, FiniteSets

-----------------------------------------------------------------------------
(***************************************************************************)
(* The privileged Windows engine as a process.                             *)
(*                                                                         *)
(* As a service it is started and stopped by the service control manager   *)
(* (SCM), serves the core over one named pipe with a bounded number of     *)
(* instances, and admits a peer that knows the key in service.key, which   *)
(* is read anew for every peer.  As a oneshot it is spawned by the core,   *)
(* serves that core alone, and is meant to end with it.                    *)
(*                                                                         *)
(* The SCM is external: it is modelled by the calls the code makes and the *)
(* error codes it handles (1056, 1060, 1061, 1062, 1072).                  *)
(***************************************************************************)

CONSTANTS
    Tasks,         \* the core's tasks that dial the service
    MaxInstances,  \* SERVICE_PIPE_MAX_INSTANCES
    MaxFaults      \* bound: crashes and native failures of the service

VARIABLES
    entry,     \* the SCM's entry: "absent", "stopped", "start" (pending), "running"
    marked,    \* the entry is marked for deletion
    restart,   \* the SCM owes the service a restart (its failure action)
    key,       \* service.key holds a key
    svc,       \* the service process: see SvcStates
    ready,     \* the control pipe's first instance exists
    stopSig,   \* the stop control has reached the service's watch channel
    conns,     \* connections the service serves
    linked,    \* one of them is the core's
    dial,      \* [Tasks -> what the task's dial has come to]
    sent,      \* [Tasks -> the key the task's dial has read is the one in the file]
    faults,    \* crashes and native failures so far
    one,       \* the oneshot engine: "none", "listen" (no peer yet), "serve"
    core       \* the core process: "up" or "down"

scmVars == <<entry, marked, restart>>
svcVars == <<svc, ready, stopSig, conns, linked, faults>>
dialVars == <<dial, sent>>
engineVars == <<scmVars, key, svcVars, dialVars, one, core>>

\* "boot": before the key is read; "bind": an instance of the pipe is being
\* created; "accept": it waits for a peer; "drain": the exit cleanup.
SvcStates == {"none", "boot", "bind", "accept", "drain"}

\* "knock": connected to the waiting instance, not yet challenged.
DialStates == {"none", "try", "knock", "open", "refused"}

EngineTypeOK ==
    /\ entry \in {"absent", "stopped", "start", "running"}
    /\ marked \in BOOLEAN /\ restart \in BOOLEAN
    /\ key \in BOOLEAN
    /\ svc \in SvcStates
    /\ ready \in BOOLEAN /\ stopSig \in BOOLEAN /\ linked \in BOOLEAN
    /\ conns \in 0 .. MaxInstances
    /\ dial \in [Tasks -> DialStates]
    /\ sent \in [Tasks -> BOOLEAN]
    /\ faults \in 0 .. MaxFaults
    /\ one \in {"none", "listen", "serve"}
    /\ core \in {"up", "down"}

\* A machine without the service; one with it, which someone has stopped; or
\* one that has just booted and starts it (SERVICE_AUTO_START).
EngineInit ==
    /\ \/ entry = "absent" /\ svc = "none" /\ key = FALSE
       \/ entry = "stopped" /\ svc = "none" /\ key = TRUE
       \/ entry = "start" /\ svc = "boot" /\ key = TRUE
    /\ marked = FALSE /\ restart = FALSE
    /\ ready = FALSE /\ stopSig = FALSE
    /\ conns = 0 /\ linked = FALSE /\ faults = 0
    /\ dial = [t \in Tasks |-> "none"] /\ sent = [t \in Tasks |-> FALSE]
    /\ one = "none" /\ core = "up"

-----------------------------------------------------------------------------
(* The SCM. *)

\* The SCM runs the service's program: StartPending until it says otherwise.
ScmStarts ==
    /\ entry' = "start"
    /\ svc' = "boot"
    /\ UNCHANGED <<marked, ready, stopSig, conns, linked, faults>>

\* The failure action: a service that died without reporting Stopped is
\* started again after a second.
ScmRestarts ==
    /\ restart /\ entry = "stopped" /\ ~marked
    /\ ScmStarts
    /\ restart' = FALSE
    /\ UNCHANGED <<key, dialVars, one, core>>

\* A marked entry goes when the service is stopped and the last handle is
\* closed: the batches' own, and any that another program (services.msc) holds,
\* for as long as it likes.
ScmReaps(handles) ==
    /\ marked /\ entry = "stopped" /\ ~handles
    /\ entry' = "absent" /\ marked' = FALSE /\ restart' = FALSE
    /\ UNCHANGED <<key, svcVars, dialVars, one, core>>

-----------------------------------------------------------------------------
(* The service process. *)

\* What the peers see when the process ends: every pipe handle is closed.
Hangup == dial' = [t \in Tasks |-> IF dial[t] \in {"knock", "open"} THEN "refused" ELSE dial[t]]

Ends ==
    /\ svc' = "none" /\ ready' = FALSE /\ stopSig' = FALSE
    /\ conns' = 0 /\ linked' = FALSE
    /\ entry' = "stopped"
    /\ Hangup

\* run_engine in service mode: no key, no service.
SvcBoots ==
    /\ svc = "boot"
    /\ IF ~key THEN /\ Ends
                       /\ UNCHANGED faults
                  ELSE /\ svc' = "bind"
                       /\ UNCHANGED <<entry, ready, stopSig, conns, linked, dial, faults>>
    /\ UNCHANGED <<marked, restart, key, sent, one, core>>

\* serve_one creates an instance; the first one makes the service ready.
SvcBinds ==
    /\ svc = "bind" /\ conns < MaxInstances
    /\ svc' = "accept" /\ ready' = TRUE
    /\ UNCHANGED <<scmVars, key, stopSig, conns, linked, faults, dialVars, one, core>>

\* Creation fails five times in a row: because all instances serve a
\* connection, or natively.  Before the first instance the failure is the
\* service's own; later the accept loop ends and the exit cleanup runs.
SvcBindFails ==
    /\ svc = "bind"
    /\ \/ conns = MaxInstances /\ UNCHANGED faults
       \/ faults < MaxFaults /\ faults' = faults + 1
    /\ IF ready THEN /\ svc' = "drain"
                     /\ UNCHANGED <<entry, ready, stopSig, conns, linked, dial>>
                ELSE Ends
    /\ UNCHANGED <<marked, restart, key, sent, one, core>>

\* run_service_main: Running, and the stop control accepted, once the pipe is there.
SvcReports ==
    /\ entry = "start" /\ ready
    /\ entry' = "running"
    /\ UNCHANGED <<marked, restart, key, svcVars, dialVars, one, core>>

\* A dial reaches the waiting instance.
SvcMeets(t) ==
    /\ svc = "accept" /\ dial[t] = "try"
    /\ \A u \in Tasks : dial[u] # "knock"
    /\ dial' = [dial EXCEPT ![t] = "knock"]
    /\ UNCHANGED <<scmVars, key, svcVars, sent, one, core>>

\* The peer is challenged with the key as the file has it now.  A peer that
\* fails, or a key that cannot be read, costs that peer its connection only;
\* a served peer moves to a task of its own.  Both times the loop goes on.
SvcChallenges(t) ==
    /\ svc = "accept" /\ dial[t] = "knock"
    /\ svc' = "bind"
    /\ IF key /\ sent[t]
         THEN /\ dial' = [dial EXCEPT ![t] = "open"]
              /\ conns' = conns + 1
         ELSE /\ dial' = [dial EXCEPT ![t] = "refused"]
              /\ UNCHANGED conns
    /\ UNCHANGED <<scmVars, key, ready, stopSig, linked, faults, sent, one, core>>

\* A connection whose client has closed it ends.
SvcCloses ==
    /\ conns > Cardinality({t \in Tasks : dial[t] = "open"}) + (IF linked THEN 1 ELSE 0)
    /\ conns' = conns - 1
    /\ UNCHANGED <<scmVars, key, svc, ready, stopSig, linked, faults, dialVars, one, core>>

\* The accept loop selects the stop signal, wherever serve_one stands.
SvcStops ==
    /\ stopSig /\ svc \in {"bind", "accept"}
    /\ svc' = "drain"
    /\ dial' = [t \in Tasks |-> IF dial[t] = "knock" THEN "refused" ELSE dial[t]]
    /\ UNCHANGED <<scmVars, key, ready, stopSig, conns, linked, faults, sent, one, core>>

\* service_exit_cleanup, then Stopped, then the process is gone.
SvcExits ==
    /\ svc = "drain"
    /\ Ends
    /\ UNCHANGED <<marked, restart, faults, key, sent, one, core>>

\* The process dies: the SCM notes a service that did not report Stopped.
SvcCrashes ==
    /\ svc # "none" /\ faults < MaxFaults
    /\ faults' = faults + 1
    /\ Ends
    /\ restart' = TRUE
    /\ UNCHANGED <<marked, key, sent, one, core>>

-----------------------------------------------------------------------------
(* The oneshot process. *)

\* Once it has its peer it watches the core's process and its heartbeat;
\* before that, serve_named_pipe waits for a peer and nothing else.
OneExits ==
    /\ one = "serve" /\ core = "down"
    /\ one' = "none"
    /\ UNCHANGED <<scmVars, key, svcVars, dialVars, core>>

-----------------------------------------------------------------------------

CONSTANTS
    MaxOps,      \* [Tasks -> bound: requests of each kind]
    CoreDeaths   \* bound: whether the core may die

VARIABLES
    op,        \* [Tasks -> the request being handled, "none" when idle]
    pc,        \* [Tasks -> where its handler stands]
    batch,     \* [Tasks -> the kind of the batch in hand]
    child,     \* [Tasks -> where the batch process stands]
    asked,     \* [Tasks -> the batch has asked the service to stop]
    spent,     \* [Tasks -> RepairBudget.spent]
    retried,   \* [Tasks -> the connect is in its second try at the service]
    scmOk,     \* [Tasks -> the SCM said Running in this tick]
    ops,       \* [Tasks -> requests so far]
    override,  \* service_removed_override
    mode,      \* selected_mode
    slot,      \* what the engine slot holds: "detached", "oneshot", "service"
    replyOk,   \* the last ServiceControl request was answered with ok
    repairs,   \* [Tasks -> repair batches of this request]
    crossed    \* a connect was being routed during the ServiceControl request

taskVars == <<op, pc, batch, child, asked, spent, retried, scmOk, ops, repairs, crossed>>
coreVars == <<override, mode, slot, replyOk>>
vars == <<engineVars, taskVars, coreVars>>

Ops == [ctl |-> {"install", "uninstall", "start", "rotate"}, con |-> {"connect"}]

\* A batch process that has not exited.
Alive(t) == child[t] \notin {"none", "ok", "fail"}

\* The batch processes that hold a handle to the SCM's entry.
Holding == \E t \in Tasks : child[t] \in {"stop", "config", "ustop", "delete"}

ControlTypeOK ==
    /\ op \in [Tasks -> {"none", "install", "uninstall", "start", "rotate", "connect"}]
    /\ pc \in [Tasks -> {"idle", "transit", "batch", "observe", "probe", "mend",
                         "route", "dial", "lease", "spawn", "meet"}]
    /\ batch \in [Tasks -> {"none", "install", "uninstall", "start", "rotate"}]
    /\ child \in [Tasks -> {"none", "ok", "fail", "create", "await", "stop", "config", "key",
                            "start", "verify", "open", "ustop", "delete", "wipe", "gone"}]
    /\ asked \in [Tasks -> BOOLEAN] /\ spent \in [Tasks -> BOOLEAN]
    /\ retried \in [Tasks -> BOOLEAN] /\ scmOk \in [Tasks -> BOOLEAN]
    /\ ops \in [Tasks -> Nat] /\ repairs \in [Tasks -> Nat] /\ crossed \in BOOLEAN
    /\ override \in BOOLEAN
    /\ mode \in {"auto", "service", "oneshot"}
    /\ slot \in {"detached", "oneshot", "service"}

\* The type invariant of the service's lifecycle.
TypeOK == EngineTypeOK /\ ControlTypeOK

Init ==
    /\ EngineInit
    /\ op = [t \in Tasks |-> "none"] /\ pc = [t \in Tasks |-> "idle"]
    /\ batch = [t \in Tasks |-> "none"] /\ child = [t \in Tasks |-> "none"]
    /\ asked = [t \in Tasks |-> FALSE] /\ spent = [t \in Tasks |-> FALSE]
    /\ retried = [t \in Tasks |-> FALSE] /\ scmOk = [t \in Tasks |-> FALSE]
    /\ ops = [t \in Tasks |-> 0] /\ repairs = [t \in Tasks |-> 0]
    /\ override = FALSE /\ mode = "auto" /\ slot = "detached"
    /\ replyOk = FALSE
    /\ crossed = FALSE

-----------------------------------------------------------------------------
(* The batch process: one step of it at a time. *)

\* The child goes on to where "to" says and touches only what it names.
ChildTo(t, to) ==
    /\ child' = [child EXCEPT ![t] = to]
    /\ UNCHANGED <<op, pc, batch, spent, retried, scmOk, ops, repairs, crossed, coreVars>>
    /\ UNCHANGED <<svc, ready, conns, linked, faults, dial, one, core, restart>>

\* install_service: create the entry, or repair the one that is there.
ChildCreates(t) ==
    /\ child[t] = "create"
    /\ CASE entry = "absent" -> ChildTo(t, "key") /\ entry' = "stopped"
         [] entry # "absent" /\ marked -> ChildTo(t, "await") /\ UNCHANGED entry
         [] OTHER -> ChildTo(t, "stop") /\ UNCHANGED entry
    /\ asked' = [asked EXCEPT ![t] = FALSE]
    /\ UNCHANGED <<marked, key, sent, stopSig>>

\* A marked entry: wait_service_removed, then one more try.
ChildAwaits(t) ==
    /\ child[t] = "await"
    /\ IF entry = "absent" THEN ChildTo(t, "key") /\ entry' = "stopped"
                           ELSE ChildTo(t, "fail") /\ UNCHANGED entry
    /\ UNCHANGED <<marked, key, sent, stopSig, asked>>

\* wait_for_service_stopped asks a running service to stop, in up to three
\* attempts while the SCM says 1061; it may be refused all three times.
ChildAsks(t) ==
    /\ child[t] \in {"stop", "ustop"} /\ entry = "running" /\ ~asked[t]
    /\ asked' = [asked EXCEPT ![t] = TRUE]
    /\ stopSig' \in {TRUE, stopSig}
    /\ ChildTo(t, child[t])
    /\ UNCHANGED <<entry, marked, key, sent>>

\* ... and waits, with a deadline, until the SCM says Stopped.
ChildSeesStopped(t) ==
    /\ child[t] \in {"stop", "ustop"}
    /\ IF entry = "stopped" THEN ChildTo(t, IF child[t] = "stop" THEN "config" ELSE "delete")
                            ELSE ChildTo(t, "fail")
    /\ UNCHANGED <<entry, marked, key, sent, stopSig, asked>>

\* change_config refuses an entry that was marked in the meantime.
ChildConfigures(t) ==
    /\ child[t] = "config"
    /\ ChildTo(t, IF marked THEN "fail" ELSE "key")
    /\ UNCHANGED <<entry, marked, key, sent, stopSig, asked>>

\* The file's content changes: nobody has read the new one yet.
KeyBecomes(there) == key' = there /\ sent' = [t \in Tasks |-> FALSE]

\* write_service_psk: a fresh key replaces whatever the file held.
ChildWritesKey(t) ==
    /\ child[t] = "key"
    /\ \/ /\ KeyBecomes(TRUE)
          /\ ChildTo(t, IF batch[t] = "rotate" THEN "verify" ELSE "start")
       \/ /\ ChildTo(t, "fail")
          /\ UNCHANGED <<key, sent>>
    /\ UNCHANGED <<entry, marked, stopSig, asked>>

\* start_service: a service that runs already (1056) is fine; an entry that is
\* absent (1060) or marked (1072) is not.
ChildStarts(t) ==
    /\ child[t] = "start"
    /\ child' = [child EXCEPT ![t] = IF entry = "absent" \/ (marked /\ entry = "stopped")
                                       THEN "fail" ELSE "verify"]
    /\ IF entry = "stopped" /\ ~marked THEN ScmStarts
                                       ELSE UNCHANGED <<entry, svcVars, marked>>
    /\ UNCHANGED <<restart, key, dialVars, one, core>>
    /\ UNCHANGED <<op, pc, batch, asked, spent, retried, scmOk, ops, repairs, crossed, coreVars>>

\* verify_service_ready polls the SCM for Running, with a deadline.
ChildVerifies(t) ==
    /\ child[t] = "verify"
    /\ ChildTo(t, IF entry = "running" THEN "ok" ELSE "fail")
    /\ UNCHANGED <<entry, marked, key, sent, stopSig, asked>>

\* uninstall_service: nothing to stop or delete when there is no entry.
ChildOpens(t) ==
    /\ child[t] = "open"
    /\ asked' = [asked EXCEPT ![t] = FALSE]
    /\ ChildTo(t, IF entry = "absent" THEN "wipe" ELSE "ustop")
    /\ UNCHANGED <<entry, marked, key, sent, stopSig>>

\* DeleteService marks the entry; on a marked one it fails (1072).
ChildDeletes(t) ==
    /\ child[t] = "delete"
    /\ marked' = TRUE
    /\ ChildTo(t, IF marked THEN "fail" ELSE "wipe")
    /\ UNCHANGED <<entry, key, sent, stopSig, asked>>

\* uninstall_cleanup: wait_service_removed, whatever comes of it, then
\* delete_service_psk.
ChildWipes(t) ==
    /\ child[t] = "wipe"
    /\ \/ KeyBecomes(FALSE) /\ ChildTo(t, "gone")
       \/ key /\ ChildTo(t, "fail") /\ UNCHANGED <<key, sent>>
    /\ UNCHANGED <<entry, marked, stopSig, asked>>

\* verify_service_removed.
ChildChecksGone(t) ==
    /\ child[t] = "gone"
    /\ ChildTo(t, IF entry = "absent" THEN "ok" ELSE "fail")
    /\ UNCHANGED <<entry, marked, key, sent, stopSig, asked>>

\* orphan_watchdog_body: the core is gone, the batch has not completed.
WatchdogEnds(t) ==
    /\ core = "down" /\ Alive(t)
    /\ ChildTo(t, "none")
    /\ UNCHANGED <<entry, marked, key, sent, stopSig, asked>>

ChildSteps(t) ==
    \/ ChildCreates(t) \/ ChildAwaits(t) \/ ChildAsks(t) \/ ChildSeesStopped(t)
    \/ ChildConfigures(t) \/ ChildWritesKey(t) \/ ChildStarts(t) \/ ChildVerifies(t)
    \/ ChildOpens(t) \/ ChildDeletes(t) \/ ChildWipes(t)
    \/ ChildChecksGone(t) \/ WatchdogEnds(t)

-----------------------------------------------------------------------------
(* What the core sees. *)

\* query_service_status_snapshot: after an uninstall the entry's remains are
\* not reported; once they are gone the real state is.  The query may fail.
Snapshot(removed) == IF removed THEN "absent" ELSE entry
StillRemoved(removed) == removed /\ entry # "absent"
Queries(s) ==
    \/ s = Snapshot(override) /\ override' = StillRemoved(override)
    \/ s = "unknown" /\ UNCHANGED override

\* derive_health over the cheap facts of a snapshot.
Health(s) ==
    CASE s = "running" -> "Healthy"
      [] s \in {"stopped", "start"} -> "InstalledUnavailable"
      [] s = "absent" /\ key -> "PayloadOrphan"
      [] OTHER -> "NotInstalled"

-----------------------------------------------------------------------------
(* A request, from the core's point of view. *)

\* What the handler's frame held goes with it.
Forgets(t) ==
    /\ batch' = [batch EXCEPT ![t] = "none"]
    /\ asked' = [asked EXCEPT ![t] = FALSE] /\ scmOk' = [scmOk EXCEPT ![t] = FALSE]
    /\ spent' = [spent EXCEPT ![t] = FALSE] /\ retried' = [retried EXCEPT ![t] = FALSE]
    /\ repairs' = [repairs EXCEPT ![t] = 0] /\ crossed' = (crossed /\ t # "ctl")
    /\ UNCHANGED ops

Frees(t) ==
    /\ op' = [op EXCEPT ![t] = "none"]
    /\ pc' = [pc EXCEPT ![t] = "idle"]
    /\ child' = [child EXCEPT ![t] = "none"]
    /\ Forgets(t)
Done(t) == Frees(t) /\ UNCHANGED replyOk

\* A ServiceControl request is answered with the status as queried at its end.
Answers(t, good, removed) ==
    /\ Frees(t)
    /\ IF t = "ctl"
         THEN /\ override' = StillRemoved(removed)
              /\ replyOk' = good
         ELSE override' = removed /\ UNCHANGED replyOk

GoesTo(t, to) ==
    /\ pc' = [pc EXCEPT ![t] = to]
    /\ child' = [child EXCEPT ![t] = "none"]
    /\ UNCHANGED <<op, asked, ops, batch, spent, retried, scmOk, repairs, crossed, replyOk>>

\* spawn_batch: the elevated child starts, or the user refuses it.
FirstStep == [install |-> "create", uninstall |-> "open", start |-> "start", rotate |-> "key"]
Spawns(t, kind, wait) ==
    /\ batch' = [batch EXCEPT ![t] = kind]
    /\ child' \in {[child EXCEPT ![t] = FirstStep[kind]], [child EXCEPT ![t] = "fail"]}
    /\ pc' = [pc EXCEPT ![t] = wait]
    /\ UNCHANGED <<op, asked, ops, scmOk, crossed, replyOk>>

\* RepairBudget.try_spend, then the install batch.
Repairs(t, wait, again) ==
    /\ ~spent[t]
    /\ spent' = [spent EXCEPT ![t] = TRUE]
    /\ repairs' = [repairs EXCEPT ![t] = @ + 1]
    /\ retried' = [retried EXCEPT ![t] = again]
    /\ Spawns(t, "install", wait)

\* ensure_service_ready has failed: one repair, if the request may.
NotReady(t) ==
    IF op[t] \in {"start", "connect"} /\ ~spent[t]
      THEN Repairs(t, "batch", retried[t]) /\ UNCHANGED override
      ELSE Answers(t, FALSE, override)

\* wait_for_service_ready, one tick: what the SCM says now, then a probe that
\* reads the key and dials the pipe.
TickBegins(t) ==
    /\ scmOk' = [scmOk EXCEPT ![t] = (entry = "running")]
    /\ dial' = [dial EXCEPT ![t] = IF key THEN "try" ELSE "refused"]
    /\ sent' = [sent EXCEPT ![t] = key]
    /\ pc' = [pc EXCEPT ![t] = "probe"]
    /\ child' = [child EXCEPT ![t] = "none"]
    /\ UNCHANGED <<op, batch, asked, spent, retried, ops, repairs, crossed, replyOk>>

\* A request comes in.  ServiceControl requests wait for the lock; a connect
\* that is being routed holds none.
Begin(t) ==
    /\ core = "up" /\ pc[t] = "idle" /\ ops[t] < MaxOps[t]
    /\ \E o \in Ops[t] :
          /\ op' = [op EXCEPT ![t] = o]
          /\ IF o = "rotate"
               THEN /\ batch' = [batch EXCEPT ![t] = "rotate"]
                    /\ child' \in {[child EXCEPT ![t] = FirstStep["rotate"]],
                                   [child EXCEPT ![t] = "fail"]}
                    /\ pc' = [pc EXCEPT ![t] = "batch"]
               ELSE /\ pc' = [pc EXCEPT ![t] = CASE o \in {"install", "uninstall"} -> "transit"
                                                 [] o = "start" -> "observe"
                                                 [] o = "connect" -> "route"]
                    /\ UNCHANGED <<batch, child>>
    /\ ops' = [ops EXCEPT ![t] = @ + 1]
    /\ crossed' = (crossed \/ \E u \in Tasks \ {t} : op[u] # "none")
    /\ UNCHANGED <<engineVars, asked, spent, retried, repairs, scmOk, coreVars>>

\* stop_engine_for_transition: the tunnel in hand is stopped, or the engine
\* says why not; then nobody keeps the oneshot engine alive any more.
Transits(t) ==
    /\ core = "up" /\ pc[t] = "transit"
    /\ \/ /\ mode' = "auto"
          /\ Spawns(t, op[t], "batch")
          /\ UNCHANGED <<spent, retried, repairs, override>>
       \/ /\ Answers(t, FALSE, override)
          /\ UNCHANGED mode
    /\ UNCHANGED <<engineVars, slot>>

\* Mutant: a batch that times out is left to itself.
BatchTimesOutAlive(t) ==
    /\ core = "up" /\ pc[t] \in {"batch", "mend"} /\ Alive(t)
    /\ op' = [op EXCEPT ![t] = "none"]
    /\ pc' = [pc EXCEPT ![t] = "idle"]
    /\ UNCHANGED <<engineVars, coreVars, batch, child, asked, spent, retried, scmOk, ops, repairs, crossed>>

\* The batch takes longer than SERVICE_BATCH_TIMEOUT_MS and is terminated.
BatchTimesOut(t) ==
    /\ core = "up" /\ pc[t] \in {"batch", "mend"} /\ Alive(t)
    /\ child' = [child EXCEPT ![t] = "fail"]
    /\ UNCHANGED <<engineVars, coreVars, op, pc, batch, asked, spent, retried, scmOk, ops, repairs, crossed>>

\* retire_oneshot_engine: its process is ended and the slot emptied.
Retires ==
    /\ one' = "none" /\ slot' = "detached" /\ linked' = FALSE
    /\ UNCHANGED <<scmVars, key, svc, ready, stopSig, conns, faults, dialVars, core>>

\* The install batch of an Install request is back.
InstallReturns(t) ==
    /\ op[t] = "install" /\ batch[t] = "install"
    /\ IF child[t] = "ok"
         THEN /\ override' = FALSE
              /\ Retires
              /\ GoesTo(t, "observe")
         ELSE /\ Answers(t, FALSE, override)
              /\ UNCHANGED <<engineVars, slot>>
    /\ UNCHANGED mode

\* The uninstall batch is back.
UninstallReturns(t) ==
    /\ op[t] = "uninstall"
    /\ Answers(t, child[t] = "ok", override \/ child[t] = "ok")
    /\ IF child[t] = "ok"
         THEN Retires /\ mode' = "oneshot"
         ELSE UNCHANGED <<engineVars, mode, slot>>

\* The rotate batch is back.
RotateReturns(t) ==
    /\ op[t] = "rotate"
    /\ Answers(t, child[t] = "ok", override)
    /\ UNCHANGED <<engineVars, mode, slot>>

\* The start batch of ensure_service_ready is back; a failed start does not
\* matter when the service runs after all.
StartReturns(t) ==
    /\ batch[t] = "start"
    /\ \/ /\ \/ child[t] = "ok" /\ UNCHANGED override
             \/ child[t] = "fail" /\ Queries("running")
          /\ TickBegins(t)
       \/ /\ child[t] = "fail"
          /\ NotReady(t)
          /\ UNCHANGED dialVars
    /\ UNCHANGED <<scmVars, key, svcVars, one, core, mode, slot>>

\* The repair batch is back: all over again, or give up.
RepairReturns(t) ==
    /\ op[t] \in {"start", "connect"} /\ batch[t] = "install"
    /\ IF child[t] = "ok"
         THEN /\ GoesTo(t, IF pc[t] = "mend" THEN "dial" ELSE "observe")
              /\ UNCHANGED override
         ELSE Answers(t, FALSE, override)
    /\ UNCHANGED <<engineVars, mode, slot>>

\* The core reads the result file: a batch succeeded if the result says so and
\* the exit code agrees.
BatchReturns(t) ==
    /\ core = "up" /\ pc[t] \in {"batch", "mend"} /\ child[t] \in {"ok", "fail"}
    /\ \/ InstallReturns(t) \/ UninstallReturns(t) \/ RotateReturns(t)
       \/ StartReturns(t) \/ RepairReturns(t)

\* ensure_service_ready looks at the SCM: a start is submitted unless the
\* service runs or is about to.
Observes(t) ==
    /\ core = "up" /\ pc[t] = "observe"
    /\ \E s \in {"absent", "stopped", "start", "running", "unknown"} :
          /\ Queries(s)
          /\ IF s \in {"absent", "stopped", "unknown"}
               THEN Spawns(t, "start", "batch") /\ UNCHANGED <<spent, retried, repairs, dialVars>>
               ELSE TickBegins(t)
    /\ UNCHANGED <<scmVars, key, svcVars, one, core, mode, slot>>

\* The tick is over without both facts, and there is time for another.
TicksAgain(t) ==
    /\ core = "up" /\ pc[t] = "probe" /\ ~(dial[t] = "open" /\ scmOk[t])
    /\ TickBegins(t)
    /\ UNCHANGED <<scmVars, key, svcVars, one, core, mode, slot, override>>

\* Both facts in one tick: ready.
BothFacts(t) ==
    /\ dial[t] = "open" /\ scmOk[t]
    /\ IF t = "con" THEN GoesTo(t, "dial") /\ UNCHANGED override
                    ELSE Answers(t, TRUE, override)

\* Mutant: the poll has no deadline.
TimeUpNever(t) ==
    /\ FALSE
    /\ NotReady(t)

\* The tick is over without both facts, and the time is up.
TimeUp(t) ==
    /\ ~(dial[t] = "open" /\ scmOk[t])
    /\ NotReady(t)

\* The poll ends.
Probed(t) ==
    /\ core = "up" /\ pc[t] = "probe"
    /\ dial' = [dial EXCEPT ![t] = "none"] /\ sent' = [sent EXCEPT ![t] = FALSE]
    /\ BothFacts(t) \/ TimeUp(t)
    /\ UNCHANGED <<scmVars, key, svcVars, one, core, mode, slot>>

-----------------------------------------------------------------------------
(* The routing of a connect. *)

\* slot_engine_alive, and the reuse test of ensure_service_engine.
SlotAlive == (slot = "service" /\ linked) \/ (slot = "oneshot" /\ one = "serve")

\* route_connect: a running service is dialled, one that does not run is
\* started first, and without one (or without an answer from the SCM) the
\* oneshot engine is used, which may be there already.
Routes(t) ==
    /\ core = "up" /\ pc[t] = "route"
    /\ \E s \in {"absent", "stopped", "start", "running", "unknown"} :
          /\ Queries(s)
          /\ CASE s = "running" -> GoesTo(t, "dial") /\ UNCHANGED mode
               [] s \in {"stopped", "start"} -> GoesTo(t, "observe") /\ UNCHANGED mode
               [] OTHER -> IF SlotAlive
                             THEN Done(t) /\ mode' = "oneshot"
                             ELSE GoesTo(t, "spawn") /\ UNCHANGED mode
    /\ UNCHANGED <<engineVars, slot>>

\* ensure_service_engine: the client in the slot is used again if it lives;
\* otherwise the key is read and the pipe dialled.
Dials(t) ==
    /\ core = "up" /\ pc[t] = "dial"
    /\ \/ /\ mode = "service" /\ SlotAlive
          /\ Answers(t, TRUE, override)
          /\ UNCHANGED dialVars
       \/ /\ ~(mode = "service" /\ SlotAlive)
          /\ dial' = [dial EXCEPT ![t] = IF key THEN "try" ELSE "refused"]
          /\ sent' = [sent EXCEPT ![t] = key]
          /\ GoesTo(t, "lease")
          /\ UNCHANGED override
    /\ UNCHANGED <<scmVars, key, svcVars, one, core, mode, slot>>

\* The service is reached and grants the owner lease: it takes the slot.
Leases(t) ==
    /\ core = "up" /\ pc[t] = "lease" /\ dial[t] = "open"
    /\ dial' = [dial EXCEPT ![t] = "none"] /\ sent' = [sent EXCEPT ![t] = FALSE]
    /\ linked' = TRUE /\ slot' = "service" /\ mode' = "service"
    /\ Answers(t, TRUE, override)
    /\ UNCHANGED <<scmVars, key, svc, ready, stopSig, conns, faults, one, core>>

\* Three attempts have failed: at the pipe, at the challenge or at the lease.
\* connect_service_engine_with_bootstrap_retry starts a service that is
\* installed and does not run, and repairs one that does.
DialFails(t) ==
    /\ core = "up" /\ pc[t] = "lease" /\ dial[t] # "knock"
    /\ dial' = [dial EXCEPT ![t] = "none"] /\ sent' = [sent EXCEPT ![t] = FALSE]
    /\ IF retried[t]
         THEN Answers(t, FALSE, override)
         ELSE \E s \in {"absent", "stopped", "start", "running", "unknown"} :
                /\ Queries(s)
                /\ CASE s \in {"stopped", "start"} ->
                           /\ retried' = [retried EXCEPT ![t] = TRUE]
                           /\ pc' = [pc EXCEPT ![t] = "observe"]
                           /\ UNCHANGED <<op, asked, ops, batch, spent, scmOk, repairs, crossed,
                                          replyOk, child>>
                     [] s \notin {"stopped", "start"} /\ ~spent[t] -> Repairs(t, "mend", TRUE)
                     [] OTHER -> Done(t)
    /\ UNCHANGED <<scmVars, key, svcVars, one, core, mode, slot>>

\* provision: the old child is ended, and the elevated engine spawned.
Provisions(t) ==
    /\ core = "up" /\ pc[t] = "spawn"
    /\ \/ one' = "listen" /\ GoesTo(t, "meet") /\ UNCHANGED override
       \/ one' = "none" /\ Answers(t, FALSE, override)
    /\ UNCHANGED <<scmVars, key, svcVars, dialVars, core, mode, slot>>

\* connect_with_ready_wait: the engine is met on its pipe and takes the slot,
\* or it is terminated.
Meets(t) ==
    /\ core = "up" /\ pc[t] = "meet"
    /\ \/ /\ one = "listen"
          /\ one' = "serve" /\ slot' = "oneshot" /\ mode' = "oneshot" /\ linked' = FALSE
          /\ Answers(t, TRUE, override)
       \/ /\ one' = "none"
          /\ Answers(t, FALSE, override)
          /\ UNCHANGED <<slot, mode, linked>>
    /\ UNCHANGED <<scmVars, key, svc, ready, stopSig, conns, faults, dialVars, core>>

-----------------------------------------------------------------------------

\* The oneshot engine has had no KeepAlive for 15 seconds: the ticker sends
\* one in the oneshot mode only.
OneStarves ==
    /\ one = "serve" /\ mode # "oneshot"
    /\ one' = "none"
    /\ UNCHANGED <<scmVars, key, svcVars, dialVars, core, taskVars, coreVars>>

\* The core process ends, at any point of what it is doing.
CoreDies ==
    /\ core = "up" /\ CoreDeaths
    /\ core' = "down"
    /\ op' = [t \in Tasks |-> "none"] /\ pc' = [t \in Tasks |-> "idle"]
    /\ dial' = [t \in Tasks |-> "none"] /\ linked' = FALSE
    /\ override' = FALSE /\ mode' = "auto" /\ slot' = "detached"
    /\ spent' = [t \in Tasks |-> FALSE] /\ retried' = [t \in Tasks |-> FALSE]
    /\ scmOk' = [t \in Tasks |-> FALSE] /\ sent' = [t \in Tasks |-> FALSE]
    /\ repairs' = [t \in Tasks |-> 0] /\ crossed' = FALSE
    /\ UNCHANGED <<scmVars, key, svc, ready, stopSig, conns, faults, one>>
    /\ batch' = [t \in Tasks |-> IF Alive(t) THEN batch[t] ELSE "none"]
    /\ child' = [t \in Tasks |-> IF Alive(t) THEN child[t] ELSE "none"]
    /\ replyOk' = FALSE /\ ops' = [t \in Tasks |-> 0]
    /\ UNCHANGED asked

SvcSteps ==
    \/ SvcBoots \/ SvcBinds \/ SvcBindFails \/ SvcReports \/ SvcCloses \/ SvcStops \/ SvcExits
    \/ \E t \in Tasks : SvcMeets(t) \/ SvcChallenges(t)

TaskSteps(t) ==
    \/ Transits(t) \/ BatchReturns(t) \/ Observes(t) \/ Probed(t)
    \/ Routes(t) \/ Dials(t) \/ Leases(t) \/ DialFails(t) \/ Provisions(t) \/ Meets(t)

EngineSteps == SvcSteps \/ ScmRestarts \/ ScmReaps(Holding) \/ SvcCrashes \/ OneExits

Next ==
    \/ EngineSteps /\ UNCHANGED <<taskVars, coreVars>>
    \/ \E t \in Tasks : Begin(t) \/ TaskSteps(t) \/ TicksAgain(t) \/ BatchTimesOut(t) \/ ChildSteps(t)
    \/ OneStarves
    \/ CoreDies

Spec == Init /\ [][Next]_vars

\* The processes run: the service, the batch (whose every wait has a deadline)
\* and the core, whose readiness poll has one too.
EngineProgress == (SvcSteps \/ OneExits) /\ UNCHANGED <<taskVars, coreVars>>
CoreProgress == \E t \in Tasks : TaskSteps(t) \/ ChildSteps(t)

FairSpec == Spec /\ WF_vars(EngineProgress) /\ WF_vars(CoreProgress)

-----------------------------------------------------------------------------
(* Properties. *)

\* The SCM shows Running only while a process lives that has created the
\* control pipe: run_service_main reports Running after ControlPlaneReady, and
\* Stopped or death end it.
RunningIsServed == entry = "running" => svc # "none" /\ ready

\* A batch process runs only while its request waits for it: when the core
\* has answered, nothing elevated is still changing the SCM or the key, also
\* when the answer was a timeout (the dropped EngineChild terminates it).
BatchIsAwaited == core = "up" => \A t \in Tasks : Alive(t) => pc[t] \in {"batch", "mend"}

\* One request asks for elevation to repair the service at most once, whether
\* the bootstrap or the dial finds it broken (RepairBudget).
RepairOnce == \A t \in Tasks : repairs[t] <= 1

\* A ServiceControl request o is answered with ok.
AnswersOk(o) == op["ctl"] = o /\ op'["ctl"] = "none" /\ core' = "up" /\ replyOk'

\* What an ok says is so.  Uninstall: unless a connect crossed it, neither a
\* registered service nor its key is left (the status it carries says
\* NotInstalled, not PayloadOrphan).  Install and Start: in the last tick a
\* service process answered the probe and still serves the pipe.  Install:
\* unless a connect crossed it, the service is the only engine.
AnswerIsTrue ==
    /\ AnswersOk("uninstall") /\ ~crossed => Health(Snapshot(override')) = "NotInstalled"
    /\ AnswersOk("install") \/ AnswersOk("start") => ready /\ dial["ctl"] = "open"
    /\ AnswersOk("install") /\ ~crossed => one' = "none"

\* The accept loop ends only for the stop control, for want of an instance or
\* for a native failure, never for a peer that fails the challenge or for a
\* key that is missing or was rotated in between.
AcceptSurvives ==
    (svc \in {"bind", "accept"} /\ svc' \notin {"bind", "accept"})
      => stopSig \/ conns = MaxInstances \/ faults' > faults

\* A request that is not answered yet, or a stop control that the service has
\* taken and not yet obeyed.
Busy == (\E t \in Tasks : op[t] # "none") \/ stopSig

\* What heartbeat.rs says of the oneshot engine: without a heartbeat it ends
\* itself within 15 seconds of its start, whether or not a core ever came.
OneshotEndsWithCore == core = "down" ~> one = "none"
=============================================================================
