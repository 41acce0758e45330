---------------------------- MODULE DarwinSession ---------------------------
(***************************************************************************)
(* The connection owner of macOS Core (LiveConnectionProjection) over the  *)
(* Engine of DarwinEngine: the user's Connect and Stop, the automatic      *)
(* reconnect worker, the recovery after sleep, the switch that turns       *)
(* reconnecting off, and one status projection per operation.              *)
(*                                                                         *)
(* Core is single-threaded too: an action is the code between two await    *)
(* points.  The session slot is an asynchronous mutex held across the      *)
(* whole of a connect or a stop; `lockq` is its queue, the holder first.   *)
(* `task[t]` is the program counter and the locals of a handler, `proj[o]` *)
(* those of the projection of operation o.                                 *)
(***************************************************************************)
EXTENDS DarwinEngine

CONSTANTS
  OpOrder,        \* the order in which operation ids are minted
  Calls,          \* user requests (Connect or Stop)
  MaxExtras,      \* bound on sleep, change of the setting, close, crash of Core
  MaxAttempts,    \* the reconnect budget of the configuration
  MaxSessions     \* bound on Engine sessions opened

VARIABLES
  gen,       \* reconnect_generation
  policy,    \* reconnect_session_policy: none, on, off
  attempts, active, ever,
  slot,      \* the session in the slot, 0 for none
  ticker,    \* the session whose keepalive ticker runs, 0 for none
  lockq,
  run,       \* the handler that took a free mutex and has not yet awaited
  task, proj,
  stats,     \* LiveStatsState: live, connected, operation
  ui,        \* the current snapshot: state and operation
  sig,       \* generations queued for the reconnect worker
  cut,       \* sessions whose connection reached end of file
  opened,    \* sessions opened so far
  minted,    \* operations minted so far
  asleep,    \* what WillSleep remembered
  core,      \* is the Core process running
  saved      \* are credentials persisted (a reconnect reads only those)

lock == <<lockq, run>>
coreVars == <<gen, policy, attempts, active, ever, slot, ticker, lock, task, proj,
              stats, ui, sig, cut, opened, minted, asleep, core, saved>>
vars == <<engineVars, coreVars>>

(* The handlers: the user's calls, the reconnect worker, the recovery from *)
(* one sleep, one change of the setting, and the end of the UI session.    *)
Tasks == Calls \cup {"worker", "wake", "config", "close"}

Gone == [pc |-> "gone", gen |-> 0, op |-> None, new |-> FALSE, keep |-> FALSE]
Rest == [pc |-> "rest", gen |-> 0, op |-> None, new |-> FALSE, keep |-> FALSE]
NoProjection == [st |-> None, gen |-> 0, sess |-> 0]
Nothing == [live |-> TRUE, connected |-> FALSE, op |-> None]
Finished == [live |-> FALSE, connected |-> FALSE, op |-> None]
Show(st, op) == [st |-> st, op |-> op]

Init ==
  /\ eng \in {[FreshSession(0, f) EXCEPT !.up = FALSE] : f \in Form}
  /\ kernel = {} /\ wire = <<>> /\ req = NoRequest
  /\ faults = 0 /\ losses = 0 /\ kills = 0
  /\ gen = 0 /\ policy = None /\ attempts = 0 /\ active = FALSE /\ ever = FALSE
  /\ slot = 0 /\ ticker = 0 /\ lockq = <<>> /\ run = None
  /\ task = [t \in Tasks |-> Rest]
  /\ proj = [o \in Ops |-> NoProjection]
  /\ stats = Nothing /\ ui = Show("Idle", None)
  /\ sig = <<>> /\ cut = {} /\ opened = 0 /\ minted = 0
  /\ asleep = [gen |-> 0, op |-> None]
  /\ core = TRUE
  /\ saved \in BOOLEAN

MayExtra == Cardinality({t \in Tasks \ Calls : task[t].pc # "rest" /\ t # "worker"})
              < MaxExtras

(* A one-shot session is alive while its process is; a service session     *)
(* while the socket of the resident service exists.                        *)
IsAlive(s) == s # 0 /\ (eng.form = "service" \/ (s = eng.id /\ eng.up))
Reachable(s) == s = eng.id /\ eng.up
SamePid(s, t) == s # 0 /\ (eng.form = "service" \/ s = t)

Holds(x) == lockq # <<>> /\ Head(lockq) = x
Queue(x) ==
  /\ lockq' = Append(lockq, x)
  /\ run' = IF lockq = <<>> THEN x ELSE None
Granted == lockq' = lockq /\ run' = None
Unlock == lockq' = Tail(lockq) /\ run' = None
Return(t) == task' = [task EXCEPT ![t] = IF t = "worker" THEN Rest ELSE Gone]
Goto(t, pc) == task' = [task EXCEPT ![t].pc = pc]
NextOp == OpOrder[minted + 1]
MayMint == minted < Len(OpOrder)
-----------------------------------------------------------------------------
(***************************************************************************)
(* connect: a new generation, then connect_in_generation, which queues for *)
(* the slot.  The front end offers Connect in a settled state only.        *)
(***************************************************************************)
Settled == ui.st \in {"Idle", "Failed"}
UserBusy == \E c \in Calls : task[c].pc \notin {"rest", "gone"}

Connect(c) ==
  /\ core /\ task[c].pc = "rest" /\ ~UserBusy /\ Settled /\ MayMint
  /\ gen' = gen + 1
  /\ active' = FALSE
  /\ minted' = minted + 1
  /\ task' = [task EXCEPT ![c] = [pc |-> "c.lock", gen |-> gen + 1, op |-> NextOp,
                                  new |-> TRUE, keep |-> FALSE]]
  /\ Queue(c)
  /\ UNCHANGED <<engineVars, policy, attempts, ever, slot, ticker, proj, stats, ui,
                 sig, cut, opened, asleep, core, saved>>

(* What remains when connect_in_generation returns an error: the user call *)
(* reports it; the worker releases the in-flight mark and publishes        *)
(* FailedClean unless a newer request took over.                           *)
ConnectErr(t) ==
  /\ IF t = "worker" /\ task[t].gen = gen
       THEN active' = FALSE /\ ui' = Show("Failed", task[t].op)
       ELSE UNCHANGED <<active, ui>>
  /\ Return(t)

(* The slot is ours: a newer generation cancels; a new session freezes the *)
(* reconnect policy and clears the budget; a dead session is dropped.      *)
ConnectLocked(t) ==
  /\ task[t].pc = "c.lock" /\ Holds(t)
  /\ IF task[t].gen # gen
       THEN /\ ConnectErr(t) /\ Unlock
            /\ UNCHANGED <<policy, attempts, slot, ticker>>
       ELSE /\ Goto(t, "c.open")
            /\ IF task[t].new
                 THEN /\ policy' \in {"on", "off"}
                      /\ attempts' = 0 /\ active' = FALSE
                 ELSE UNCHANGED <<policy, attempts, active>>
            /\ IF slot # 0 /\ ~IsAlive(slot)
                 THEN slot' = 0 /\ ticker' = 0
                 ELSE UNCHANGED <<slot, ticker>>
            /\ Granted /\ UNCHANGED ui
  /\ UNCHANGED <<engineVars, gen, ever, proj, stats, sig, cut, opened, minted,
                 asleep, core, saved>>

(***************************************************************************)
(* No session in the slot: launch the one-shot Engine or open the resident *)
(* service, which serves one Core at a time; start the ticker; fill the    *)
(* slot.  The service may still be busy with an old session, whose place   *)
(* the new one does not take.                                              *)
(***************************************************************************)
OpenSession(t) ==
  /\ task[t].pc = "c.open" /\ slot = 0
  /\ opened < MaxSessions
  /\ opened' = opened + 1
  /\ slot' = opened + 1 /\ ticker' = opened + 1
  /\ eng' = IF eng.up THEN eng ELSE FreshSession(opened + 1, eng.form)
  /\ eng.form = "oneshot" => ~eng.up
  /\ UNCHANGED <<kernel, wire, req, faults, losses, kills, gen, policy, attempts,
                 active, ever, lock, task, proj, stats, ui, sig, cut, minted,
                 asleep, core, saved>>

OpenFails(t) ==
  /\ task[t].pc = "c.open" /\ slot = 0
  /\ MayFail /\ faults' = faults + 1
  /\ ConnectErr(t) /\ Unlock
  /\ UNCHANGED <<eng, kernel, wire, req, losses, kills, gen, policy, attempts, ever,
                 slot, ticker, proj, stats, sig, cut, opened, minted, asleep, core, saved>>

(* The three streams are attached before ApplyTunnel is sent; a newer      *)
(* generation cancels in between.                                          *)
AttachAndApply(t) ==
  /\ task[t].pc = "c.open" /\ slot # 0
  /\ IF Reachable(slot) /\ task[t].gen = gen
       THEN /\ req' = [k |-> "apply", t |-> t, op |-> task[t].op]
            /\ Goto(t, "c.apply")
            /\ UNCHANGED <<active, ui, lock>>
       ELSE ConnectErr(t) /\ Unlock /\ UNCHANGED <<req>>
  /\ UNCHANGED <<eng, kernel, wire, faults, losses, kills, gen, policy, attempts,
                 ever, slot, ticker, proj, stats, sig, cut, opened, minted, asleep, core,
                 saved>>

(* Pending: publish Connecting, restart the statistics, start the          *)
(* projection, which takes the generation of this moment.                  *)
Accepted(t) ==
  /\ ui' = Show("Connecting", task[t].op)
  /\ stats' = [Nothing EXCEPT !.op = task[t].op]
  /\ proj' = [proj EXCEPT ![task[t].op] = [st |-> "run", gen |-> gen, sess |-> slot]]
  /\ Return(t)
  /\ UNCHANGED active

ApplyReturns(t) ==
  /\ task[t].pc = "c.apply" /\ wire # <<>>
  /\ Head(wire).t = t
  /\ wire' = Tail(wire)
  /\ IF Head(wire).k = "pending"
       THEN Accepted(t)
       ELSE ConnectErr(t) /\ UNCHANGED <<stats, proj>>
  /\ Unlock
  /\ UNCHANGED <<eng, kernel, req, faults, losses, kills, gen, policy, attempts, ever,
                 slot, ticker, sig, cut, opened, minted, asleep, core, saved>>

ApplyBroken(t) ==
  /\ task[t].pc = "c.apply" /\ slot \in cut
  /\ ConnectErr(t) /\ Unlock
  /\ UNCHANGED <<engineVars, gen, policy, attempts, ever, slot, ticker, proj, stats,
                 sig, cut, opened, minted, asleep, core, saved>>
-----------------------------------------------------------------------------
(***************************************************************************)
(* stop: a new generation, then stop_in_generation, shared by the user,    *)
(* the reconnect clean-up and the recovery after sleep.                    *)
(***************************************************************************)
Stop(c) ==
  /\ core /\ task[c].pc = "rest"
  /\ ~Settled \/ UserBusy
  /\ gen' = gen + 1
  /\ active' = FALSE
  /\ task' = [task EXCEPT ![c] = [Rest EXCEPT !.pc = "s.lock", !.gen = gen + 1]]
  /\ Queue(c)
  /\ UNCHANGED <<engineVars, policy, attempts, ever, slot, ticker, proj, stats, ui,
                 sig, cut, opened, minted, asleep, core, saved>>

(* The caller's part after stop_in_generation: nothing more for the user;  *)
(* FailedClean after a clean-up; a reconnect signal after a wake.          *)
StopErr(t) ==
  /\ Return(t)
  /\ UNCHANGED sig

StopOk(t, shown, everThen) ==
  /\ Return(t)
  /\ ui' = IF t \in {"worker", "config"} /\ task[t].gen = gen
             THEN Show("Failed", task[t].op) ELSE shown
  /\ ever' = (everThen \/ (t = "wake" /\ task[t].gen = gen))
  /\ sig' = IF t = "wake" /\ task[t].gen = gen THEN Append(sig, gen) ELSE sig

(* Ours: a newer generation cancels; the policy is dropped unless this is  *)
(* a wake; with no live session the Engine has cleaned up by itself.       *)
StopLocked(t) ==
  /\ task[t].pc = "s.lock" /\ Holds(t)
  /\ IF task[t].gen # gen
       THEN /\ StopErr(t) /\ Unlock
            /\ UNCHANGED <<policy, slot, ticker, stats, active, ui, ever, req>>
       ELSE /\ policy' = IF task[t].keep THEN policy ELSE None
            /\ IF ~IsAlive(slot)
                 THEN /\ slot' = 0 /\ ticker' = 0
                      /\ stats' = Finished /\ active' = FALSE
                      /\ StopOk(t, Show("Failed", None), ever)
                      /\ Unlock
                      /\ UNCHANGED req
                 ELSE /\ ui' = Show("Stopping", None)
                      /\ IF Reachable(slot)
                           THEN /\ req' = [k |-> "stop", t |-> t, op |-> None]
                                /\ Goto(t, "s.wait")
                                /\ Granted /\ UNCHANGED sig
                           ELSE StopErr(t) /\ Unlock /\ UNCHANGED req
                      /\ UNCHANGED <<slot, ticker, stats, active, ever>>
  /\ UNCHANGED <<eng, kernel, wire, faults, losses, kills, gen, attempts, proj, cut,
                 opened, minted, asleep, core, saved>>

(* Stopped: publish Idle and end the operation.  Any other answer is an    *)
(* error that leaves Stopping on show.                                     *)
StopReturns(t) ==
  /\ task[t].pc = "s.wait" /\ wire # <<>>
  /\ Head(wire).t = t
  /\ wire' = Tail(wire)
  /\ IF Head(wire).k = "stopped"
       THEN /\ active' = FALSE
            /\ stats' = Finished
            /\ StopOk(t, Show("Idle", None), FALSE)
       ELSE StopErr(t) /\ UNCHANGED <<active, ever, stats, ui>>
  /\ Unlock
  /\ UNCHANGED <<eng, kernel, req, faults, losses, kills, gen, policy, attempts, slot,
                 ticker, proj, cut, opened, minted, asleep, core, saved>>

StopBroken(t) ==
  /\ task[t].pc = "s.wait" /\ slot \in cut
  /\ StopErr(t) /\ Unlock
  /\ UNCHANGED <<engineVars, gen, policy, attempts, active, ever, slot, ticker, proj,
                 stats, ui, cut, opened, minted, asleep, core, saved>>
-----------------------------------------------------------------------------
(***************************************************************************)
(* The status projection of operation o: it takes the events of its own    *)
(* operation off the ordered connection.                                   *)
(***************************************************************************)
Receives(o, k) ==
  /\ proj[o].st = "run" /\ wire # <<>>
  /\ Head(wire).op = o /\ Head(wire).k = k
  /\ wire' = Tail(wire)
Ended(o, st) == proj' = [proj EXCEPT ![o].st = st]
EndedForGood(o) == proj' = [proj EXCEPT ![o] = [NoProjection EXCEPT !.st = "gone"]]

ProjectPhase(o) ==
  /\ Receives(o, "phase")
  /\ ui' = Show("Connecting", o)
  /\ UNCHANGED <<eng, kernel, req, faults, losses, kills, gen, policy, attempts,
                 active, ever, slot, ticker, lock, task, proj, stats, sig, cut,
                 opened, minted, asleep, core, saved>>

ProjectConnected(o) ==
  /\ Receives(o, "connected")
  /\ attempts' = 0 /\ active' = FALSE /\ ever' = TRUE
  /\ ui' = Show("Connected", o)
  /\ stats' = [stats EXCEPT !.connected = TRUE]
  /\ UNCHANGED <<eng, kernel, req, faults, losses, kills, gen, policy, slot, ticker,
                 lock, task, proj, sig, cut, opened, minted, asleep, core, saved>>

(* A retryable loss of a session that was connected keeps the Engine's     *)
(* idle resources and signals the worker, with the generation of now.      *)
ProjectDrop(o) ==
  /\ Receives(o, "lost") /\ stats.live /\ ever
  /\ stats' = Finished /\ active' = FALSE
  /\ ui' = Show("Stopping", o)
  /\ sig' = Append(sig, gen)
  /\ EndedForGood(o)
  /\ UNCHANGED <<eng, kernel, req, faults, losses, kills, gen, policy, attempts, ever,
                 slot, ticker, lock, task, cut, opened, minted, asleep, core, saved>>

(* Any other failure is cleaned up by a StopTunnel of the projection's own *)
(* before the failure is shown.                                            *)
ProjectFailure(o) ==
  /\ \E k \in {"fail"} \cup (IF ever THEN {} ELSE {"lost"}) : Receives(o, k)
  /\ stats.live
  /\ stats' = Finished /\ active' = FALSE
  /\ ui' = Show("Stopping", o)
  /\ Queue(o)
  /\ Ended(o, "clean")
  /\ UNCHANGED <<eng, kernel, req, faults, losses, kills, gen, policy, attempts, ever,
                 slot, ticker, task, sig, cut, opened, minted, asleep, core, saved>>

(* A failure of an operation that already ended is ignored.                *)
ProjectLate(o) ==
  /\ \E k \in {"fail", "lost"} : Receives(o, k)
  /\ ~stats.live
  /\ UNCHANGED <<eng, kernel, req, faults, losses, kills, gen, policy, attempts,
                 active, ever, slot, ticker, lock, task, proj, stats, ui, sig, cut,
                 opened, minted, asleep, core, saved>>

(* The slot is ours: stop the tunnel only if no newer request took over.   *)
CleanLocked(o) ==
  /\ proj[o].st = "clean" /\ Holds(o)
  /\ IF proj[o].gen = gen /\ IsAlive(slot) /\ Reachable(slot)
       THEN /\ req' = [k |-> "stop", t |-> o, op |-> None]
            /\ Ended(o, "cleaning")
            /\ Granted
       ELSE Unlock /\ EndedForGood(o) /\ UNCHANGED req
  /\ UNCHANGED <<eng, kernel, wire, faults, losses, kills, gen, policy, attempts,
                 active, ever, slot, ticker, task, stats, ui, sig, cut, opened,
                 minted, asleep, core, saved>>

CleanReturns(o) ==
  /\ proj[o].st = "cleaning" /\ wire # <<>>
  /\ Head(wire).t = o
  /\ wire' = Tail(wire)
  /\ ui' = IF Head(wire).k = "stopped" /\ proj[o].gen = gen
             THEN Show("Failed", o) ELSE ui
  /\ Unlock /\ EndedForGood(o)
  /\ UNCHANGED <<eng, kernel, req, faults, losses, kills, gen, policy, attempts,
                 active, ever, slot, ticker, task, stats, sig, cut, opened, minted,
                 asleep, core, saved>>

CleanBroken(o) ==
  /\ proj[o].st = "cleaning" /\ slot \in cut
  /\ Unlock /\ EndedForGood(o)
  /\ UNCHANGED <<engineVars, gen, policy, attempts, active, ever, slot, ticker, task,
                 stats, ui, sig, cut, opened, minted, asleep, core, saved>>

(***************************************************************************)
(* End of file: every stream of the session ends.  A projection still      *)
(* running shows the loss if the statistics say something is live, then    *)
(* empties the slot if it holds its own Engine, and aborts the ticker.     *)
(***************************************************************************)
StreamsEnd ==
  /\ wire # <<>> /\ Head(wire).k = "eof"
  /\ cut' = cut \cup {Head(wire).id}
  /\ wire' = Tail(wire)
  /\ UNCHANGED <<eng, kernel, req, faults, losses, kills, gen, policy, attempts,
                 active, ever, slot, ticker, lock, task, proj, stats, ui, sig,
                 opened, minted, asleep, core, saved>>

ProjectLost(o) ==
  /\ proj[o].st = "run" /\ proj[o].sess \in cut
  /\ IF stats.live
       THEN /\ stats' = Finished /\ active' = FALSE
            /\ ui' = Show("Failed", o)
       ELSE UNCHANGED <<stats, active, ui>>
  /\ Queue(o) /\ Ended(o, "reset")
  /\ UNCHANGED <<engineVars, gen, policy, attempts, ever, slot, ticker, task, sig, cut,
                 opened, minted, asleep, core, saved>>

ResetSlot(o) ==
  /\ proj[o].st = "reset" /\ Holds(o)
  /\ slot' = IF SamePid(slot, proj[o].sess) THEN 0 ELSE slot
  /\ ticker' = 0
  /\ Unlock /\ EndedForGood(o)
  /\ UNCHANGED <<engineVars, gen, policy, attempts, active, ever, task, stats, ui, sig,
                 cut, opened, minted, asleep, core, saved>>

(* A message nobody waits for any more.                                    *)
Dropped ==
  /\ wire # <<>> /\ Head(wire).k # "eof"
  /\ Head(wire).op # None => proj[Head(wire).op].st # "run"
  /\ Head(wire).t \in Tasks => task[Head(wire).t].pc \notin {"c.apply", "s.wait", "x.wait"}
  /\ Head(wire).t \in Ops => proj[Head(wire).t].st # "cleaning"
  /\ wire' = Tail(wire)
  /\ UNCHANGED <<eng, kernel, req, faults, losses, kills, coreVars>>
-----------------------------------------------------------------------------
(***************************************************************************)
(* The reconnect worker: one signal at a time, only for the generation of  *)
(* now.  When it will not try again it stops the tunnel for good           *)
(* (finish_reconnect_and_cleanup), under the operation on show.            *)
(***************************************************************************)
Finish(t, g) ==
  task' = [task EXCEPT ![t] = [Rest EXCEPT !.pc = "s.lock", !.gen = g, !.op = ui.op]]

WorkerTakes ==
  /\ task["worker"].pc = "rest" /\ sig # <<>>
  /\ sig' = Tail(sig)
  /\ IF Head(sig) # gen \/ active \/ policy = None
       THEN UNCHANGED <<task, lock>>
       ELSE /\ Queue("worker")
            /\ IF policy = "off"
                 THEN Finish("worker", gen)
                 ELSE task' = [task EXCEPT !["worker"] =
                                 [Rest EXCEPT !.pc = "w.probe", !.gen = gen]]
  /\ UNCHANGED <<engineVars, gen, policy, attempts, active, ever, slot, ticker, proj,
                 stats, ui, cut, opened, minted, asleep, core, saved>>

(* Another attempt is worth making.                                        *)
MayTry == MaxAttempts = 0 \/ attempts < MaxAttempts

(* A look at the slot under the mutex: a dead one-shot Engine would need a *)
(* new elevation, which only the user may ask for; a spent budget ends it. *)
WorkerProbes ==
  /\ task["worker"].pc = "w.probe" /\ Holds("worker")
  /\ IF task["worker"].gen # gen
       THEN Unlock /\ Return("worker") /\ UNCHANGED <<active, attempts>>
       ELSE IF (eng.form = "oneshot" /\ ~IsAlive(slot))
               \/ ~MayTry
       THEN /\ Finish("worker", gen)
            /\ lockq' = Append(Tail(lockq), "worker")
            /\ run' = IF Len(lockq) = 1 THEN "worker" ELSE None
            /\ UNCHANGED <<active, attempts>>
       ELSE /\ Unlock /\ Goto("worker", "w.sleep")
            /\ active' = TRUE /\ attempts' = attempts + 1
  /\ UNCHANGED <<engineVars, gen, policy, ever, slot, ticker, proj, stats, ui, sig, cut,
                 opened, minted, asleep, core, saved>>

(* After the back-off: superseded, or no credentials on disk, or connect.  *)
WorkerDispatches ==
  /\ task["worker"].pc = "w.sleep"
  /\ IF task["worker"].gen # gen
       THEN Return("worker") /\ UNCHANGED <<active, ui, minted, lock>>
       ELSE /\ MayMint /\ minted' = minted + 1
            /\ IF saved
                 THEN /\ task' = [task EXCEPT !["worker"].pc = "c.lock",
                                              !["worker"].op = NextOp]
                      /\ Queue("worker")
                      /\ UNCHANGED <<active, ui>>
                 ELSE /\ Return("worker")
                      /\ active' = FALSE
                      /\ ui' = Show("Failed", NextOp)
                      /\ UNCHANGED lock
  /\ UNCHANGED <<engineVars, gen, policy, attempts, ever, slot, ticker, proj, stats,
                 sig, cut, opened, asleep, core, saved>>

(* The user turns reconnecting off while Core waits to reconnect.          *)
SettingDisabled ==
  /\ core /\ MayExtra /\ task["config"].pc = "rest"
  /\ active \/ (ever /\ ~stats.live)
  /\ gen' = gen + 1
  /\ active' = FALSE
  /\ policy' = IF policy = "on" THEN "off" ELSE policy
  /\ Finish("config", gen + 1) /\ Queue("config")
  /\ UNCHANGED <<engineVars, attempts, ever, slot, ticker, proj, stats, ui, sig, cut,
                 opened, minted, asleep, core, saved>>

(***************************************************************************)
(* Sleep: WillSleep remembers the connection on show; some time after the  *)
(* wake, unless anything newer happened, the stale tunnel is stopped and a *)
(* reconnect is signalled.                                                 *)
(***************************************************************************)
WillSleep ==
  /\ core /\ MayExtra /\ task["wake"].pc = "rest"
  /\ policy = "on" /\ ui.st = "Connected"
  /\ asleep' = [gen |-> gen, op |-> ui.op]
  /\ Goto("wake", "z.wait")
  /\ UNCHANGED <<engineVars, gen, policy, attempts, active, ever, slot, ticker, lock,
                 proj, stats, ui, sig, cut, opened, minted, core, saved>>

ResumeAfterSleep ==
  /\ task["wake"].pc = "z.wait"
  /\ IF \/ asleep.gen # gen \/ policy # "on" \/ active
        \/ ui.op # asleep.op \/ ui.st \notin {"Connected", "Failed"}
       THEN Return("wake") /\ UNCHANGED <<gen, lock, ever, sig>>
       ELSE IF ui.st = "Connected"
       THEN /\ gen' = gen + 1
            /\ task' = [task EXCEPT !["wake"] = [Rest EXCEPT !.pc = "s.lock",
                                       !.gen = gen + 1, !.keep = TRUE]]
            /\ Queue("wake")
            /\ UNCHANGED <<ever, sig>>
       ELSE /\ ever' = TRUE /\ sig' = Append(sig, gen)
            /\ Return("wake")
            /\ UNCHANGED <<gen, lock>>
  /\ asleep' = [gen |-> 0, op |-> None]
  /\ UNCHANGED <<engineVars, policy, attempts, active, slot, ticker, proj, stats, ui,
                 cut, opened, minted, core, saved>>
-----------------------------------------------------------------------------
(***************************************************************************)
(* close, at the end of the UI session: the ticker stops, then under the   *)
(* mutex a StopTunnel is tried for a moment, whatever it answers.          *)
(***************************************************************************)
Close ==
  /\ core /\ MayExtra /\ task["close"].pc = "rest"
  /\ ticker' = 0
  /\ Goto("close", "x.lock") /\ Queue("close")
  /\ UNCHANGED <<engineVars, gen, policy, attempts, active, ever, slot, proj, stats, ui,
                 sig, cut, opened, minted, asleep, core, saved>>

CloseLocked ==
  /\ task["close"].pc = "x.lock" /\ Holds("close")
  /\ Goto("close", "x.wait") /\ Granted
  /\ req' = IF Reachable(slot) THEN [k |-> "stop", t |-> "close", op |-> None] ELSE req
  /\ UNCHANGED <<eng, kernel, wire, faults, losses, kills, gen, policy, attempts, active,
                 ever, slot, ticker, proj, stats, ui, sig, cut, opened, minted,
                 asleep, core, saved>>

(* The Core process ends, after a close or by a crash: everything it held  *)
(* goes, its connections with it.                                          *)
CoreEnds ==
  /\ core /\ core' = FALSE
  /\ task["close"].pc = "x.wait" \/ MayExtra
  /\ gen' = 0 /\ policy' = None /\ attempts' = 0 /\ active' = FALSE /\ ever' = FALSE
  /\ slot' = 0 /\ ticker' = 0 /\ lockq' = <<>> /\ run' = None
  /\ task' = [t \in Tasks |-> Gone]
  /\ proj' = [o \in Ops |-> NoProjection]
  /\ stats' = Finished /\ ui' = Show("Idle", None)
  /\ sig' = <<>> /\ wire' = <<>>
  /\ UNCHANGED <<eng, kernel, req, faults, losses, kills, cut, opened, minted, asleep,
                 saved>>

(* The Engine sees its only authenticated connection close ...             *)
CoreClosed ==
  /\ eng.up /\ ~eng.converging /\ ~core
  /\ Converge
  /\ req' = NoRequest
  /\ UNCHANGED <<kernel, wire, faults, losses, kills, coreVars>>

(* ... or hears no heartbeat for too long.                                 *)
HeartbeatTimeout ==
  /\ eng.up /\ ~eng.converging /\ core /\ ticker # eng.id
  /\ Converge
  /\ UNCHANGED <<kernel, wire, req, faults, losses, kills, coreVars>>
-----------------------------------------------------------------------------
(* A handler runs on until it awaits something that is not ready.          *)
Runs(x) == run \in {None, x}

TaskStep(t) ==
  \/ ConnectLocked(t) \/ OpenSession(t) \/ OpenFails(t) \/ AttachAndApply(t)
  \/ ApplyReturns(t) \/ ApplyBroken(t)
  \/ StopLocked(t) \/ StopReturns(t) \/ StopBroken(t)
  \/ t = "worker" /\ WorkerProbes
  \/ t = "close" /\ CloseLocked

CoreStep ==
  \/ \E c \in Calls : Connect(c) \/ Stop(c)
  \/ StreamsEnd \/ Dropped
  \/ WorkerTakes \/ WorkerDispatches
  \/ SettingDisabled \/ WillSleep \/ ResumeAfterSleep \/ Close

ProjectionStep(o) ==
  \/ ProjectPhase(o) \/ ProjectConnected(o) \/ ProjectDrop(o) \/ ProjectFailure(o)
  \/ ProjectLate(o) \/ CleanLocked(o) \/ CleanReturns(o) \/ CleanBroken(o)
  \/ ProjectLost(o) \/ ResetSlot(o)

(* A login takes several round trips to the gateway; Core, on the same     *)
(* machine, has run the tasks that are ready by the time it succeeds.      *)
CoreReady ==
  \/ wire # <<>>
  \/ sig # <<>> /\ task["worker"].pc = "rest"
  \/ \E x \in Tasks \cup Ops : /\ Holds(x)
                              /\ \/ x \in Ops /\ proj[x].st \in {"clean", "reset"}
                                 \/ x \in Tasks /\ task[x].pc \in {"c.lock", "s.lock",
                                                                "w.probe", "x.lock"}
LoginIsSlow ==
  (\E o \in Ops : eng.stage[o] = "routed" /\ eng'.stage[o] = "agreed") => ~CoreReady

Next ==
  \/ EngineStep /\ LoginIsSlow /\ UNCHANGED coreVars
  \/ \E t \in Tasks : Runs(t) /\ TaskStep(t)
  \/ \E o \in Ops : Runs(o) /\ ProjectionStep(o)
  \/ run = None /\ CoreStep
  \/ CoreEnds \/ CoreClosed \/ HeartbeatTimeout

Spec == Init /\ [][Next]_vars

(***************************************************************************)
(* Fairness: both processes run their executors, the kernel delivers what  *)
(* is on the connection, and the watchdogs fire.  The user, the faults and *)
(* the losses are free.                                                    *)
(***************************************************************************)
EngineProgress ==
  /\ \/ ApplyTunnel \/ StopTunnel \/ StopCompletes \/ ConvergeCompletes
     \/ \E o \in Ops : \/ EnsureControlRoute(o) \/ EstablishSucceeds(o)
                        \/ EstablishFails(o) \/ PipelineUp(o)
                        \/ HoldCancelled(o) \/ ReportOutcome(o)
  /\ LoginIsSlow /\ UNCHANGED coreVars

CoreProgress ==
  \/ \E t \in Tasks : Runs(t) /\ TaskStep(t)
  \/ \E o \in Ops : Runs(o) /\ ProjectionStep(o)
  \/ run = None /\ (StreamsEnd \/ Dropped \/ WorkerTakes \/ WorkerDispatches
                      \/ ResumeAfterSleep)
  \/ task["close"].pc = "x.wait" /\ CoreEnds

Progress == EngineProgress \/ CoreProgress \/ CoreClosed \/ HeartbeatTimeout

-----------------------------------------------------------------------------
Clean(e) == Pipelines(e) = {} /\ ~e.ctl /\ ~e.idle /\ ~e.pending
Applying == \E t \in Tasks : task[t].pc = "c.apply"
OnTheWay(k, o) == \E i \in DOMAIN wire : wire[i].k = k /\ wire[i].op = o

(***************************************************************************)
(* A settled state on show means that the Engine holds nothing: no         *)
(* pipeline, no route, no idle device.  Failed is promised only where the  *)
(* reconnect could read its credentials and every call worked.             *)
(***************************************************************************)
SettledIsClean ==
  /\ core /\ ~Applying
  /\ \/ ui.st = "Idle"
     \/ ui.st = "Failed" /\ saved /\ kills = 0 /\ faults = 0
  => Clean(eng) /\ (kills = 0 => kernel = {})

(***************************************************************************)
(* Connected on show, while the operation counts as live, means that the   *)
(* pipeline of that very operation is up,                                  *)
(* or that the news of its end is on its way: an event, an end of file, or *)
(* the answer to a Stop.                                                   *)
(***************************************************************************)
ConnectedIsReal ==
  core /\ ui.st = "Connected" /\ stats.live /\ faults = 0
    => LET o == ui.op
           s == proj[o].sess
       IN  \/ s = eng.id /\ eng.up /\ (eng.converging \/ eng.stage[o] \in {"held", "lost"})
           \/ OnTheWay("lost", o)
           \/ \E i \in DOMAIN wire : wire[i].k = "eof" /\ wire[i].id = s
           \/ s \in cut
           \/ \E t \in Tasks : task[t].pc \in {"s.lock", "s.wait", "x.wait"}
           \/ \E x \in Ops : proj[x].st = "cleaning"

(* A pipeline that runs is the one in the attempt slot, where StopTunnel   *)
(* and the exit convergence look for what they must cancel.                *)
SlotHoldsPipeline ==
  \A o \in Ops : eng.stage[o] \in {"spawned", "routed", "agreed", "held"} => eng.attempt = o

(* Core ended, and the Engine still runs or, though no system call failed, *)
(* has left a route or a device behind.                                    *)
ExitPending == ~core /\ (eng.up \/ (faults = 0 /\ kills = 0 /\ kernel # {}))

(* Stopping on show, which the clean-up or the reconnect has to replace.   *)
StopPending == ui.st = "Stopping" /\ faults = 0 /\ kills = 0 /\ MayMint
=============================================================================
