--------------------------- MODULE TunnelRuntime ----------------------------
(***************************************************************************)
(* The Win32 engine's RealTunnelRuntime with every thread that drives it:  *)
(*                                                                         *)
(*  - the ApplyTunnel handler, which calls start_apply for an operation;   *)
(*  - the assembly thread of an accepted operation;                        *)
(*  - the two data-plane workers of an installed tunnel, as one group: the *)
(*    code lets the group report its loss once;                            *)
(*  - the sweeper thread of each data plane, which clears a lost tunnel;   *)
(*  - StopTunnel handlers and the exit sequence, which cancel, wait and    *)
(*    then disconnect or tear down.                                        *)
(*                                                                         *)
(* The `resources' mutex is explicit: it is held across many steps.  The   *)
(* `lifecycle_commit', `live', `nic', `pending_routes' and operation-id    *)
(* mutexes guard short sections that wait for no other thread of the       *)
(* model, so a section under one of them is one step.                      *)
(*                                                                         *)
(* Routes, addresses, DNS and proxy settings of one connection are one     *)
(* obligation, named by the operation that created it.                     *)
(***************************************************************************)
EXTENDS Naturals, FiniteSets

CONSTANTS
    Ops,        \* operation ids of the ApplyTunnel requests
    Compatibility, \* the requests in this connection mode, the others are in Standard
    Stoppers,   \* operation ids of the StopTunnel requests
    Exits,      \* runs of the exit sequence (heartbeat loss, core exit, SCM stop)
    None        \* no operation, no tunnel, no owner

ASSUME ModeAssumption == Compatibility \subseteq Ops

ASSUME IdsAssumption ==
    /\ Ops \cap (Stoppers \cup Exits) = {}
    /\ Stoppers \cap Exits = {}
    /\ None \notin Ops \cup Stoppers \cup Exits

Callers == Stoppers \cup Exits

VARIABLES
    assembling,  \* an assembly was accepted and has not finished
    cancelFlag,  \* the cooperative cancellation token
    paused,      \* disconnected by the user or by the sweeper
    generation,  \* generation of the newest data plane
    nic,         \* the adapter exists
    live,        \* the installed tunnel: its operation, None when empty
    liveFull,    \* live still has its threads, session and CSTP channels
    pending,     \* operations whose rolled-back routes could not be removed
    routes,      \* operations with routes in the system's tables
    res,         \* holder of the resources mutex, None when free
    poisoned,    \* a thread panicked while it held resources
    cleaning,    \* the tunnel the holder of resources is cleaning up
    cleanStage   \* how far LiveTunnel::disconnect_for has come

lockVars == <<res, poisoned, cleaning, cleanStage>>
flagVars == <<assembling, cancelFlag, paused>>
hostVars == <<nic, live, liveFull, pending, routes>>

VARIABLES
    asm,         \* program counter of the assembly of each operation
    prepared,    \* the assembly loaded wintun.dll itself
    newNic,      \* the assembly created the adapter
    session,     \* Wintun session of each operation: none, open or ended
    planeGen,    \* generation of each data plane
    bound,       \* operation a loss of this data plane is reported for
    stop,        \* the workers' stop flag
    worker,      \* state of the worker group
    sweeper,     \* state of the sweeper thread
    call,        \* program counter of stop handlers and exit sequences
    latest       \* last status event published

asmVars == <<asm, prepared, newNic>>
planeVars == <<session, planeGen, bound, stop, worker>>

VARIABLES
    revoked,     \* history: operations whose assembly a cancel has overtaken
    installed,   \* history: operations whose tunnel was installed
    stopped      \* history: operations known when a disconnect took live

histVars == <<revoked, installed, stopped>>

vars == <<assembling, cancelFlag, paused, generation, nic, live, liveFull,
          pending, routes, res, poisoned, cleaning, cleanStage, asm, prepared,
          newNic, session, planeGen, bound, stop, worker, sweeper, call,
          latest, revoked, installed, stopped>>

-----------------------------------------------------------------------------
(* Threads that may hold the resources mutex.                              *)

AsmThread(o) == <<"asm", o>>
SweepThread(o) == <<"sweep", o>>
CallThread(c) == <<"call", c>>

Threads == {AsmThread(o) : o \in Ops} \cup {SweepThread(o) : o \in Ops}
             \cup {CallThread(c) : c \in Callers}

ASSUME NoneAssumption == None \notin Threads

AsmPcs == {"none", "refused", "begin", "clear", "clearing", "preflight",
           "login", "stage2", "ensureNic", "applyOffer", "applied",
           "startPlane", "install", "undo", "undoInstall", "failed",
           "reset", "done"}

\* The assembly thread exists: start_apply accepted and `assembling' not reset.
Running(o) == asm[o] \notin {"none", "refused", "done"}

\* The assembly holds the resources mutex from stage 2 to the end of assemble.
InStage2(o) == asm[o] \in {"ensureNic", "applyOffer", "applied", "startPlane",
                           "install", "undo", "undoInstall"}

CallPcs == {"idle", "waiting", "locking", "cleaning", "closeNic",
            "returned", "done"}

Phases == {"Connecting", "Connected", "Failed", "Idle"}

Event(o, phase) == [op |-> o, phase |-> phase]

NoEvent == [op |-> None, phase |-> "Idle"]

TypeOK ==
    /\ assembling \in BOOLEAN /\ cancelFlag \in BOOLEAN /\ paused \in BOOLEAN
    /\ generation \in Nat
    /\ nic \in BOOLEAN
    /\ live \in Ops \cup {None} /\ liveFull \in BOOLEAN
    /\ pending \in SUBSET Ops /\ routes \in SUBSET Ops
    /\ res \in Threads \cup {None} /\ poisoned \in BOOLEAN
    /\ cleaning \in Ops \cup {None}
    /\ cleanStage \in {"none", "stop", "join", "route", "ok", "err"}
    /\ asm \in [Ops -> AsmPcs]
    /\ prepared \in [Ops -> BOOLEAN] /\ newNic \in [Ops -> BOOLEAN]
    /\ session \in [Ops -> {"none", "open", "ended"}]
    /\ planeGen \in [Ops -> Nat]
    /\ bound \in [Ops -> Ops \cup {None}]
    /\ stop \in [Ops -> BOOLEAN]
    /\ worker \in [Ops -> {"none", "waiting", "running", "lost", "notified",
                           "published", "exited"}]
    /\ sweeper \in [Ops -> {"none", "idle", "signalled", "cleaning", "exited"}]
    /\ call \in [Callers -> CallPcs]
    /\ latest \in [op : Ops \cup Callers \cup {None}, phase : Phases]
    /\ revoked \in SUBSET Ops /\ installed \in SUBSET Ops
    /\ stopped \in SUBSET Ops

Init ==
    /\ assembling = FALSE /\ cancelFlag = FALSE /\ paused = FALSE
    /\ generation = 0
    /\ nic = FALSE
    /\ live = None /\ liveFull = FALSE
    /\ pending = {} /\ routes = {}
    /\ res = None /\ poisoned = FALSE
    /\ cleaning = None /\ cleanStage = "none"
    /\ asm = [o \in Ops |-> "none"]
    /\ prepared = [o \in Ops |-> FALSE] /\ newNic = [o \in Ops |-> FALSE]
    /\ session = [o \in Ops |-> "none"]
    /\ planeGen = [o \in Ops |-> 0]
    /\ bound = [o \in Ops |-> None]
    /\ stop = [o \in Ops |-> FALSE]
    /\ worker = [o \in Ops |-> "none"]
    /\ sweeper = [o \in Ops |-> "none"]
    /\ call = [c \in Callers |-> "idle"]
    /\ latest = NoEvent
    /\ revoked = {} /\ installed = {} /\ stopped = {}

-----------------------------------------------------------------------------
(* StatusPublisher::publish: a Connecting or Connected of an operation is  *)
(* dropped when the latest event is the same operation's Failed or Idle.   *)

Suppressed(e) ==
    /\ latest.op = e.op
    /\ latest.phase \in {"Failed", "Idle"}
    /\ e.phase \in {"Connecting", "Connected"}

Publish(e) == latest' = IF Suppressed(e) THEN latest ELSE e

(* EngineDataPlaneThreads::is_alive, for the group of operation o.         *)
Alive(o) == ~stop[o] /\ worker[o] \in {"waiting", "running"}

(* RealTunnelRuntime::is_connected.                                        *)
IsConnected == live # None /\ liveFull /\ Alive(live)

-----------------------------------------------------------------------------
(* ApplyTunnel: start_apply, wholly under the commit mutex.                *)

\* decide_start_apply, RefuseDuplicate: the handler will publish Failed(o).
StartRefused(o) ==
    /\ asm[o] = "none"
    /\ assembling
    /\ asm' = [asm EXCEPT ![o] = "refused"]
    /\ UNCHANGED <<flagVars, generation, hostVars, lockVars, prepared, newNic,
                   planeVars, sweeper, call, latest, histVars>>

RefusalReported(o) ==
    /\ asm[o] = "refused"
    /\ asm' = [asm EXCEPT ![o] = "done"]
    /\ Publish(Event(o, "Failed"))
    /\ UNCHANGED <<flagVars, generation, hostVars, lockVars, prepared, newNic,
                   planeVars, sweeper, call, histVars>>

\* The live tunnel can be handed over to request o.
CanAdopt(o) == IsConnected /\ (live \in Compatibility <=> o \in Compatibility)

\* Mutant: the adopted tunnel keeps the operation it was installed for.
StartAdoptedUnbound(o) ==
    /\ asm[o] = "none"
    /\ ~assembling
    /\ CanAdopt(o)
    /\ Publish(Event(o, "Connected"))
    /\ asm' = [asm EXCEPT ![o] = "done"]
    /\ UNCHANGED <<flagVars, generation, hostVars, lockVars, prepared, newNic,
                   planeVars, sweeper, call, histVars>>

\* decide_start_apply, Adopt: hand the running tunnel over to operation o.
\* No assembly runs for o, and neither cancelFlag nor paused is touched.
StartAdopted(o) ==
    /\ asm[o] = "none"
    /\ ~assembling
    /\ CanAdopt(o)
    /\ bound' = [bound EXCEPT ![live] = o]
    /\ Publish(Event(o, "Connected"))
    /\ asm' = [asm EXCEPT ![o] = "done"]
    /\ UNCHANGED <<flagVars, generation, hostVars, lockVars, prepared, newNic,
                   session, planeGen, stop, worker, sweeper, call, histVars>>

\* Mutant: `assembling' is not looked at.
StartAcceptedTwice(o) ==
    /\ asm[o] = "none"
    /\ ~CanAdopt(o)
    /\ cancelFlag' = FALSE
    /\ paused' = FALSE
    /\ assembling' = TRUE
    /\ asm' = [asm EXCEPT ![o] = "begin"]
    /\ UNCHANGED <<generation, hostVars, lockVars, prepared, newNic, planeVars,
                   sweeper, call, latest, histVars>>

\* decide_start_apply, Proceed, and Adopt of a tunnel that cannot be handed
\* over: reset the token, clear paused, mark the assembly, spawn its thread.
StartAccepted(o) ==
    /\ asm[o] = "none"
    /\ ~assembling
    /\ ~CanAdopt(o)
    /\ cancelFlag' = FALSE
    /\ paused' = FALSE
    /\ assembling' = TRUE
    /\ asm' = [asm EXCEPT ![o] = "begin"]
    /\ UNCHANGED <<generation, hostVars, lockVars, prepared, newNic, planeVars,
                   sweeper, call, latest, histVars>>

-----------------------------------------------------------------------------
(* Taking the tunnel out of `live' and cleaning it up.  The thread that    *)
(* holds resources takes, cleans, and on an error puts the rest back.      *)

\* Mutex::take on live, by a thread that is about to clean the tunnel up.
TakeLive ==
    /\ cleaning' = live
    /\ cleanStage' = IF live = None THEN "ok"
                     ELSE IF liveFull THEN "stop" ELSE "route"
    /\ live' = None
    /\ liveFull' = FALSE

\* disconnect_for, 1: ask the workers to stop ...
CleanStop ==
    /\ cleanStage = "stop"
    /\ stop' = [stop EXCEPT ![cleaning] = TRUE]
    /\ cleanStage' = "join"
    /\ UNCHANGED <<flagVars, generation, hostVars, res, poisoned, cleaning,
                   asmVars, session, planeGen, bound, worker, sweeper, call,
                   latest, histVars>>

\* ... join them, and only then 2: end the session, 3: close the channels.
CleanJoin ==
    /\ cleanStage = "join"
    /\ worker[cleaning] = "exited"
    /\ session' = [session EXCEPT ![cleaning] = "ended"]
    /\ cleanStage' = "route"
    /\ UNCHANGED <<flagVars, generation, hostVars, res, poisoned, cleaning,
                   asmVars, planeGen, bound, stop, worker, sweeper, call,
                   latest, histVars>>

\* disconnect_for, 4: RouteOwner::clear removes everything, or reports an
\* error and keeps what is left.
CleanRoute ==
    /\ cleanStage = "route"
    /\ \/ routes' = routes \ {cleaning} /\ cleanStage' = "ok"
       \/ routes' = routes /\ cleanStage' = "err"
    /\ UNCHANGED <<flagVars, generation, nic, live, liveFull, pending, res,
                   poisoned, cleaning, asmVars, planeVars, sweeper, call,
                   latest, histVars>>

\* Mutant: a tunnel that could not be cleaned up is dropped.
RestoreNever == UNCHANGED <<live, liveFull>>

\* The holder of resources finishes: on an error the tunnel, now without its
\* data plane, goes back into live.
RestoreOnError ==
    IF cleanStage = "err" THEN live' = cleaning /\ liveFull' = FALSE
                          ELSE UNCHANGED <<live, liveFull>>

Release ==
    /\ res' = None
    /\ cleaning' = None
    /\ cleanStage' = "none"
    /\ UNCHANGED poisoned

\* retry_pending_routes: each obligation is retried, `left' still fail.
RetryPending(left) ==
    /\ left \subseteq pending
    /\ pending' = left
    /\ routes' = routes \ (pending \ left)

-----------------------------------------------------------------------------
(* StopTunnel (cancel, wait, disconnect, publish Idle) and the exit        *)
(* sequence (cancel, wait, teardown, publish Idle of no operation).        *)

\* A cancellation overtakes every assembly that has not installed its tunnel.
Overtaken == {o \in Ops : Running(o) /\ o \notin installed}

\* TunnelRuntime::cancel, under the commit mutex.
Cancel(c) ==
    /\ call[c] = "idle"
    /\ cancelFlag' = TRUE
    /\ revoked' = revoked \cup Overtaken
    /\ call' = [call EXCEPT ![c] = "waiting"]
    /\ UNCHANGED <<assembling, paused, generation, hostVars, lockVars, asmVars,
                   planeVars, sweeper, latest, installed, stopped>>

\* The bounded wait for the assembly ends, by itself or by its time limit;
\* disconnect revokes the permission to commit before it queues for resources.
DisconnectBegin(c) ==
    /\ call[c] = "waiting"
    /\ cancelFlag' = TRUE
    /\ revoked' = revoked \cup Overtaken
    /\ call' = [call EXCEPT ![c] = "locking"]
    /\ UNCHANGED <<assembling, paused, generation, hostVars, lockVars, asmVars,
                   planeVars, sweeper, latest, installed, stopped>>

\* Mutant: the token is not set again under the second commit section.
DisconnectTakeOnly(c) ==
    /\ call[c] = "locking"
    /\ ~poisoned
    /\ res = None
    /\ res' = CallThread(c)
    /\ TakeLive
    /\ stopped' = stopped \cup {o \in Ops : asm[o] # "none"}
    /\ call' = [call EXCEPT ![c] = "cleaning"]
    /\ UNCHANGED <<flagVars, generation, nic, pending, routes, poisoned,
                   asmVars, planeVars, sweeper, latest, revoked, installed>>

\* disconnect: lock resources, then under the commit mutex cancel again and
\* take live.
DisconnectTake(c) ==
    /\ call[c] = "locking"
    /\ ~poisoned
    /\ res = None
    /\ res' = CallThread(c)
    /\ cancelFlag' = TRUE
    /\ revoked' = revoked \cup Overtaken
    /\ TakeLive
    /\ stopped' = stopped \cup {o \in Ops : asm[o] # "none"}
    /\ call' = [call EXCEPT ![c] = "cleaning"]
    /\ UNCHANGED <<assembling, paused, generation, nic, pending, routes,
                   poisoned, asmVars, planeVars, sweeper, latest, installed>>

\* disconnect: the resources mutex is poisoned, return its error.
DisconnectPoisoned(c) ==
    /\ call[c] = "locking"
    /\ poisoned
    /\ call' = [call EXCEPT ![c] = "returned"]
    /\ UNCHANGED <<flagVars, generation, hostVars, lockVars, asmVars, planeVars,
                   sweeper, latest, histVars>>

\* Mutant: disconnect tries again until the cleanup succeeds.
DisconnectRetries(c) ==
    /\ call[c] = "cleaning"
    /\ cleanStage = "err"
    /\ RestoreOnError
    /\ Release
    /\ call' = [call EXCEPT ![c] = "locking"]
    /\ UNCHANGED <<flagVars, generation, nic, pending, routes, asmVars,
                   planeVars, sweeper, latest, histVars>>

\* disconnect: the tunnel could not be cleaned up, keep it and return Err.
DisconnectFailed(c) ==
    /\ call[c] = "cleaning"
    /\ cleanStage = "err"
    /\ RestoreOnError
    /\ Release
    /\ call' = [call EXCEPT ![c] = "returned"]
    /\ UNCHANGED <<flagVars, generation, nic, pending, routes, asmVars,
                   planeVars, sweeper, latest, histVars>>

\* disconnect: the tunnel is gone; retry the pending routes and, when none is
\* left, set paused.  teardown goes on to close the adapter.
DisconnectCleaned(c) ==
    /\ call[c] = "cleaning"
    /\ cleanStage = "ok"
    /\ \E left \in SUBSET pending :
        /\ RetryPending(left)
        /\ paused' = (paused \/ left = {})
        /\ call' = [call EXCEPT ![c] = IF left = {} /\ c \in Exits
                                       THEN "closeNic" ELSE "returned"]
    /\ Release
    /\ UNCHANGED <<assembling, cancelFlag, generation, nic, live, liveFull,
                   asmVars, planeVars, sweeper, latest, histVars>>

\* teardown, after disconnect returned Ok and released resources.
CloseNic(c) ==
    /\ call[c] = "closeNic"
    /\ nic' = FALSE
    /\ call' = [call EXCEPT ![c] = "returned"]
    /\ UNCHANGED <<flagVars, generation, live, liveFull, pending, routes,
                   lockVars, asmVars, planeVars, sweeper, latest, histVars>>

\* The handler publishes Idle whatever disconnect returned; the exit sequence
\* publishes it for no operation.
PublishIdle(c) ==
    /\ call[c] = "returned"
    /\ Publish(Event(IF c \in Stoppers THEN c ELSE None, "Idle"))
    /\ call' = [call EXCEPT ![c] = "done"]
    /\ UNCHANGED <<flagVars, generation, hostVars, lockVars, asmVars, planeVars,
                   sweeper, histVars>>

-----------------------------------------------------------------------------
(* The assembly thread.  `assemble' checks the token at its segment        *)
(* boundaries; a step below is one segment with the check that ends it, or *)
(* with the lock it takes.                                                 *)

Goto(o, pc) == asm' = [asm EXCEPT ![o] = pc]

AsmBegin(o) ==
    /\ asm[o] = "begin"
    /\ Goto(o, IF cancelFlag THEN "failed" ELSE "clear")
    /\ UNCHANGED <<flagVars, generation, hostVars, lockVars, prepared, newNic,
                   planeVars, sweeper, call, latest, histVars>>

\* clear_previous_connection: lock resources and take the previous tunnel.
AsmClear(o) ==
    /\ asm[o] = "clear"
    /\ ~poisoned
    /\ res = None
    /\ res' = AsmThread(o)
    /\ TakeLive
    /\ Goto(o, "clearing")
    /\ UNCHANGED <<flagVars, generation, nic, pending, routes, poisoned,
                   prepared, newNic, planeVars, sweeper, call, latest, histVars>>

\* A poisoned resources mutex: an error in clear_previous_connection, a panic
\* at stage 2; both end the assembly with Failed.
AsmPoisoned(o) ==
    /\ asm[o] \in {"clear", "stage2"}
    /\ poisoned
    /\ Goto(o, "failed")
    /\ UNCHANGED <<flagVars, generation, hostVars, lockVars, prepared, newNic,
                   planeVars, sweeper, call, latest, histVars>>

\* clear_previous_connection: the previous tunnel could not be cleaned up.
AsmClearFailed(o) ==
    /\ asm[o] = "clearing"
    /\ cleanStage = "err"
    /\ RestoreOnError
    /\ Release
    /\ Goto(o, "failed")
    /\ UNCHANGED <<flagVars, generation, nic, pending, routes, prepared, newNic,
                   planeVars, sweeper, call, latest, histVars>>

\* clear_previous_connection: retry the pending routes, then check the token.
AsmCleared(o) ==
    /\ asm[o] = "clearing"
    /\ cleanStage = "ok"
    /\ \E left \in SUBSET pending :
        /\ RetryPending(left)
        /\ Goto(o, IF left = {} /\ ~cancelFlag THEN "preflight" ELSE "failed")
    /\ Release
    /\ UNCHANGED <<flagVars, generation, nic, live, liveFull, prepared, newNic,
                   planeVars, sweeper, call, latest, histVars>>

\* Load wintun.dll when there is no adapter yet.
AsmPreflight(o) ==
    /\ asm[o] = "preflight"
    /\ prepared' = [prepared EXCEPT ![o] = ~nic]
    /\ IF nic THEN UNCHANGED latest ELSE Publish(Event(o, "Connecting"))
    /\ \/ ~cancelFlag /\ Goto(o, "login")
       \/ (cancelFlag \/ ~nic) /\ Goto(o, "failed")
    /\ UNCHANGED <<flagVars, generation, hostVars, lockVars, newNic, planeVars,
                   sweeper, call, histVars>>

\* Stage 1: configuration, credentials, gateway, login and CSTP session.  Any
\* of them may fail, and the token is checked after each.
AsmLogin(o) ==
    /\ asm[o] = "login"
    /\ Publish(Event(o, "Connecting"))
    /\ \/ ~cancelFlag /\ Goto(o, "stage2")
       \/ Goto(o, "failed")
    /\ UNCHANGED <<flagVars, generation, hostVars, lockVars, prepared, newNic,
                   planeVars, sweeper, call, histVars>>

\* Stage 2 locks resources until the end of assemble, checks the token, and
\* takes whatever is in live: NoTunnelBeforeInstall shows it finds nothing,
\* so the cleanup that would follow has nothing to do.
AsmStage2(o) ==
    /\ asm[o] = "stage2"
    /\ ~poisoned
    /\ res = None
    /\ IF cancelFlag
       THEN /\ Goto(o, "failed")
            /\ UNCHANGED <<res, live, liveFull, latest>>
       ELSE /\ Goto(o, "ensureNic")
            /\ res' = AsmThread(o)
            /\ live' = None
            /\ liveFull' = FALSE
            /\ Publish(Event(o, "Connecting"))
    /\ UNCHANGED <<flagVars, generation, nic, pending, routes, poisoned,
                   cleaning, cleanStage, prepared, newNic, planeVars, sweeper,
                   call, histVars>>

\* 2a. Reuse the adapter or create it from the library loaded in preflight.
AsmReuseNic(o) ==
    /\ asm[o] = "ensureNic"
    /\ nic
    /\ newNic' = [newNic EXCEPT ![o] = FALSE]
    /\ Goto(o, "applyOffer")
    /\ UNCHANGED <<flagVars, generation, hostVars, lockVars, prepared,
                   planeVars, sweeper, call, latest, histVars>>

AsmCreateNic(o) ==
    /\ asm[o] = "ensureNic"
    /\ ~nic /\ prepared[o]
    /\ nic' = TRUE
    /\ newNic' = [newNic EXCEPT ![o] = TRUE]
    /\ Goto(o, "applyOffer")
    /\ UNCHANGED <<flagVars, generation, live, liveFull, pending, routes,
                   lockVars, prepared, planeVars, sweeper, call, latest,
                   histVars>>

\* The adapter cannot be created, or it was closed after the preflight.
AsmNoNic(o) ==
    /\ asm[o] = "ensureNic"
    /\ ~nic
    /\ Release
    /\ Goto(o, "failed")
    /\ UNCHANGED <<flagVars, generation, hostVars, prepared, newNic, planeVars,
                   sweeper, call, latest, histVars>>

\* 2b. Apply addresses, routes, DNS and proxy settings.
AsmApplyOffer(o) ==
    /\ asm[o] = "applyOffer"
    /\ nic
    /\ routes' = routes \cup {o}
    /\ Goto(o, "applied")
    /\ UNCHANGED <<flagVars, generation, nic, live, liveFull, pending, lockVars,
                   prepared, newNic, planeVars, sweeper, call, latest, histVars>>

\* RouteOwner::apply fails and rolls back; routes it cannot remove again stay
\* pending.  An adapter created for this connection is closed.
AsmApplyFailed(o) ==
    /\ asm[o] = "applyOffer"
    /\ nic
    /\ \E left \in SUBSET {o} :
        /\ pending' = pending \cup left
        /\ routes' = routes \cup left
    /\ nic' = ~newNic[o]
    /\ Release
    /\ Goto(o, "failed")
    /\ UNCHANGED <<flagVars, generation, live, liveFull, prepared, newNic,
                   planeVars, sweeper, call, latest, histVars>>

\* expect("nic ensured"): a teardown closed the adapter in the meantime; the
\* panic poisons resources, and a RouteOwner that was applied is just dropped.
AsmPanic(o) ==
    /\ asm[o] \in {"applyOffer", "startPlane"}
    /\ ~nic
    /\ res' = None
    /\ poisoned' = TRUE
    /\ Goto(o, "failed")
    /\ UNCHANGED <<flagVars, generation, hostVars, cleaning, cleanStage,
                   prepared, newNic, planeVars, sweeper, call, latest, histVars>>

\* LiveTunnel::cleanup_only, handed to cleanup_or_retain.
UndoRoutes(o) ==
    /\ cleaning' = o
    /\ cleanStage' = "route"
    /\ Goto(o, "undo")

\* The token is checked once more after the platform was configured.
AsmApplied(o) ==
    /\ asm[o] = "applied"
    /\ IF cancelFlag
       THEN UndoRoutes(o) /\ UNCHANGED latest
       ELSE /\ Goto(o, "startPlane")
            /\ Publish(Event(o, "Connecting"))
            /\ UNCHANGED <<cleaning, cleanStage>>
    /\ UNCHANGED <<flagVars, generation, hostVars, res, poisoned, prepared,
                   newNic, planeVars, sweeper, call, histVars>>

\* Stage 3: open the session, take the next generation, spawn the sweeper and
\* then the workers, which wait for their activation.
AsmStartPlane(o) ==
    /\ asm[o] = "startPlane"
    /\ nic
    /\ generation' = generation + 1
    /\ session' = [session EXCEPT ![o] = "open"]
    /\ planeGen' = [planeGen EXCEPT ![o] = generation + 1]
    /\ bound' = [bound EXCEPT ![o] = o]
    /\ worker' = [worker EXCEPT ![o] = "waiting"]
    /\ sweeper' = [sweeper EXCEPT ![o] = "idle"]
    /\ Goto(o, "install")
    /\ UNCHANGED <<flagVars, hostVars, lockVars, prepared, newNic, stop, call,
                   latest, histVars>>

AsmStartPlaneFailed(o) ==
    /\ asm[o] = "startPlane"
    /\ nic
    /\ UndoRoutes(o)
    /\ UNCHANGED <<flagVars, generation, hostVars, res, poisoned, prepared,
                   newNic, planeVars, sweeper, call, latest, histVars>>

\* Mutant: the token is not checked under the commit mutex.
CanInstallCancelled(o) == Alive(o)

\* The token and the workers allow the commit.
CanInstall(o) == ~cancelFlag /\ Alive(o)

\* install_live: under the commit mutex install, clear paused, publish
\* Connected and activate the workers, or clean everything up again.
AsmInstall(o) ==
    /\ asm[o] = "install"
    /\ IF CanInstall(o)
       THEN /\ live' = o
            /\ liveFull' = TRUE
            /\ paused' = FALSE
            /\ Publish(Event(o, "Connected"))
            /\ worker' = [worker EXCEPT ![o] = "running"]
            /\ installed' = installed \cup {o}
            /\ Release
            /\ Goto(o, "reset")
       ELSE /\ cleaning' = o
            /\ cleanStage' = "stop"
            /\ Goto(o, "undoInstall")
            /\ UNCHANGED <<live, liveFull, paused, latest, worker, installed,
                           res, poisoned>>
    /\ UNCHANGED <<assembling, cancelFlag, generation, nic, pending, routes,
                   prepared, newNic, session, planeGen, bound, stop, sweeper,
                   call, revoked, stopped>>

\* cleanup_or_retain is done.  An adapter created for this connection is
\* closed after a successful cleanup, except on the way back from install_live.
AsmUndone(o) ==
    /\ asm[o] \in {"undo", "undoInstall"}
    /\ cleanStage \in {"ok", "err"}
    /\ RestoreOnError
    /\ nic' = (nic /\ ~(asm[o] = "undo" /\ newNic[o] /\ cleanStage = "ok"))
    /\ Release
    /\ Goto(o, "failed")
    /\ UNCHANGED <<flagVars, generation, pending, routes, prepared, newNic,
                   planeVars, sweeper, call, latest, histVars>>

\* run_assemble_with_reset: publish the failure ...
AsmFailed(o) ==
    /\ asm[o] = "failed"
    /\ Publish(Event(o, "Failed"))
    /\ Goto(o, "reset")
    /\ UNCHANGED <<flagVars, generation, hostVars, lockVars, prepared, newNic,
                   planeVars, sweeper, call, histVars>>

\* ... and reset `assembling', whatever the outcome.
AsmReset(o) ==
    /\ asm[o] = "reset"
    /\ assembling' = FALSE
    /\ Goto(o, "done")
    /\ UNCHANGED <<cancelFlag, paused, generation, hostVars, lockVars, prepared,
                   newNic, planeVars, sweeper, call, latest, histVars>>

-----------------------------------------------------------------------------
(* The data-plane workers and the sweeper.                                 *)

\* DataPlaneWorkerGuard::report, under the operation-id mutex: a worker that
\* fails while nobody asked it to stop marks the loss, once.
WorkerLost(o) ==
    /\ worker[o] = "running"
    /\ ~stop[o]
    /\ worker' = [worker EXCEPT ![o] = "lost"]
    /\ UNCHANGED <<flagVars, generation, hostVars, lockVars, asmVars, session,
                   planeGen, bound, stop, sweeper, call, latest, histVars>>

\* on_data_plane_lost: signal the sweeper first ...
WorkerNotify(o) ==
    /\ worker[o] = "lost"
    /\ worker' = [worker EXCEPT ![o] = "notified"]
    /\ sweeper' = [sweeper EXCEPT ![o] = "signalled"]
    /\ UNCHANGED <<flagVars, generation, hostVars, lockVars, asmVars, session,
                   planeGen, bound, stop, call, latest, histVars>>

\* ... then publish the failure of the operation the plane is bound to.
WorkerPublish(o) ==
    /\ worker[o] = "notified"
    /\ worker' = [worker EXCEPT ![o] = "published"]
    /\ Publish(Event(bound[o], "Failed"))
    /\ UNCHANGED <<flagVars, generation, hostVars, lockVars, asmVars, session,
                   planeGen, bound, stop, sweeper, call, histVars>>

\* Both workers have seen the stop flag, or their own failure, and are gone.
WorkerExit(o) ==
    /\ worker[o] \in {"waiting", "running", "published"}
    /\ stop[o]
    /\ worker' = [worker EXCEPT ![o] = "exited"]
    /\ UNCHANGED <<flagVars, generation, hostVars, lockVars, asmVars, session,
                   planeGen, bound, stop, sweeper, call, latest, histVars>>

\* Mutant: no generation guard.
SignalAlways(o) == TRUE

\* The signal belongs to the newest data plane.
SignalCurrent(o) == planeGen[o] = generation

\* live_sweeper_step: take the lost tunnel out of live.
SweepTake(o) ==
    /\ sweeper[o] = "signalled"
    /\ ~poisoned
    /\ res = None
    /\ SignalCurrent(o)
    /\ live # None
    /\ res' = SweepThread(o)
    /\ TakeLive
    /\ sweeper' = [sweeper EXCEPT ![o] = "cleaning"]
    /\ UNCHANGED <<flagVars, generation, nic, pending, routes, poisoned,
                   asmVars, planeVars, call, latest, histVars>>

\* live_sweeper_step: the signal is stale, or someone else took the tunnel.
SweepNothing(o) ==
    /\ sweeper[o] = "signalled"
    /\ ~poisoned
    /\ res = None
    /\ ~SignalCurrent(o) \/ live = None
    /\ sweeper' = [sweeper EXCEPT ![o] = "idle"]
    /\ UNCHANGED <<flagVars, generation, hostVars, lockVars, asmVars, planeVars,
                   call, latest, histVars>>

\* live_sweeper_step: the tunnel is clean, or kept for a later retry; paused
\* is set in both cases.
SweepDone(o) ==
    /\ sweeper[o] = "cleaning"
    /\ cleanStage \in {"ok", "err"}
    /\ RestoreOnError
    /\ Release
    /\ paused' = TRUE
    /\ sweeper' = [sweeper EXCEPT ![o] = "idle"]
    /\ UNCHANGED <<assembling, cancelFlag, generation, nic, pending, routes,
                   asmVars, planeVars, call, latest, histVars>>

\* The sweeper ends when both senders of its channel are gone, the workers'
\* and the tunnel's, or in a panic when resources is poisoned.
SweepExit(o) ==
    /\ \/ sweeper[o] = "idle" /\ worker[o] = "exited" /\ session[o] = "ended"
       \/ sweeper[o] = "signalled" /\ poisoned
    /\ sweeper' = [sweeper EXCEPT ![o] = "exited"]
    /\ UNCHANGED <<flagVars, generation, hostVars, lockVars, asmVars, planeVars,
                   call, latest, histVars>>

-----------------------------------------------------------------------------
ApplyStep(o) ==
    StartRefused(o) \/ RefusalReported(o) \/ StartAdopted(o) \/ StartAccepted(o)

AsmStep(o) ==
    \/ AsmBegin(o) \/ AsmClear(o) \/ AsmPoisoned(o) \/ AsmClearFailed(o)
    \/ AsmCleared(o) \/ AsmPreflight(o) \/ AsmLogin(o) \/ AsmStage2(o)
    \/ AsmReuseNic(o) \/ AsmCreateNic(o) \/ AsmNoNic(o) \/ AsmApplyOffer(o)
    \/ AsmApplyFailed(o) \/ AsmPanic(o) \/ AsmApplied(o) \/ AsmStartPlane(o)
    \/ AsmStartPlaneFailed(o) \/ AsmInstall(o) \/ AsmUndone(o) \/ AsmFailed(o)
    \/ AsmReset(o)

CleanStep == CleanStop \/ CleanJoin \/ CleanRoute

WorkerReport(o) == WorkerNotify(o) \/ WorkerPublish(o) \/ WorkerExit(o)

SweepStep(o) == SweepTake(o) \/ SweepNothing(o) \/ SweepDone(o) \/ SweepExit(o)

CallStep(c) ==
    \/ Cancel(c) \/ DisconnectBegin(c) \/ DisconnectTake(c)
    \/ DisconnectPoisoned(c) \/ DisconnectFailed(c) \/ DisconnectCleaned(c)
    \/ CloseNic(c) \/ PublishIdle(c)

\* Every request of the model was served and every thread waits for its next
\* event: the engine is idle.  Any other state without a step is a deadlock.
Quiescent ==
    /\ \A o \in Ops : /\ asm[o] = "done"
                      /\ worker[o] \in {"none", "published", "exited"}
                      /\ sweeper[o] \in {"none", "idle", "exited"}
    /\ \A c \in Callers : call[c] = "done"
    /\ UNCHANGED vars

Next ==
    \/ \E o \in Ops : \/ ApplyStep(o) \/ AsmStep(o) \/ WorkerLost(o)
                      \/ WorkerReport(o) \/ SweepStep(o)
    \/ \E c \in Callers : CallStep(c)
    \/ CleanStep
    \/ Quiescent

Spec == Init /\ [][Next]_vars

\* As long as a thread can run, one does: the assembly and worker threads, the
\* sweeper, the thread that holds resources, and handlers that have started.
\* Requests, stops and the loss of a data plane need not happen.  Which of the
\* threads runs is left open: none of them loops.
Fairness ==
    WF_vars(\/ \E o \in Ops : \/ RefusalReported(o) \/ AsmStep(o)
                               \/ WorkerReport(o) \/ SweepStep(o)
            \/ \E c \in Callers : call[c] # "idle" /\ CallStep(c)
            \/ CleanStep)

FairSpec == Spec /\ Fairness

-----------------------------------------------------------------------------
(* Properties.                                                             *)

\* start_apply admits one assembly at a time and `assembling' says whether one
\* runs: no second thread can reset the token under the first.
SingleAssembly ==
    /\ assembling <=> \E o \in Ops : Running(o)
    /\ \A p, q \in Ops : Running(p) /\ Running(q) => p = q

\* A cancel or disconnect that overtakes an assembly wins: install_live never
\* publishes Connected for it, although start_apply resets the token later.
RevokedNeverInstalled == revoked \cap installed = {}

\* Once a disconnect has taken live, no tunnel of an operation it knew of is
\* up again; only a later request can bring one up.
StoppedStaysDown == liveFull => live \notin stopped

\* is_connected and is_paused are never true together, although paused is
\* written without the commit mutex by disconnect and by the sweeper.
ConnectedNotPaused == IsConnected => ~paused

\* From clear_previous_connection to install_live, live is empty: the take at
\* stage 2 drops no tunnel and no cleanup obligation, and install_live
\* overwrites none.
NoTunnelBeforeInstall ==
    \A o \in Ops :
        \/ asm[o] \in {"preflight", "login", "stage2"}
        \/ InStage2(o)
        => live = None

\* Where an assembly has cleared the previous tunnel and installed none yet.
BeforeInstall(o) == asm[o] \in {"preflight", "login", "stage2", "ensureNic",
                                "applyOffer", "applied", "startPlane", "install"}

\* The resources mutex serialises taking, cleaning up, restoring and installing
\* a tunnel: whoever is in such a section holds it, a tunnel under cleanup has
\* left live, and no cleanup that an assembly did not wait for can put a tunnel
\* back into live before that assembly installs its own.
LockDiscipline ==
    /\ \A o \in Ops : asm[o] = "clearing" \/ InStage2(o) => res = AsmThread(o)
    /\ \A o \in Ops : sweeper[o] = "cleaning" => res = SweepThread(o)
    /\ \A c \in Callers : call[c] = "cleaning" => res = CallThread(c)
    /\ res = None => cleanStage = "none"
    /\ cleanStage = "none" => cleaning = None
    /\ cleanStage \notin {"none", "ok"} => cleaning # None
    /\ cleanStage # "none" => live = None
    /\ \A o \in Ops : /\ BeforeInstall(o) => live = None /\ cleaning = None
                      /\ BeforeInstall(o) /\ InStage2(o) => cleanStage = "none"
                      /\ asm[o] \in {"clearing", "undo", "undoInstall"}
                           => cleanStage # "none"

\* The token stays set as long as an assembly runs that a cancel overtook or a
\* disconnect knew of: start_apply resets it only when no assembly runs.
TokenHeld ==
    \A o \in revoked \cup stopped :
        /\ asm[o] # "none"
        /\ Running(o) => cancelFlag

\* The threads and objects that own the routes of operation o.
RouteOwners(o) ==
    {t \in {"live", "pending", "cleaning", "assembly"} :
        \/ t = "live" /\ live = o
        \/ t = "pending" /\ o \in pending
        \/ t = "cleaning" /\ cleaning = o /\ cleanStage # "ok"
        \/ t = "assembly" /\ asm[o] \in {"applied", "startPlane", "install"}}

\* Every route in the system's tables has exactly one owner that will remove
\* it or retry, through failed cleanups, rollbacks and handovers between
\* threads; a panic while resources is held is the one exception.
RoutesOwned ==
    ~poisoned => \A o \in routes : \E t \in RouteOwners(o) : RouteOwners(o) = {t}

\* A data plane has a generation of its own, the newest one belongs to the
\* tunnel in live or about to be installed, and a sweeper is started with it.
Generations ==
    /\ \A p, q \in Ops : planeGen[p] = planeGen[q] /\ planeGen[p] # 0 => p = q
    /\ \A o \in Ops : /\ planeGen[o] <= generation
                      /\ worker[o] # "none" \/ sweeper[o] # "none"
                           => planeGen[o] # 0
                      /\ asm[o] = "install" => bound[o] = o
                      /\ asm[o] = "install" \/ (live = o /\ liveFull)
                           => planeGen[o] = generation /\ planeGen[o] # 0

\* An operation owns routes in one role at a time.
RouteRoles ==
    /\ cleanStage = "ok" => cleaning \notin routes
    /\ \A o \in pending : /\ asm[o] \in {"failed", "reset", "done"}
                          /\ live # o /\ cleaning # o
    /\ \A o \in Ops : live = o \/ cleaning = o
          => asm[o] \in {"undo", "undoInstall", "failed", "reset", "done"}

\* What resources, the token, generations and route owners guarantee together:
\* the core of the inductive invariant behind the properties of this module.
IInv == LockDiscipline /\ TokenHeld /\ Generations /\ RouteRoles

\* A sweeper stops no data plane but its own, however late its signal comes.
SweeperSparesOthers ==
    \A o \in Ops : sweeper[o] = "cleaning" /\ cleanStage \in {"stop", "join"}
                      => cleaning = o

\* The Wintun session ends only after both workers were joined: neither can
\* call into a session that was destroyed.
JoinedBeforeSessionEnd ==
    \A o \in Ops : session[o] = "ended" => worker[o] = "exited"

\* A failure published for a lost data plane names the operation that owns the
\* tunnel: after Connected was published for an adopting operation, the loss
\* of the tunnel is never reported for the operation it was taken from.
LossNamesAdopter ==
    \A o \in Ops :
        latest.phase = "Connected" /\ IsConnected /\ live = o
        => bound[o] = latest.op

\* A lost data plane whose tunnel is still live: its workers have ended and a
\* later request would adopt it.
DeadTunnelLive ==
    \E o \in Ops : /\ worker[o] \notin {"none", "waiting", "running"}
                   /\ live = o
                   /\ liveFull

\* An assembly has been accepted and is not over, StopTunnel or the exit
\* sequence waits for its return, or the sweeper owes the removal of a tunnel.
Unfinished ==
    \/ assembling
    \/ \E c \in Callers : call[c] \notin {"idle", "done"}
    \/ DeadTunnelLive

\* What was begun ends, whatever fails on its way: an accepted assembly resets
\* `assembling', StopTunnel and the exit sequence return, and a lost tunnel
\* leaves `live'.
CallsEnd == Unfinished ~> ~Unfinished

-----------------------------------------------------------------------------
(***************************************************************************)
(* The engine's tunnel runtime implements the contract its handlers rely   *)
(* on: RuntimeContract under the mapping below.                            *)
(***************************************************************************)

\* The operation whose assembly thread runs.
Assembling == IF \E o \in Ops : Running(o)
              THEN CHOOSE o \in Ops : Running(o) ELSE None

\* Its outcome is published, `assembling' not reset yet.
Settled == \E o \in Ops : asm[o] = "reset"

\* The group of workers that nobody asked to stop, or whose loss is on its way
\* to the status channel.
PlaneState(o) ==
    IF worker[o] \in {"lost", "notified"} THEN "lost"
    ELSE IF worker[o] # "running" \/ stop[o] THEN "none"
    ELSE IF live = o /\ liveFull THEN "up" ELSE "closing"

Planes == {o \in Ops : PlaneState(o) # "none"}

CurrentPlane ==
    IF Planes = {} THEN [op |-> None, state |-> "none"]
    ELSE LET o == CHOOSE o \in Planes : TRUE
         IN  [op |-> bound[o], state |-> PlaneState(o)]

Contract == INSTANCE RuntimeContract
            WITH Applies <- Ops, Stops <- Stoppers, running <- Assembling,
                 settled <- Settled, cancelled <- cancelFlag,
                 plane <- CurrentPlane

\* The threads of tunnel_runtime.rs never do more than the contract allows: one
\* assembly and one data plane at a time, one outcome per assembly, no tunnel
\* from a cancelled assembly or before the previous plane has reported or been
\* stopped, and every loss reported for the operation that owns the plane.
ImplementsContract == Contract!ContractSpec
=============================================================================
