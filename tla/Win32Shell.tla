----------------------------- MODULE Win32Shell -----------------------------
(***************************************************************************)
(* The Windows desktop shell (win32/rust/tauri/app) and the Core process   *)
(* it owns (exv-vpn-win32-host main.rs, kernel_control_transport.rs).  The *)
(* Core serves one named-pipe instance to one UI and follows the UI        *)
(* process; the shell keeps one channel, rebuilds the Core when a Connect  *)
(* finds it gone, and exits without waiting for it.                        *)
(***************************************************************************)
EXTENDS Naturals, FiniteSets

CONSTANTS
    Cores,      \* 1..n: the Core processes the shell may spawn, in order
    Commands,   \* the Connect commands the frontend may have in flight
    Answers,    \* how a Core that serves may answer a Connect
    Patient,    \* the bounded dial outlasts a Core that still makes progress
    MaxCrash    \* how many Cores may crash

VARIABLES
    core,      \* Cores -> process, who opened its pipe, its tunnel
    crashes,   \* how many Cores have crashed
    ui,        \* "spawn", "dial", "up" or "gone": setup, then the event loop
    handle,    \* CoreState.handle: 0 for NotWired, else the dialled Core
    child,     \* CoreSession.child
    subs,      \* CoreSession.subscriptions: the Core they watch, or 0
    gate,      \* CoreSession.recovery: who holds it
    cmd,       \* Commands -> where a Connect is, on which Core
    poll,      \* the channel a snapshot poll is using, or 0
    closing,   \* CLOSE_REQUEST_IN_FLIGHT, and the smart close's snapshot
    quit,      \* SHUTDOWN_STARTED
    win        \* the main window is visible

coreVars == <<core, crashes>>
closeVars == <<closing, quit, win>>
shellVars == <<ui, handle, child, subs, gate, cmd, poll, closeVars>>
vars == <<coreVars, shellVars>>

NoCore == [pc |-> "none", pipe |-> "free", tun |-> FALSE]
Idle == [pc |-> "idle", k |-> 0, sup |-> FALSE]
Ending == {"ok", "err", "unreach"}

Init ==
    /\ core = [k \in Cores |-> NoCore]
    /\ crashes = 0
    /\ ui = "spawn"
    /\ handle = 0
    /\ child = 0
    /\ subs = 0
    /\ gate = "none"
    /\ cmd = [c \in Commands |-> Idle]
    /\ poll = 0
    /\ closing = [pc |-> "no", k |-> 0]
    /\ quit = FALSE
    /\ win = FALSE

Alive(k) == core[k].pc \notin {"none", "dead"}
Serving(k) == core[k].pc = "serve" /\ core[k].pipe = "ours"
Becomes(k, r) == core' = [core EXCEPT ![k] = r]

(***************************************************************************)
(* The Core process                                                        *)
(***************************************************************************)
\* CoreArgs::parse and effective_ui_sid need the pipe's name and the UI's SID.
ArgsComplete(k) == core[k].pc = "boot"

\* create_kernel_control_pipe_server: the one and only instance of the pipe.
CreatePipe(r) == [r EXCEPT !.pc = "listen"]

\* run_core up to serve_kernel_control_pipe waiting in server.connect().
CoreListens(k) ==
    /\ ArgsComplete(k)
    /\ Becomes(k, CreatePipe(core[k]))
    /\ UNCHANGED <<crashes, shellVars>>

\* server.connect() returns once somebody has opened the pipe; there is no
\* deadline on it and nothing watches the UI process yet.
CoreAccepts(k) ==
    /\ core[k].pc = "listen"
    /\ core[k].pipe # "free"
    /\ Becomes(k, [core[k] EXCEPT !.pc = "greet"])
    /\ UNCHANGED <<crashes, shellVars>>

\* verify_ui_peer: the client's process must still exist to give its SID.
VerifyUiPeer == ui # "gone"

\* Verification and authorization, then spawn_ui_exit_watcher, the forwarders
\* and the tonic server over this single connection.
CoreServes(k) ==
    /\ core[k].pc = "greet"
    /\ Becomes(k, [core[k] EXCEPT !.pc = IF VerifyUiPeer THEN "serve" ELSE "dead"])
    /\ UNCHANGED <<crashes, shellVars>>

\* spawn_ui_exit_watcher signals on_ui_exited and CoreRuntime::run leaves its
\* select loop.
CoreSeesUiExit(k) ==
    /\ core[k].pc = "serve"
    /\ ui = "gone"
    /\ Becomes(k, [core[k] EXCEPT !.pc = "down"])
    /\ UNCHANGED <<crashes, shellVars>>

\* shutdown_core: the waiters are cancelled, the engine is stopped.
ShutdownCore(r) == [r EXCEPT !.pc = "dead", !.tun = FALSE]

\* The tail of CoreRuntime::run: every task is aborted with a bounded wait,
\* then shutdown_core, then main exits.
CoreExits(k) ==
    /\ core[k].pc = "down"
    /\ Becomes(k, ShutdownCore(core[k]))
    /\ UNCHANGED <<crashes, shellVars>>

CoreCrashes(k) ==
    /\ Alive(k)
    /\ crashes < MaxCrash
    /\ crashes' = crashes + 1
    /\ Becomes(k, [core[k] EXCEPT !.pc = "dead", !.tun = FALSE])
    /\ UNCHANGED shellVars

(***************************************************************************)
(* Spawning and dialling                                                   *)
(***************************************************************************)
\* The next process to use; the runs bound how many there are.
Fresh(k) == core[k] = NoCore /\ \A j \in Cores : j < k => core[j] # NoCore

\* spawn_core of the binary core_bin_path finds.
SpawnCore(r) == [r EXCEPT !.pc = "boot"]

\* dial_core_pipe_with_retry opens the free instance of Core k's pipe.
PipeOpens(k) == core[k].pc = "listen" /\ core[k].pipe = "free"

\* verify_core_server_pipe: the process behind the pipe is the expected one.
VerifyCoreServer(expected, observed) == expected = observed

DialWorks(k) == PipeOpens(k) /\ VerifyCoreServer(k, k)
ConnectCoreChannel(r) == [r EXCEPT !.pipe = "ours"]

\* dial_spawned_core gives up: the process is gone, its only pipe instance has
\* been used up, or the retries ran out on a slow Core.
DialFails(k) == core[k].pc = "dead" \/ core[k].pipe = "spent" \/ ~Patient

\* NamedPipeConnector::call without its warm pipe: the channel of a Core that
\* is gone dials the same name again, reaches the instance of the Core that
\* replaced it, and drops it because the process id is not the one it expects.
Redials(j) ==
    /\ core[j].pc = "dead"
    /\ \/ subs = j
       \/ poll = j
       \/ closing.k = j
       \/ \E c \in Commands : cmd[c].k = j /\ cmd[c].pc \in {"call", "recall", "probing"}
OldChannelRedials(j, k) ==
    /\ ui # "gone"
    /\ Redials(j)
    /\ PipeOpens(k)
    /\ ~VerifyCoreServer(j, k)
    /\ Becomes(k, [core[k] EXCEPT !.pipe = "spent"])
    /\ UNCHANGED <<crashes, shellVars>>

\* bootstrap, first half: without a binary the shell runs degraded.
BootSpawns ==
    /\ ui = "spawn"
    /\ \/ \E k \in Cores :
            /\ Fresh(k)
            /\ Becomes(k, SpawnCore(core[k]))
            /\ child' = k
            /\ ui' = "dial"
            /\ UNCHANGED win
       \/ /\ ui' = "up"
          /\ win' = TRUE
          /\ UNCHANGED <<core, child>>
    /\ UNCHANGED <<crashes, handle, subs, gate, cmd, poll, closing, quit>>

\* bootstrap, second half: CoreState, CoreSession and the subscriptions; then
\* apply_startup_visibility.  A failed dial keeps the process and NotWired.
BootDials ==
    /\ ui = "dial"
    /\ \/ /\ DialWorks(child)
          /\ Becomes(child, ConnectCoreChannel(core[child]))
          /\ handle' = child
          /\ subs' = child
       \/ /\ DialFails(child)
          /\ UNCHANGED <<core, handle, subs>>
    /\ ui' = "up"
    /\ win' \in BOOLEAN
    /\ UNCHANGED <<crashes, child, gate, cmd, poll, closing, quit>>

(***************************************************************************)
(* The Connect command and its recovery                                    *)
(***************************************************************************)
CmdIs(c, r) == cmd' = [cmd EXCEPT ![c] = r]
CmdTo(c, pc) == CmdIs(c, [cmd[c] EXCEPT !.pc = pc])
Loop == ui = "up"

\* CoreClient::connect takes the channel; NotWired is CoreUnreachable at once.
Calls(c, pc, otherwise) ==
    /\ IF handle # 0 THEN CmdIs(c, [Idle EXCEPT !.pc = pc, !.k = handle])
       ELSE CmdIs(c, [Idle EXCEPT !.pc = otherwise])
    /\ UNCHANGED <<coreVars, ui, handle, child, subs, gate, poll, closeVars>>

ConnectStarts(c) ==
    /\ Loop
    /\ cmd[c].pc = "idle" \/ cmd[c].pc \in Ending
    /\ Calls(c, "call", "lock")

\* map_status: these codes become CoreUnreachable whoever sent them.
MapStatus(code) ==
    IF code \in {"unavailable", "cancelled", "deadline"} THEN "unreach" ELSE code

\* What the Core answers: a Connect that a Stop overtook is Cancelled.
AnswerOf(c) == IF cmd[c].sup THEN {"cancelled"} ELSE Answers

\* The answer of a Core that serves, and mark_stopped on CoreUnreachable.
ConnectAnswers(c) ==
    /\ Loop
    /\ cmd[c].pc \in {"call", "recall"}
    /\ Serving(cmd[c].k)
    /\ \E code \in AnswerOf(c) :
         LET out == MapStatus(code) IN
         /\ Becomes(cmd[c].k,
                    [core[cmd[c].k] EXCEPT !.tun = (code = "ok") \/ @])
         /\ handle' = IF out = "unreach" THEN 0 ELSE handle
         /\ CmdIs(c, [Idle EXCEPT !.pc = IF out = "unreach" /\ cmd[c].pc = "call"
                                         THEN "lock" ELSE out])
    /\ UNCHANGED <<crashes, ui, child, subs, gate, poll, closeVars>>

\* The transport's own error: the Core does not serve this channel any more.
ConnectBreaks(c) ==
    /\ Loop
    /\ cmd[c].pc \in {"call", "recall"}
    /\ core[cmd[c].k].pc = "dead"
    /\ handle' = 0
    /\ CmdIs(c, [Idle EXCEPT !.pc = IF cmd[c].pc = "call" THEN "lock" ELSE "unreach"])
    /\ UNCHANGED <<coreVars, ui, child, subs, gate, poll, closeVars>>

\* recover_stopped_core_for_connect takes the recovery lock.
RecoveryLocks(c) ==
    /\ Loop
    /\ cmd[c].pc = "lock"
    /\ gate = "none"
    /\ gate' = c
    /\ CmdTo(c, "probe")
    /\ UNCHANGED <<coreVars, ui, handle, child, subs, poll, closeVars>>

\* Mutant: a recovery that fails returns without releasing the lock.
RecoveryHoldsLock(c, pc) ==
    /\ CmdIs(c, [Idle EXCEPT !.pc = pc])
    /\ gate' = IF pc = "retry" THEN "none" ELSE gate

\* The recovery's next step; its guard is dropped when it returns.
RecoveryTo(c, pc) ==
    /\ CmdIs(c, [Idle EXCEPT !.pc = pc])
    /\ gate' = IF pc \in {"retry", "unreach"} THEN "none" ELSE gate

\* probe_status is a snapshot on the present channel, if there is one.
RecoveryProbes(c) ==
    /\ Loop
    /\ cmd[c].pc = "probe"
    /\ Calls(c, "probing", "check")

\* The probe's result; another caller's recovery may already have worked.
RecoveryProbed(c) ==
    /\ Loop
    /\ cmd[c].pc = "probing"
    /\ \/ Serving(cmd[c].k) /\ RecoveryTo(c, "retry") /\ UNCHANGED handle
       \/ core[cmd[c].k].pc = "dead" /\ RecoveryTo(c, "check") /\ handle' = 0
    /\ UNCHANGED <<coreVars, ui, child, subs, poll, closeVars>>

\* CoreChild::has_exited, or there never was one.
HasExited == child # 0 => core[child].pc = "dead"

\* A running child refuses the recovery; otherwise a new Core is spawned.
RecoverySpawns(c) ==
    /\ Loop
    /\ cmd[c].pc = "check"
    /\ \/ \E k \in Cores :
            /\ HasExited
            /\ Fresh(k)
            /\ Becomes(k, SpawnCore(core[k]))
            /\ CmdIs(c, [Idle EXCEPT !.pc = "dial", !.k = k])
            /\ UNCHANGED gate
       \/ /\ ~HasExited \/ \A k \in Cores : ~Fresh(k)
          /\ RecoveryTo(c, "unreach")
          /\ UNCHANGED core
    /\ UNCHANGED <<crashes, ui, handle, child, subs, poll, closeVars>>

\* replace_handle, replace_subscriptions (the old ones are aborted only now)
\* and the new child.
RecoveryDials(c) ==
    /\ Loop
    /\ cmd[c].pc = "dial"
    /\ DialWorks(cmd[c].k)
    /\ Becomes(cmd[c].k, ConnectCoreChannel(core[cmd[c].k]))
    /\ handle' = cmd[c].k
    /\ subs' = cmd[c].k
    /\ child' = cmd[c].k
    /\ RecoveryTo(c, "retry")
    /\ UNCHANGED <<crashes, ui, poll, closeVars>>

\* CoreChild::terminate.
Terminate(r) == [r EXCEPT !.pc = "dead", !.tun = FALSE]

RecoveryFails(c) ==
    /\ Loop
    /\ cmd[c].pc = "dial"
    /\ DialFails(cmd[c].k)
    /\ Becomes(cmd[c].k, Terminate(core[cmd[c].k]))
    /\ handle' = 0
    /\ RecoveryTo(c, "unreach")
    /\ UNCHANGED <<crashes, ui, child, subs, poll, closeVars>>

\* The original request once more, on whatever channel there is now.
ConnectRetries(c) ==
    /\ Loop
    /\ cmd[c].pc = "retry"
    /\ Calls(c, "recall", "unreach")

\* The stop command: it takes the tunnel down and cancels the Connects in
\* flight on that Core; an error of its own marks nothing.
Stops ==
    /\ Loop
    /\ handle # 0
    /\ Serving(handle)
    /\ Becomes(handle, [core[handle] EXCEPT !.tun = FALSE])
    /\ cmd' = [c \in Commands |->
                 IF cmd[c].k = handle /\ cmd[c].pc \in {"call", "recall"}
                 THEN [cmd[c] EXCEPT !.sup = TRUE] ELSE cmd[c]]
    /\ UNCHANGED <<crashes, ui, handle, child, subs, gate, poll, closeVars>>

\* The frontend's snapshot or core_status poll: its answer may be late.
PollStarts ==
    /\ Loop
    /\ poll = 0
    /\ handle # 0
    /\ poll' = handle
    /\ UNCHANGED <<coreVars, ui, handle, child, subs, gate, cmd, closeVars>>
PollEnds ==
    /\ Loop
    /\ poll # 0
    /\ \/ Serving(poll) /\ UNCHANGED handle
       \/ core[poll].pc = "dead" /\ handle' = 0
    /\ poll' = 0
    /\ UNCHANGED <<coreVars, ui, child, subs, gate, cmd, closeVars>>

(***************************************************************************)
(* Closing the window and quitting                                         *)
(***************************************************************************)
\* try_begin_close_request, finish_close_request.
TryBeginClose == closing.pc = "no"
NoClose == [pc |-> "no", k |-> 0]

\* notify_core_shutdown: only the first caller goes on.
NotifyShutdown == quit' = TRUE /\ win' = FALSE

\* apply_close_decision: a hidden window lets the next request in.
ApplyHide ==
    /\ closing' = NoClose
    /\ UNCHANGED <<quit, win>>

\* apply_close_decision, the other branch: the request stays in flight.
ApplyQuit ==
    /\ closing' = [pc |-> "quit", k |-> 0]
    /\ NotifyShutdown

\* request_main_window_close: the window hides first, whatever happens next.
CloseRequested ==
    /\ Loop
    /\ win
    /\ win' = FALSE
    /\ closing' = IF TryBeginClose THEN [pc |-> "pref", k |-> 0] ELSE closing
    /\ UNCHANGED <<coreVars, ui, handle, child, subs, gate, cmd, poll, quit>>

\* close_decision of the saved preference: quit, tray or smart.
CloseDecides ==
    /\ Loop
    /\ closing.pc = "pref"
    /\ \/ ApplyHide
       \/ ApplyQuit
       \/ /\ handle # 0
          /\ closing' = [pc |-> "smart", k |-> handle]
          /\ UNCHANGED <<quit, win>>
    /\ UNCHANGED <<coreVars, ui, handle, child, subs, gate, cmd, poll>>

\* smart_close_decision of a fresh snapshot: a live tunnel stays behind a
\* hidden window; anything else, an error or the timeout included, quits.
SmartCloseDecision(tun) == IF tun THEN ApplyHide ELSE ApplyQuit
SmartCloseResolves ==
    /\ Loop
    /\ closing.pc = "smart"
    /\ \/ Serving(closing.k) /\ SmartCloseDecision(core[closing.k].tun) /\ UNCHANGED handle
       \/ core[closing.k].pc = "dead" /\ ApplyQuit /\ handle' = 0
       \/ ~Patient /\ ApplyQuit /\ UNCHANGED handle
    /\ UNCHANGED <<coreVars, ui, child, subs, gate, cmd, poll>>

\* The tray's Quit entry.
TrayQuits ==
    /\ Loop
    /\ ~quit
    /\ NotifyShutdown
    /\ UNCHANGED <<coreVars, ui, handle, child, subs, gate, cmd, poll, closing>>

\* The tray's Show entry, or a second instance; not once the shutdown began.
WindowShows ==
    /\ Loop
    /\ ~quit
    /\ ~win
    /\ win' = TRUE
    /\ UNCHANGED <<coreVars, ui, handle, child, subs, gate, cmd, poll, closing, quit>>

\* shutdown_core_after_hide: the tray goes, the subscriptions are aborted and
\* the process exits; nothing waits for the Core.
ShellExits ==
    /\ Loop
    /\ quit
    /\ ui' = "gone"
    /\ subs' = 0
    /\ UNCHANGED <<coreVars, handle, child, gate, cmd, poll, closing, quit, win>>

\* Nothing is owed once the shell is gone but the Core's own end.
Done == ui = "gone" /\ UNCHANGED vars

CoreSteps(k) ==
    CoreListens(k) \/ CoreAccepts(k) \/ CoreServes(k) \/ CoreSeesUiExit(k) \/ CoreExits(k)
CmdSteps(c) ==
    \/ ConnectAnswers(c) \/ ConnectBreaks(c) \/ RecoveryLocks(c) \/ RecoveryProbes(c)
    \/ RecoveryProbed(c) \/ RecoverySpawns(c) \/ RecoveryDials(c) \/ RecoveryFails(c)
    \/ ConnectRetries(c)
ShellSteps ==
    BootSpawns \/ BootDials \/ PollEnds \/ CloseDecides \/ SmartCloseResolves \/ ShellExits

Next ==
    \/ \E k \in Cores : CoreSteps(k) \/ CoreCrashes(k)
    \/ \E j, k \in Cores : OldChannelRedials(j, k)
    \/ ShellSteps
    \/ \E c \in Commands : ConnectStarts(c) \/ CmdSteps(c)
    \/ Stops \/ PollStarts \/ CloseRequested \/ TrayQuits \/ WindowShows
    \/ Done

\* What the Cores do, and what the shell does by itself.
CoresRun == \E k \in Cores : CoreSteps(k)
ShellRuns == BootSpawns \/ BootDials \/ ShellExits

(***************************************************************************)
(* Properties                                                              *)
(***************************************************************************)
\* The shell never runs two Cores: the recovery looks at the managed process
\* under its lock and terminates a replacement it could not reach
\* (bootstrap.rs, recover_stopped_core_for_connect).
OneCore == Cardinality({k \in Cores : Alive(k)}) <= 1

\* The channel the shell uses is the one to the process it manages, whatever
\* late answers, polls and recoveries do to the handle in between.
HandleIsChild == handle # 0 => handle = child /\ subs \in {0, child}

\* Command c is on its way, or the shell has ended and a Core that had accepted it
\* has not.
Pending(c) ==
    \/ ui # "gone" /\ cmd[c].pc \notin {"idle"} \cup Ending
    \/ ui = "gone" /\ \E k \in Cores : core[k].pc = "serve"
=============================================================================
