--------------------------- MODULE OneshotBootstrap ---------------------------
(***************************************************************************)
(* Starting a one-shot Engine on macOS.  The Core makes a private runtime  *)
(* directory and a ticket in it (a fresh key), and asks for elevation      *)
(* (engine_lifecycle_real.rs, service_lifecycle.rs); the elevated service  *)
(* agent spawns the Engine (macos.rs); the Engine consumes the ticket,     *)
(* seals the directory for root, publishes its socket and serves the one   *)
(* Core that can prove the key (bootstrap_runtime.rs over                  *)
(* exv-vpn-darwin-ipc).  Nothing tells the Engine that the Core has given  *)
(* up, nor the Core that the Engine has: they meet in the file system.     *)
(*                                                                         *)
(* l[a] is the a-th launch, each with a directory of its own:              *)
(*   core   - launch_fixed_engine_session and the session it returns;      *)
(*   cli    - osascript and the agent it runs;                             *)
(*   eng    - the Engine process;                                          *)
(*   dir    - none, user (0700), chowned, sealed (root, 0711), gone;       *)
(*   ticket - whether engine.ticket is there;                              *)
(*   sock   - none, bound (root's), published (the user's);                *)
(*   conn   - the one connection and how far its handshake has come;       *)
(*   fault  - a process was killed or a system call failed (history).      *)
(***************************************************************************)
EXTENDS Naturals

CONSTANTS
    Launches,   \* the launches one Core makes, 1 .. n
    MaxFault    \* how many kills and failed system calls there are

VARIABLES
    l,          \* Launches -> the record above
    faults,     \* faults so far
    coreAlive   \* the Core process

vars == <<l, faults, coreAlive>>

NoLaunch == [core |-> "none", cli |-> "none", eng |-> "none", dir |-> "none",
             ticket |-> FALSE, sock |-> "none", conn |-> "none", fault |-> FALSE]

Init ==
    /\ l = [a \in Launches |-> NoLaunch]
    /\ faults = 0
    /\ coreAlive = TRUE

Settled(r) == r.core \in {"failed", "closed", "dead"}
EngineGone(r) == r.eng \in {"none", "exited"}

Set(a, r) == l' = [l EXCEPT ![a] = r] /\ UNCHANGED <<faults, coreAlive>>

\* One system call fails, or one process is killed.
Faulty(a, r) ==
    /\ faults < MaxFault
    /\ faults' = faults + 1
    /\ l' = [l EXCEPT ![a] = [r EXCEPT !.fault = TRUE]]
    /\ UNCHANGED coreAlive

-----------------------------------------------------------------------------
\* The runtime directory and what is in it, as both sides see them.

\* runtime_dir_identity_from_*: a directory of the user's with mode 0700 ...
UserIdentity(r) == r.dir = "user"

\* ... from the held descriptor, from the path and from the held parent.
UserIdentityAtPath(r) == r.dir = "user"

\* sealed_runtime_dir_identity_from_*: root's, with mode 0711.
SealedIdentity(r) == r.dir = "sealed"

\* revalidate_sealed_path and revalidate_unsealed_path: the handle remembers
\* which of the two it expects.
RevalidateSealed(r) == SealedIdentity(r)
RevalidateUnsealed(r) == UserIdentity(r) /\ UserIdentityAtPath(r)

\* cleanup_empty: rmdir, refused while something is inside.
CleanupEmpty(r, ok) ==
    IF ok /\ ~r.ticket /\ r.sock = "none" THEN [r EXCEPT !.dir = "gone"] ELSE r

\* ticket_identity_from_path and unlinkat: the ticket that was recorded.
TicketIdentity(r) == r.ticket
UnlinkTicket(r) == [r EXCEPT !.ticket = FALSE]

\* guarded_remove_engine_ticket.
GuardedRemoveTicket(r) ==
    IF RevalidateUnsealed(r) /\ TicketIdentity(r) THEN UnlinkTicket(r) ELSE r

\* remove_engine_ticket_for_failed_bootstrap reads the identity it then removes.
RemoveTicketOfFailedBootstrap(r) == GuardedRemoveTicket(r)

\* engine_socket_identity: the leaf through the held, sealed directory.
SocketIdentity(r, owner) == r.sock = owner

\* guarded_cleanup_engine_socket.
GuardedCleanupSocket(r, owner) ==
    IF RevalidateSealed(r) /\ SocketIdentity(r, owner)
    THEN [r EXCEPT !.sock = "none"] ELSE r

\* cleanup_sealed_engine_socket_and_runtime: the socket first, then the directory.
CleanupSocketAndRuntime(r, owner) ==
    CleanupEmpty(GuardedCleanupSocket(r, owner), RevalidateSealed(r))

-----------------------------------------------------------------------------
\* The Core.

\* Launches are made one after the other.
MayLaunch(a) ==
    /\ coreAlive
    /\ l[a].core = "none"
    /\ \A b \in Launches : b < a => Settled(l[b])

\* RuntimeDir::create: mkdirat under /private/tmp, then fchmod and the three identities.
CreateRuntimeDir(a) ==
    /\ MayLaunch(a)
    /\ \/ Set(a, [l[a] EXCEPT !.core = "made", !.dir = "user"])
       \/ Faulty(a, [l[a] EXCEPT !.core = "failed"])

\* create_engine_ticket: exclusive creation, the mode, the whole record, the
\* checks.  A failure removes the ticket; the caller then keeps the directory.
CreateTicket(a) ==
    /\ l[a].core = "made"
    /\ RevalidateUnsealed(l[a])
    /\ \/ Set(a, [l[a] EXCEPT !.core = "ticketed", !.ticket = TRUE])
       \/ Faulty(a, [l[a] EXCEPT !.core = "failed"])

\* run_oneshot_elevation: osascript with the start-engine-once payload.
Elevates(a) ==
    /\ l[a].core = "ticketed"
    /\ Set(a, [l[a] EXCEPT !.core = "asking", !.cli = "prompt"])

\* A launch that failed before an Engine was reported takes its own files back: its
\* ticket first ...
LaunchAborts(r) == [r EXCEPT !.core = "clearing"]

LaunchClears(a) ==
    /\ l[a].core = "clearing"
    /\ Set(a, [GuardedRemoveTicket(l[a]) EXCEPT !.core = "revalidating"])

\* ... then the directory, if it still is the one that was made ...
LaunchRevalidates(a) ==
    /\ l[a].core = "revalidating"
    /\ Set(a, [l[a] EXCEPT !.core = IF RevalidateUnsealed(l[a]) THEN "removing" ELSE "failed"])

\* ... which the sticky parent only lets its owner remove.
LaunchRemoves(a) ==
    /\ l[a].core = "removing"
    /\ Set(a, [CleanupEmpty(l[a], l[a].dir = "user") EXCEPT !.core = "failed"])

\* parse_engine_pid_line: the agent's single line is the Engine's pid.
PidLine(r) == r.cli = "printed"

\* The elevation ended: with the pid, or refused, or with an error.
Elevated(a) ==
    /\ l[a].core = "asking"
    /\ \/ PidLine(l[a]) /\ Set(a, [l[a] EXCEPT !.core = "waiting", !.cli = "done"])
       \/ l[a].cli = "error" /\ Set(a, LaunchAborts([l[a] EXCEPT !.cli = "done"]))

\* ELEVATION_BOUND: osascript is killed.  A prompt goes with it; an agent that is
\* already running as root goes on, and nobody reads what it prints.
ElevationTimesOut(a) ==
    /\ l[a].core = "asking"
    /\ l[a].cli \in {"prompt", "running", "spawned"}
    /\ Set(a, LaunchAborts([l[a] EXCEPT !.cli = IF @ = "prompt" THEN "done" ELSE @]))

\* wait_for_engine_socket: the name is there (a root-owned socket counts) ...
SocketSeen(a) ==
    /\ l[a].core = "waiting"
    /\ l[a].sock # "none"
    /\ Set(a, [l[a] EXCEPT !.core = "dialing"])

\* ... or 30 s have passed.
SocketNotSeen(a) ==
    /\ l[a].core = "waiting"
    /\ l[a].sock = "none"
    /\ Set(a, [l[a] EXCEPT !.core = "failed"])

Listening(r) == r.eng \in {"publishing", "rechecking", "accepting", "authenticating"}

\* connect_authenticated_engine: connect(2) needs write permission on the socket and
\* a listener; then the hello.
CoreDials(a) ==
    /\ l[a].core = "dialing"
    /\ IF l[a].sock = "published" /\ Listening(l[a])
       THEN Set(a, [l[a] EXCEPT !.core = "greeting", !.conn = "hello"])
       ELSE Set(a, [l[a] EXCEPT !.core = "failed"])

\* parse_server_proof, then the client's own proof: the session is established for
\* the Core as soon as that has been written.
CoreProves(a) ==
    /\ l[a].core = "greeting"
    /\ l[a].conn = "proof"
    /\ Set(a, [l[a] EXCEPT !.core = "up", !.conn = "final"])

Closed(r) == [r EXCEPT !.conn = IF @ = "none" THEN @ ELSE "closed"]

\* The handshake's 5 s, or the Engine hung up.
CoreHandshakeFails(a) ==
    /\ l[a].core = "greeting"
    /\ Set(a, [Closed(l[a]) EXCEPT !.core = "failed"])

\* EngineControlSession::close: dropping the client is dropping the connection.
CoreCloses(a) ==
    /\ l[a].core = "up"
    /\ Set(a, [Closed(l[a]) EXCEPT !.core = "closed"])

\* The Core process dies; its osascript child does not.
CoreDies ==
    /\ coreAlive
    /\ faults < MaxFault
    /\ faults' = faults + 1
    /\ coreAlive' = FALSE
    /\ l' = [a \in Launches |->
                IF l[a].core = "none" \/ Settled(l[a]) THEN l[a]
                ELSE [Closed(l[a]) EXCEPT !.core = "dead", !.fault = TRUE]]

-----------------------------------------------------------------------------
\* The elevated service agent.

\* The user answers the prompt.
Prompted(a) ==
    /\ l[a].cli = "prompt"
    /\ \E answer \in {"running", "error"} : Set(a, [l[a] EXCEPT !.cli = answer])

\* validate_oneshot_runtime_dir: a real directory of the owner's.
ValidRuntimeDir(r) == r.dir = "user"

\* start_engine_once: check, then spawn_engine_guarded with the owner's real uid and
\* root's effective one.
AgentStartsEngine(a) ==
    /\ l[a].cli = "running"
    /\ IF ValidRuntimeDir(l[a])
       THEN \/ Set(a, [l[a] EXCEPT !.cli = "spawned", !.eng = "opening"])
            \/ Faulty(a, [l[a] EXCEPT !.cli = "error"])
       ELSE Set(a, [l[a] EXCEPT !.cli = "error"])

\* The pid is printed and the agent ends; the Engine lives on.
AgentEnds(a) ==
    /\ l[a].cli = "spawned"
    /\ Set(a, [l[a] EXCEPT !.cli = "printed"])

-----------------------------------------------------------------------------
\* The Engine, up to the point where it serves.

Exited(r) == [Closed(r) EXCEPT !.eng = "exited"]

\* run_from_process: the identity, then open_existing_for_uid.
EngineOpens(a) ==
    /\ l[a].eng = "opening"
    /\ IF UserIdentity(l[a])
       THEN \/ Set(a, [l[a] EXCEPT !.eng = "reading"])
            \/ Faulty(a, Exited(l[a]))
       ELSE Set(a, Exited(l[a]))

\* cleanup_failed_bootstrap_runtime: the ticket, then the empty directory.
BootstrapFails(r) == [r EXCEPT !.eng = "failing"]

EngineClears(a) ==
    /\ l[a].eng = "failing"
    /\ Set(a, [RemoveTicketOfFailedBootstrap(l[a]) EXCEPT !.eng = "leaving"])

EngineLeaves(a) ==
    /\ l[a].eng = "leaving"
    /\ Set(a, Exited(CleanupEmpty(l[a], RevalidateUnsealed(l[a]))))

\* consume_engine_ticket: revalidate, open, check the size, read and decode.
EngineReadsTicket(a) ==
    /\ l[a].eng = "reading"
    /\ IF RevalidateUnsealed(l[a]) /\ TicketIdentity(l[a])
       THEN \/ Set(a, [l[a] EXCEPT !.eng = "unlinking"])
            \/ Faulty(a, BootstrapFails(l[a]))
       ELSE Set(a, BootstrapFails(l[a]))

\* ... and, if the path still names what was read, unlink: the ticket is spent
\* before its key is used.
EngineSpendsTicket(a) ==
    /\ l[a].eng = "unlinking"
    /\ IF TicketIdentity(l[a])
       THEN Set(a, [UnlinkTicket(l[a]) EXCEPT !.eng = "sealing"])
       ELSE Set(a, BootstrapFails(l[a]))

\* seal_for_root_publisher: still the user's directory at the path ...
EngineRevalidates(a) ==
    /\ l[a].eng = "sealing"
    /\ Set(a, IF RevalidateUnsealed(l[a]) THEN [l[a] EXCEPT !.eng = "chowning"]
              ELSE Exited(l[a]))

\* ... fchown through the held descriptor, which works on a removed directory too ...
EngineChowns(a) ==
    /\ l[a].eng = "chowning"
    /\ \/ Set(a, [l[a] EXCEPT !.eng = "chmodding",
                              !.dir = IF @ = "user" THEN "chowned" ELSE @])
       \/ Faulty(a, Exited(l[a]))

\* ... fchmod, and the name in the parent and the path still lead there.
EngineSeals(a) ==
    /\ l[a].eng = "chmodding"
    /\ Set(a, IF l[a].dir = "chowned"
              THEN [l[a] EXCEPT !.eng = "binding", !.dir = "sealed"]
              ELSE Exited(l[a]))

\* prepare_root_publisher_socket and bind under the private umask: from here the
\* name exists, and is root's.
EngineBinds(a) ==
    /\ l[a].eng = "binding"
    /\ RevalidateSealed(l[a])
    /\ l[a].sock = "none"
    /\ \/ Set(a, [l[a] EXCEPT !.eng = "publishing", !.sock = "bound"])
       \/ Faulty(a, Exited(l[a]))

\* fchown_engine_socket_nofollow gives the socket to the user; abort_root_publish
\* takes socket and directory back when it fails.
EnginePublishes(a) ==
    /\ l[a].eng = "publishing"
    /\ RevalidateSealed(l[a])
    /\ SocketIdentity(l[a], "bound")
    /\ \/ Set(a, [l[a] EXCEPT !.eng = "rechecking", !.sock = "published"])
       \/ Faulty(a, Exited(CleanupSocketAndRuntime(l[a], "bound")))

\* revalidate_published_root_endpoint; then the Ready record, to a closed stdout.
EngineRechecks(a) ==
    /\ l[a].eng = "rechecking"
    /\ Set(a, IF RevalidateSealed(l[a]) /\ SocketIdentity(l[a], "published")
              THEN [l[a] EXCEPT !.eng = "accepting"]
              ELSE Exited(CleanupSocketAndRuntime(l[a], "published")))

\* accept_one: verify_peer (the Core's uid and pid), then read the hello and answer it.
EngineAccepts(a) ==
    /\ l[a].eng = "accepting"
    /\ l[a].conn = "hello"
    /\ Set(a, [l[a] EXCEPT !.eng = "authenticating", !.conn = "proof"])

\* The client's proof verifies and spends the key; the connection is handed over.
EngineVerifies(a) ==
    /\ l[a].eng = "authenticating"
    /\ l[a].conn = "final"
    /\ Set(a, [l[a] EXCEPT !.eng = "serving", !.conn = "up"])

\* accept_until_authenticated: a connection that fails is not the end of it.
EngineDropsConnection(a) ==
    /\ l[a].eng = "authenticating"
    /\ Set(a, [Closed(l[a]) EXCEPT !.eng = "accepting"])

\* PreauthListener::cleanup, then the exit record.
EngineCleansUp(r) == Exited(CleanupSocketAndRuntime(r, "published"))

\* The 30 s admission deadline.
EngineAdmissionEnds(a) ==
    /\ l[a].eng \in {"accepting", "authenticating"}
    /\ Set(a, EngineCleansUp(l[a]))

\* The connection's close signal, a POSIX signal or the heartbeat watchdog.
EngineTriggered(a) ==
    /\ l[a].eng = "serving"
    /\ Set(a, [l[a] EXCEPT !.eng = "converging"])

\* converge_and_await_teardown is bounded; then the server is drained and the
\* listener cleaned up.
EngineConverges(a) ==
    /\ l[a].eng = "converging"
    /\ Set(a, EngineCleansUp(l[a]))

EngineDies(a) ==
    /\ ~EngineGone(l[a])
    /\ Faulty(a, Exited(l[a]))

-----------------------------------------------------------------------------
CoreSteps(a) ==
    \/ CreateTicket(a) \/ Elevates(a) \/ Elevated(a) \/ LaunchClears(a)
    \/ LaunchRevalidates(a) \/ LaunchRemoves(a) \/ SocketSeen(a) \/ CoreDials(a)
    \/ CoreProves(a)

CoreDeadlines(a) == ElevationTimesOut(a) \/ SocketNotSeen(a) \/ CoreHandshakeFails(a)

AgentSteps(a) == AgentStartsEngine(a) \/ AgentEnds(a)

EngineSteps(a) ==
    \/ EngineOpens(a) \/ EngineReadsTicket(a) \/ EngineSpendsTicket(a) \/ EngineClears(a)
    \/ EngineLeaves(a)
    \/ EngineRevalidates(a) \/ EngineChowns(a) \/ EngineSeals(a) \/ EngineBinds(a)
    \/ EnginePublishes(a) \/ EngineRechecks(a) \/ EngineAccepts(a) \/ EngineVerifies(a)
    \/ EngineConverges(a)

EngineDeadlines(a) == EngineDropsConnection(a) \/ EngineAdmissionEnds(a)

\* The close signal ends a served session; the other triggers may.
EngineSeesClose(a) == l[a].conn = "closed" /\ EngineTriggered(a)

Next ==
    \/ CoreDies
    \/ \E a \in Launches :
        \/ CreateRuntimeDir(a) \/ CoreSteps(a) \/ CoreDeadlines(a) \/ CoreCloses(a)
        \/ Prompted(a) \/ AgentSteps(a) \/ EngineSteps(a) \/ EngineDeadlines(a)
        \/ EngineTriggered(a) \/ EngineDies(a)

\* Running processes are scheduled and their timers fire; the user need not answer.
CoreGoes(a) == CoreSteps(a) \/ CoreDeadlines(a)
EngineGoes(a) == EngineSteps(a) \/ EngineDeadlines(a) \/ EngineSeesClose(a)

-----------------------------------------------------------------------------
\* A launch that is over, however it ended, has left nothing under /private/tmp: no
\* ticket with its key, no socket, no directory.  The Core gives up without knowing
\* whether an Engine was started, and the Engine starts without knowing whether the
\* Core has given up.  A killed process or a failed system call may leave files; a
\* ticket is only ever left by a kill or an Engine that could not open the directory.
LeavesNothing ==
    \A a \in Launches :
        LET r == l[a]
        IN (Settled(r) /\ EngineGone(r) /\ r.cli \in {"none", "done", "printed", "error"}
            /\ ~r.fault)
               => r.dir \in {"none", "gone"} /\ ~r.ticket /\ r.sock = "none"

\* launch_fixed_engine_session has not returned.
Launching(a) == l[a].core \notin {"none", "up"} /\ ~Settled(l[a])

\* An Engine whose Core has given up, closed the session or died.
Orphaned(a) == Settled(l[a]) /\ ~EngineGone(l[a])

=============================================================================
