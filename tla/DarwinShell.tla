---------------------------- MODULE DarwinShell -----------------------------
(***************************************************************************)
(* The macOS desktop shell (darwin/rust/tauri/app): it starts the Core,    *)
(* keeps the one channel to it, forwards its events, rebuilds the session  *)
(* when a Connect finds the Core unreachable, and ends it all when the     *)
(* user quits.  The Core it starts comes first.                            *)
(***************************************************************************)
EXTENDS Naturals, FiniteSets

-----------------------------------------------------------------------------
(***************************************************************************)
(* The macOS Core process as its desktop shell sees it                     *)
(* (exv-vpn-darwin-core/src/ui_runner.rs over exv-vpn-darwin-ipc): the     *)
(* private runtime directory, the socket in it, the bootstrap record on    *)
(* stdin, the one-time mutual authentication, the served connection and    *)
(* the ordered shutdown once that connection is gone.                      *)
(*                                                                         *)
(* ses[k] is the k-th session the shell starts:                            *)
(*   dir   - the runtime directory /private/tmp/exv-vpn-*;                 *)
(*   sock  - engine.sock in it: bound, then listening;                     *)
(*   core  - where the Core's runner is;                                   *)
(*   stdin - the pipe that carries the bootstrap record;                   *)
(*   conn  - the connection and how far its handshake has come;            *)
(*   tun   - whether the Core holds a tunnel for the user.                 *)
(***************************************************************************)

CONSTANTS
    Sessions,   \* the sessions a shell may start, 1 .. n
    MaxCrash    \* how many processes die on their own

VARIABLES
    ses,        \* Sessions -> the record above
    crashes     \* deaths so far

coreVars == <<ses, crashes>>

NoSession == [dir |-> "none", sock |-> "none", core |-> "none",
              stdin |-> "none", conn |-> "none", tun |-> FALSE]

CoreInit ==
    /\ ses = [k \in Sessions |-> NoSession]
    /\ crashes = 0

Alive(k) == ses[k].core \notin {"none", "dead"}

\* The tonic server is running and the connection has been handed to it.
Serving(k) == ses[k].core \in {"cleanup", "serve"} /\ ses[k].conn = "up"

\* A connection that has been opened and not yet been closed by either side.
Open(k) == ses[k].conn \notin {"none", "closed"}

\* A process that ends takes its end of the connection and its tunnel along; the
\* socket file stays where it is.
Ended(r) == [r EXCEPT !.core = "dead", !.tun = FALSE,
                      !.conn = IF @ = "none" THEN @ ELSE "closed"]

\* revalidate_path: the held directory is still the one the path names.
Revalidated(r) == r.dir = "present"

\* RuntimeDir::cleanup_empty: rmdir, refused when anything is left inside.
CleanupEmpty(r) ==
    IF Revalidated(r) /\ r.sock = "none" THEN [r EXCEPT !.dir = "gone"] ELSE r

\* PreauthListener::cleanup: the listener is dropped and its own socket removed;
\* refused when the directory is no longer the same.
ListenerCleanup(r) == IF Revalidated(r) THEN [r EXCEPT !.sock = "none"] ELSE r

Becomes(k, r) == ses' = [ses EXCEPT ![k] = r] /\ UNCHANGED crashes

\* validate_identity: the Core only serves the process that is its parent.
ParentIs(parentAlive) == parentAlive

\* open_existing_for_uid: the directory named by the socket's path, as created.
OpenExisting(r) == r.dir = "present"

\* UiCoreBootstrapV1::decode: the whole record, followed by end of file.
RecordRead(r) == r.stdin = "written"

\* prepare_ui_core, in this order; any failure ends the process.
CorePrepares(k, parentAlive) ==
    /\ ses[k].core = "prep"
    /\ \/ /\ ParentIs(parentAlive)
          /\ OpenExisting(ses[k])
          /\ RecordRead(ses[k])
          /\ Becomes(k, [ses[k] EXCEPT !.core = "bind"])
       \/ /\ ~ParentIs(parentAlive) \/ ~OpenExisting(ses[k]) \/ ses[k].stdin = "closed"
          /\ Becomes(k, Ended(ses[k]))

\* PreauthListener::bind: bind(2) makes the file, listen(2) makes it accept.
CoreBinds(k) ==
    /\ ses[k].core = "bind"
    /\ ses[k].sock = "none"
    /\ Becomes(k, [ses[k] EXCEPT !.sock = "bound", !.core = "listen"])

CoreListens(k) ==
    /\ ses[k].core = "listen"
    /\ Becomes(k, [ses[k] EXCEPT !.sock = "listening", !.core = "accept"])

\* accept_one, whose caller accepts a single connection.
CoreAccepts(k) ==
    /\ ses[k].core = "accept"
    /\ ses[k].conn # "none"
    /\ Becomes(k, [ses[k] EXCEPT !.core = "auth"])

\* The 30 s accept deadline: the socket is removed and the Core ends.
CoreAcceptTimesOut(k) ==
    /\ ses[k].core = "accept"
    /\ ses[k].conn = "none"
    /\ Becomes(k, Ended(ListenerCleanup(ses[k])))

\* authenticate_server: answer the hello with the server's proof ...
CoreProves(k) ==
    /\ ses[k].core = "auth"
    /\ ses[k].conn = "hello"
    /\ Becomes(k, [ses[k] EXCEPT !.conn = "proof"])

\* ... and consume the key once the client's proof verifies; the connection is
\* then handed to the server, which acknowledges it.
CoreVerifies(k) ==
    /\ ses[k].core = "auth"
    /\ ses[k].conn = "final"
    /\ Becomes(k, [ses[k] EXCEPT !.core = "handoff"])

\* handoff_with_close_signal: the server polled the stream, so its drop will signal.
Delivered(r) == [r EXCEPT !.conn = IF @ = "closed" THEN @ ELSE "up"]

\* CoreUiSession::start and handoff.
CoreHandsOff(k) ==
    /\ ses[k].core = "handoff"
    /\ Becomes(k, [Delivered(ses[k]) EXCEPT !.core = "cleanup"])

\* The peer hung up, or the 5 s handshake deadline passed: a single-shot
\* admission, so the Core removes its socket and ends.
CoreAuthFails(k) ==
    /\ ses[k].core = "auth"
    /\ Becomes(k, Ended(ListenerCleanup(ses[k])))

\* cleanup_listener: once the connection is served, the socket goes.
CoreCleansUp(k) ==
    /\ ses[k].core = "cleanup"
    /\ Becomes(k, [ListenerCleanup(ses[k]) EXCEPT !.core =
                       IF Revalidated(ses[k]) THEN "serve" ELSE "drain"])

\* AuthenticatedStreamCloseNotifier: the stream was dropped.
CloseSignalled(r) == r.conn = "closed"

\* wait_for_terminal: the close signal of the connection is the only thing that
\* ends a served session in the product.
CoreSeesClose(k) ==
    /\ ses[k].core = "serve"
    /\ CloseSignalled(ses[k])
    /\ Becomes(k, [ses[k] EXCEPT !.core = "drain"])

\* drain_after_shutdown: the server task finishes, or is aborted after 5 s.
CoreDrains(k) ==
    /\ ses[k].core = "drain"
    /\ Becomes(k, [ses[k] EXCEPT !.core = "close"])

\* engine.close(), then the process returns.
CoreCloses(k) ==
    /\ ses[k].core = "close"
    /\ Becomes(k, Ended(ses[k]))

CoreCrashes(k) ==
    /\ Alive(k)
    /\ crashes < MaxCrash
    /\ crashes' = crashes + 1
    /\ ses' = [ses EXCEPT ![k] = Ended(@)]

\* What the Core does by itself when it is scheduled.
CoreSteps(k, parentAlive) ==
    \/ CorePrepares(k, parentAlive)
    \/ CoreBinds(k)
    \/ CoreListens(k)
    \/ CoreAccepts(k)
    \/ CoreProves(k)
    \/ CoreVerifies(k)
    \/ CoreHandsOff(k)
    \/ CoreCleansUp(k)
    \/ CoreSeesClose(k)
    \/ CoreDrains(k)
    \/ CoreCloses(k)

\* The deadlines of a Core nobody talks to.
CoreDeadlines(k) == CoreAcceptTimesOut(k) \/ CoreAuthFails(k)

-----------------------------------------------------------------------------

CONSTANTS
    Commands,   \* the Connect commands the frontend may have in flight
    Answers,    \* how a Core that serves may answer a Connect
    Patient     \* the 5 s waits outlast a Core that can still make progress

VARIABLES
    ui,       \* "boot", "up" or "gone": the shell's process
    handle,   \* CoreState.handle: 0 for NotWired, else the dialled session
    inner,    \* CoreSession.inner: 0, or the session whose process is owned
    held,     \* the inner mutex is held across a reap
    gate,     \* CoreSession.recovery: who holds it
    start,    \* start_core_session in progress
    cmd,      \* Commands -> where a Connect command is
    poll,     \* the channel a snapshot poll is using, or 0
    fwd,      \* Sessions -> the status forwarder of that session
    closing,  \* CLOSE_REQUEST_IN_FLIGHT
    quit,     \* shutdown_core_after_hide, and the session it waits for
    win,      \* the main window is visible
    wanted    \* the user's last accepted wish was to be connected

shellVars == <<ui, handle, inner, held, gate, start, cmd, poll, fwd, closing,
               quit, win, wanted>>
vars == <<coreVars, shellVars>>

NoStart == [pc |-> "none", k |-> 0, by |-> "none"]
Idle == [pc |-> "idle", k |-> 0, sup |-> FALSE]
Ending == {"ok", "err", "unreach"}

Init ==
    /\ CoreInit
    /\ ui = "boot"
    /\ handle = 0
    /\ inner = 0
    /\ held = FALSE
    /\ gate = "none"
    /\ start = [pc |-> "create", k |-> 0, by |-> "boot"]
    /\ cmd = [c \in Commands |-> Idle]
    /\ poll = 0
    /\ fwd = [k \in Sessions |-> "off"]
    /\ closing = FALSE
    /\ quit = [pc |-> "no", k |-> 0]
    /\ win = TRUE
    /\ wanted = FALSE

\* Command c has a request out on session k's channel.
InCall(c, k) == cmd[c].k = k /\ cmd[c].pc \in {"call", "recall"}

\* Somebody in the shell still has a clone of session k's channel.
Clone(k) ==
    /\ ui # "gone"
    /\ \/ handle = k
       \/ inner = k
       \/ start.k = k
       \/ poll = k
       \/ fwd[k] # "off"
       \/ \E c \in Commands : InCall(c, k)

\* The process of session k belongs to someone who will reap it.
Owned(k) ==
    \/ inner = k
    \/ start.k = k
    \/ quit.k = k
    \/ \E c \in Commands : cmd[c].k = k /\ cmd[c].pc = "reap"

\* The kernel closes the connection when its last user lets go of it.
ChannelCloses(k) ==
    /\ Open(k)
    /\ ~Clone(k)
    /\ Becomes(k, [ses[k] EXCEPT !.conn = "closed"])
    /\ UNCHANGED shellVars

(***************************************************************************)
(* start_core_session                                                      *)
(***************************************************************************)
\* The caller of start_core_session sees it fail: bootstrap keeps NotWired and
\* opens the window all the same, a recovering Connect reports CoreUnreachable.
StartFails ==
    /\ start' = NoStart
    /\ handle' = IF start.by = "boot" THEN handle ELSE 0
    /\ ui' = IF start.by = "boot" THEN "up" ELSE ui
    /\ cmd' = IF start.by = "boot" THEN cmd
              ELSE [cmd EXCEPT ![start.by] = [Idle EXCEPT !.pc = "unreach"]]
    /\ gate' = IF start.by = "boot" THEN gate ELSE "none"
    /\ UNCHANGED <<inner, held, poll, fwd, closing, quit, win, wanted>>

\* RuntimeDir::create: a fresh private directory.
RuntimeDirCreate(r) == [r EXCEPT !.dir = "present"]

\* spawn_fixed_core: the child with a pipe for its stdin.
SpawnFixedCore(r) == [r EXCEPT !.core = "prep", !.stdin = "open"]

\* The next session to use; the runs bound how many there are.
Fresh(k) == ses[k] = NoSession /\ \A j \in Sessions : j < k => ses[j] # NoSession

\* canonical_core_binary finds the Core in the bundle or the build tree, or does not.
BinaryFound == BOOLEAN

\* start_core_session up to the spawn; without a binary, or when it cannot be
\* spawned, cleanup_unstarted_runtime removes the directory again.
StartSpawns ==
    /\ start.pc = "create"
    /\ \/ \E k \in Sessions, found \in BinaryFound :
            /\ Fresh(k)
            /\ IF found
               THEN /\ Becomes(k, SpawnFixedCore(RuntimeDirCreate(ses[k])))
                    /\ start' = [start EXCEPT !.pc = "write", !.k = k]
                    /\ UNCHANGED <<ui, handle, inner, held, gate, cmd, poll, fwd,
                                   closing, quit, win, wanted>>
               ELSE /\ Becomes(k, CleanupEmpty(RuntimeDirCreate(ses[k])))
                    /\ StartFails
       \/ /\ \A k \in Sessions : ~Fresh(k)
          /\ StartFails
          /\ UNCHANGED coreVars

StartTo(pc) ==
    /\ start' = [start EXCEPT !.pc = pc]
    /\ UNCHANGED <<ui, handle, inner, held, gate, cmd, poll, fwd, closing, quit,
                   win, wanted>>

\* write_bootstrap: the record, then end of file; it fails on a dead child.
StartWrites ==
    /\ start.pc = "write"
    /\ \/ /\ Alive(start.k)
          /\ Becomes(start.k, [ses[start.k] EXCEPT !.stdin = "written"])
          /\ StartTo("wait")
       \/ /\ ~Alive(start.k)
          /\ UNCHANGED coreVars
          /\ StartTo("abort")

\* wait_for_core_channel: poll for the socket's path, not for its readiness.
StartWaits ==
    /\ start.pc = "wait"
    /\ \/ /\ Alive(start.k)
          /\ ses[start.k].sock # "none"
          /\ StartTo(IF Revalidated(ses[start.k]) THEN "dial" ELSE "abort")
       \/ /\ ~Alive(start.k)
          /\ StartTo("abort")
    /\ UNCHANGED coreVars

\* connect(2): refused by a socket that is bound and not yet listening.
StartDials ==
    /\ start.pc = "dial"
    /\ \/ /\ Alive(start.k)
          /\ ses[start.k].sock = "listening"
          /\ Becomes(start.k, [ses[start.k] EXCEPT !.conn = "hello"])
          /\ StartTo("proof")
       \/ /\ ~Alive(start.k) \/ ses[start.k].sock # "listening"
          /\ UNCHANGED coreVars
          /\ StartTo("abort")

\* authenticate_client: the client is done once its own proof is written.
ClientProof(r) == [r EXCEPT !.conn = "final"]

\* authenticate_client_to_tonic_channel.
StartProves ==
    /\ start.pc = "proof"
    /\ \/ /\ ses[start.k].conn = "proof"
          /\ Becomes(start.k, ClientProof(ses[start.k]))
          /\ StartTo("watch")
       \/ /\ ses[start.k].conn = "closed"
          /\ UNCHANGED coreVars
          /\ StartTo("abort")

\* open_initial_watch: the first event, the Idle snapshot, shows that the Core serves.
FirstEvent(k) == Serving(k)

\* install_session: the handle, the forwarder, the owned process.
StartInstalls ==
    /\ start.pc = "watch"
    /\ FirstEvent(start.k)
    /\ handle' = start.k
    /\ inner' = start.k
    /\ fwd' = [fwd EXCEPT ![start.k] = "watch"]
    /\ start' = NoStart
    /\ ui' = IF start.by = "boot" THEN "up" ELSE ui
    /\ cmd' = IF start.by = "boot" THEN cmd
              ELSE [cmd EXCEPT ![start.by] = [@ EXCEPT !.pc = "retry"]]
    /\ gate' = IF start.by = "boot" THEN gate ELSE "none"
    /\ UNCHANGED <<coreVars, held, poll, closing, quit, win, wanted>>

StartLosesWatch ==
    /\ start.pc = "watch"
    /\ ses[start.k].conn = "closed"
    /\ UNCHANGED coreVars
    /\ StartTo("abort")

\* CORE_READY_DEADLINE and HANDSHAKE_TIMEOUT.
StartTimesOut ==
    /\ start.pc \in {"wait", "proof", "watch"}
    /\ ~(Patient /\ Alive(start.k))
    /\ UNCHANGED coreVars
    /\ StartTo("abort")

\* abort_child_and_cleanup: kill, reap, and remove the directory if it is empty.
StartAborts ==
    /\ start.pc = "abort"
    /\ Becomes(start.k, CleanupEmpty(Ended([ses[start.k] EXCEPT !.stdin = "closed"])))
    /\ StartFails

StartSteps ==
    \/ StartSpawns
    \/ StartWrites
    \/ StartWaits
    \/ StartDials
    \/ StartProves
    \/ StartInstalls
    \/ StartLosesWatch
    \/ StartAborts

(***************************************************************************)
(* The Connect command and its recovery                                    *)
(***************************************************************************)
CmdTo(c, r) == cmd' = [cmd EXCEPT ![c] = r]

\* client.connect: take the channel, or fail as CoreUnreachable without one.
\* The Core gives the request a new generation, which supersedes the earlier ones.
Sends(c, pc, otherwise) ==
    cmd' = IF handle = 0 THEN [cmd EXCEPT ![c] = [Idle EXCEPT !.pc = otherwise]]
           ELSE [d \in Commands |->
                   IF d = c THEN [pc |-> pc, k |-> handle, sup |-> FALSE]
                   ELSE [cmd[d] EXCEPT !.sup = @ \/ InCall(d, handle)]]

CmdBegins(c) ==
    /\ ui = "up"
    /\ cmd[c].pc = "idle"
    /\ Sends(c, "call", "gate")
    /\ wanted' = TRUE
    /\ UNCHANGED <<coreVars, ui, handle, inner, held, gate, start, poll, fwd,
                   closing, quit, win>>

\* map_status: transport-class codes, whoever sent them, mean CoreUnreachable; the
\* handle is dropped and the first attempt goes on to recovery.
Unreachable(c) ==
    /\ handle' = 0
    /\ CmdTo(c, [Idle EXCEPT !.pc = IF cmd[c].pc = "call" THEN "gate" ELSE "unreach"])

\* The Core answers: accepted, refused with a typed code, or with a code of the
\* transport class - Unavailable when its engine session fails, Cancelled when a
\* later operation of the user superseded the request.
CmdAnswered(c) ==
    /\ cmd[c].pc \in {"call", "recall"}
    /\ Serving(cmd[c].k)
    /\ \/ /\ ~cmd[c].sup
          /\ "ok" \in Answers
          /\ CmdTo(c, [Idle EXCEPT !.pc = "ok"])
          /\ Becomes(cmd[c].k, [ses[cmd[c].k] EXCEPT !.tun = TRUE])
          /\ UNCHANGED handle
       \/ /\ ~cmd[c].sup
          /\ "refused" \in Answers
          /\ CmdTo(c, [Idle EXCEPT !.pc = "err"])
          /\ UNCHANGED <<coreVars, handle>>
       \/ /\ \/ ~cmd[c].sup /\ "unavailable" \in Answers
             \/ cmd[c].sup /\ "cancelled" \in Answers
          /\ Unreachable(c)
          /\ UNCHANGED coreVars
       \/ /\ cmd[c].sup
          /\ "cancelled" \notin Answers
          /\ CmdTo(c, [Idle EXCEPT !.pc = "err"])
          /\ UNCHANGED <<coreVars, handle>>
    /\ UNCHANGED <<ui, inner, held, gate, start, poll, fwd, closing, quit, win, wanted>>

\* The connection broke under the call.
CmdBreaks(c) ==
    /\ cmd[c].pc \in {"call", "recall"}
    /\ ses[cmd[c].k].conn = "closed"
    /\ Unreachable(c)
    /\ UNCHANGED <<coreVars, ui, inner, held, gate, start, poll, fwd, closing,
                   quit, win, wanted>>

\* recover_stopped_core_for_connect: one recovery at a time ...
CmdEnters(c) ==
    /\ cmd[c].pc = "gate"
    /\ gate = "none"
    /\ gate' = c
    /\ CmdTo(c, [cmd[c] EXCEPT !.pc = "probe"])
    /\ UNCHANGED <<coreVars, ui, handle, inner, held, start, poll, fwd, closing,
                   quit, win, wanted>>

\* ... which first asks whether another one has already brought the Core back ...
CmdProbes(c) ==
    /\ cmd[c].pc = "probe"
    /\ IF handle # 0 /\ Serving(handle)
       THEN /\ CmdTo(c, [cmd[c] EXCEPT !.pc = "retry"])
            /\ gate' = "none"
            /\ UNCHANGED handle
       ELSE /\ handle # 0 => ses[handle].conn = "closed"
            /\ CmdTo(c, [cmd[c] EXCEPT !.pc = "take"])
            /\ handle' = 0
            /\ UNCHANGED gate
    /\ UNCHANGED <<coreVars, ui, inner, held, start, poll, fwd, closing, quit,
                   win, wanted>>

\* Mutant: a new Core is started without reaping the old one.
CmdStartsOver(c) ==
    /\ cmd[c].pc = "take"
    /\ ~held
    /\ inner' = 0
    /\ CmdTo(c, [cmd[c] EXCEPT !.pc = "start"])
    /\ start' = [pc |-> "create", k |-> 0, by |-> c]
    /\ UNCHANGED <<coreVars, held, ui, handle, gate, poll, fwd, closing, quit, win,
                   wanted>>

\* ... then takes the old session out and closes its side.  abort_subscriptions
\* aborts what the list of handles holds; the forwarder's is never put there.
CmdTakes(c) ==
    /\ cmd[c].pc = "take"
    /\ ~held
    /\ inner' = 0
    /\ IF inner = 0
       THEN /\ CmdTo(c, [cmd[c] EXCEPT !.pc = "start"])
            /\ start' = [pc |-> "create", k |-> 0, by |-> c]
            /\ UNCHANGED <<coreVars, held>>
       ELSE /\ held' = TRUE
            /\ CmdTo(c, [cmd[c] EXCEPT !.pc = "reap", !.k = inner])
            /\ Becomes(inner, [ses[inner] EXCEPT !.stdin = "closed"])
            /\ UNCHANGED start
    /\ UNCHANGED <<ui, handle, gate, poll, fwd, closing, quit, win, wanted>>

\* close_and_reap: wait for the Core to leave by itself, kill it after 5 s, and
\* remove the directory; the new Core is started whatever came of that.
CmdReaps(c) ==
    /\ cmd[c].pc = "reap"
    /\ LET k == cmd[c].k IN
       /\ ~Alive(k) \/ ~Patient \/ Clone(k)
       /\ Becomes(k, CleanupEmpty(IF Alive(k) THEN Ended(ses[k]) ELSE ses[k]))
    /\ held' = FALSE
    /\ CmdTo(c, [cmd[c] EXCEPT !.pc = "start", !.k = 0])
    /\ start' = [pc |-> "create", k |-> 0, by |-> c]
    /\ UNCHANGED <<ui, handle, inner, gate, poll, fwd, closing, quit, win, wanted>>

\* The original request, once more and on whatever channel there is now.
CmdRetries(c) ==
    /\ cmd[c].pc = "retry"
    /\ Sends(c, "recall", "unreach")
    /\ UNCHANGED <<coreVars, ui, handle, inner, held, gate, start, poll, fwd,
                   closing, quit, win, wanted>>

\* A command that has returned leaves room for the next click.
CmdReturns(c) ==
    /\ cmd[c].pc \in Ending
    /\ CmdTo(c, Idle)
    /\ UNCHANGED <<coreVars, ui, handle, inner, held, gate, start, poll, fwd,
                   closing, quit, win, wanted>>

CmdSteps(c) ==
    \/ CmdAnswered(c)
    \/ CmdBreaks(c)
    \/ CmdEnters(c)
    \/ CmdProbes(c)
    \/ CmdTakes(c)
    \/ CmdReaps(c)
    \/ CmdRetries(c)

\* The user stops: the Core takes the tunnel down and supersedes every Connect it
\* is still working on.  Without a channel the command fails and nothing changes.
Stops ==
    /\ ui = "up"
    /\ handle # 0
    /\ Serving(handle)
    /\ wanted
    /\ wanted' = FALSE
    /\ Becomes(handle, [ses[handle] EXCEPT !.tun = FALSE])
    /\ cmd' = [c \in Commands |-> [cmd[c] EXCEPT !.sup = @ \/ InCall(c, handle)]]
    /\ UNCHANGED <<ui, handle, inner, held, gate, start, poll, fwd, closing, quit, win>>

\* snapshot and core_status: a transport failure drops whatever handle is current.
PollBegins ==
    /\ ui = "up"
    /\ poll = 0
    /\ handle # 0
    /\ poll' = handle
    /\ UNCHANGED <<coreVars, ui, handle, inner, held, gate, start, cmd, fwd,
                   closing, quit, win, wanted>>

PollReturns ==
    /\ poll # 0
    /\ \/ Serving(poll) /\ UNCHANGED handle
       \/ ses[poll].conn = "closed" /\ handle' = 0
    /\ poll' = 0
    /\ UNCHANGED <<coreVars, ui, inner, held, gate, start, cmd, fwd, closing,
                   quit, win, wanted>>

\* spawn_status_forwarder: when the stream ends it tries to reopen it, with backoff
\* and for ever, on the channel it was given.
ForwarderLoses(k) ==
    /\ fwd[k] = "watch"
    /\ ses[k].conn = "closed"
    /\ fwd' = [fwd EXCEPT ![k] = "retry"]
    /\ UNCHANGED <<coreVars, ui, handle, inner, held, gate, start, cmd, poll,
                   closing, quit, win, wanted>>

(***************************************************************************)
(* The window, the close button and quitting                               *)
(***************************************************************************)
\* handle_close_request: hide at once; one decision at a time, none while quitting.
CloseRequested ==
    /\ ui = "up"
    /\ win
    /\ win' = FALSE
    /\ closing' = (closing \/ quit.pc = "no")
    /\ UNCHANGED <<coreVars, ui, handle, inner, held, gate, start, cmd, poll, fwd,
                   quit, wanted>>

\* notify_core_shutdown: only the first call starts the shutdown.
Notified == quit' = IF quit.pc = "no" THEN [quit EXCEPT !.pc = "started"] ELSE quit

\* close_decision: "quit" and "tray" are obeyed; "smart" hides while work goes on.
CloseDecision(pref, busy) ==
    IF pref = "quit" \/ (pref = "smart" /\ ~busy) THEN "Quit" ELSE "Hide"

\* background_work of a snapshot, asked for only by "smart"; one that fails, or does
\* not come within 2 s, counts as work.
Busy(pref) ==
    IF pref # "smart" THEN {FALSE}
    ELSE {TRUE} \cup IF handle # 0 /\ Serving(handle) THEN {ses[handle].tun} ELSE {}

CloseDecided ==
    /\ ui = "up"
    /\ closing
    /\ \E pref \in {"quit", "tray", "smart"} : \E busy \in Busy(pref) :
         /\ IF CloseDecision(pref, busy) = "Quit"
            THEN Notified /\ UNCHANGED closing
            ELSE closing' = FALSE /\ UNCHANGED quit
         /\ handle' = IF pref = "smart" /\ handle # 0 /\ ses[handle].conn = "closed"
                      THEN 0 ELSE handle
    /\ UNCHANGED <<coreVars, ui, inner, held, gate, start, cmd, poll, fwd, win, wanted>>

\* show_main_window: from the tray, the Dock or a second launch.
WindowShown ==
    /\ ui = "up"
    /\ quit.pc = "no"
    /\ ~win
    /\ win' = TRUE
    /\ UNCHANGED <<coreVars, ui, handle, inner, held, gate, start, cmd, poll, fwd,
                   closing, quit, wanted>>

\* The tray's Quit and the system's exit request.
QuitRequested ==
    /\ ui = "up"
    /\ quit.pc = "no"
    /\ Notified
    /\ win' = FALSE
    /\ UNCHANGED <<coreVars, ui, handle, inner, held, gate, start, cmd, poll, fwd,
                   closing, wanted>>

\* The process is gone and with it everything it held.
Exits ==
    /\ ui' = "gone"
    /\ handle' = 0
    /\ inner' = 0
    /\ held' = FALSE
    /\ gate' = "none"
    /\ start' = NoStart
    /\ cmd' = [c \in Commands |-> Idle]
    /\ poll' = 0
    /\ fwd' = [k \in Sessions |-> "off"]
    /\ closing' = FALSE
    /\ win' = FALSE
    /\ UNCHANGED wanted

\* shutdown_core_after_hide: the handle is dropped and the session taken with
\* try_lock, which finds it locked while a recovery is reaping.
QuitTakes ==
    /\ ui = "up"
    /\ quit.pc = "started"
    /\ \/ /\ inner # 0
          /\ quit' = [pc |-> "wait", k |-> inner]
          /\ Becomes(inner, [ses[inner] EXCEPT !.stdin = "closed"])
          /\ inner' = 0
          /\ handle' = 0
          /\ UNCHANGED <<ui, held, gate, start, cmd, poll, fwd, closing, win, wanted>>
       \/ /\ inner = 0
          /\ quit' = [pc |-> "left", k |-> 0]
          /\ UNCHANGED coreVars
          /\ Exits

\* shutdown_and_cleanup_runtime_blocking: wait, at most 5 s and without killing,
\* for the Core to leave, remove the directory, and exit.
QuitFinishes ==
    /\ ui = "up"
    /\ quit.pc = "wait"
    /\ \/ /\ ~Alive(quit.k)
          /\ Becomes(quit.k, CleanupEmpty(ses[quit.k]))
          /\ quit' = [pc |-> "clean", k |-> 0]
       \/ /\ Alive(quit.k)
          /\ ~Patient \/ Clone(quit.k)
          /\ quit' = [pc |-> "late", k |-> 0]
          /\ UNCHANGED coreVars
    /\ Exits

\* The shell is killed, or the session of the desktop ends.
UiCrashes ==
    /\ ui # "gone"
    /\ crashes < MaxCrash
    /\ crashes' = crashes + 1
    /\ UNCHANGED ses
    /\ quit' = [pc |-> "crashed", k |-> 0]
    /\ Exits

Next ==
    \/ \E k \in Sessions :
         \/ (CoreSteps(k, ui # "gone") \/ CoreDeadlines(k) \/ CoreCrashes(k))
            /\ UNCHANGED shellVars
         \/ ChannelCloses(k)
         \/ ForwarderLoses(k)
    \/ StartSteps
    \/ StartTimesOut
    \/ \E c \in Commands : CmdBegins(c) \/ CmdSteps(c) \/ CmdReturns(c)
    \/ Stops
    \/ PollBegins
    \/ PollReturns
    \/ CloseRequested
    \/ CloseDecided
    \/ WindowShown
    \/ QuitRequested
    \/ QuitTakes
    \/ QuitFinishes
    \/ UiCrashes

\* What the Cores and the channels to them do, and what the shell does by itself.
CoresRun ==
    \E k \in Sessions :
        \/ (CoreSteps(k, ui # "gone") \/ CoreDeadlines(k)) /\ UNCHANGED shellVars
        \/ ChannelCloses(k)
StartRuns == StartSteps \/ StartTimesOut
QuitRuns == QuitTakes \/ QuitFinishes

-----------------------------------------------------------------------------
\* Until the user quits, the shell never has two Cores running: a recovery reaps the
\* old process before it starts a new one, and a Core that did not come up is killed
\* (recover_stopped_core_for_connect, abort_child_and_cleanup).
OneCore == quit.pc = "no" => Cardinality({k \in Sessions : Alive(k)}) <= 1

\* Commands only ever go to the session whose process the shell owns: every path
\* that gives up the process has dropped the handle before (mark_stopped, then take).
HandleIsOwned == handle # 0 => inner = handle

\* Until the user quits, a runtime directory nobody owns any more is still there only
\* because a Core that died before its own cleanup left its socket in it.
DirsAreReclaimed ==
    \A k \in Sessions :
        ui # "gone" /\ ses[k].dir = "present" /\ ~Owned(k) => ses[k].sock # "none"

\* Command c is on its way, the user has asked to quit, or the shell has ended and a
\* Core it started has not.
Pending(c) ==
    \/ ui # "gone" /\ cmd[c].pc \notin {"idle"} \cup Ending
    \/ ui # "gone" /\ quit.pc # "no"
    \/ ui = "gone" /\ \E k \in Sessions : Alive(k)
=============================================================================
