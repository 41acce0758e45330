--------------------------- MODULE DarwinService ----------------------------
(***************************************************************************)
(* The macOS service as its users drive it: the Core's service_control     *)
(* (install, uninstall, start, one at a time behind a lock) and the repair *)
(* ladder of a connect (outside that lock) run the root verbs below        *)
(* through an elevation prompt the user may deny and that times out while  *)
(* the root shell it started goes on.                                      *)
(***************************************************************************)
EXTENDS Naturals, Sequences, FiniteSets

-----------------------------------------------------------------------------
(***************************************************************************)
(* What the macOS service agent keeps on disk, and the guards its verbs    *)
(* apply before they create or unlink any of it.  A file is "none", "torn" *)
(* (created but not finished: its mode, owner or contents are not the      *)
(* specified ones), "done", or the user it is for: the one a descriptor    *)
(* enrolls, the owner of a sealed socket.  The two descriptors are in      *)
(* /Library/LaunchDaemons, everything else is in the install directory.    *)
(***************************************************************************)

CONSTANT Users

Descriptors == {"desc", "engdesc"}
Sockets == {"sock", "engsock"}
Artifacts == {"bin", "desc", "state", "log", "sock", "engbin", "engdesc", "engsock"}

\* The order in which install and uninstall unlink.
InstallRemoves == <<"desc", "state", "bin", "engdesc", "engbin", "engsock">>

UninstallRemoves == <<"desc", "engdesc", "state", "log", "bin", "engbin", "sock", "engsock">>

\* Nothing was ever installed.
CleanDisk == [a \in Artifacts \cup {"dir"} |-> "none"]

\* stat_artifact: the parent has to be there and controlled by root.
Statable(f, a) == a \in Descriptors \/ f["dir"] = "done"

\* validate_identity: kind, mode and owner are those of the specification.
\* A descriptor's contents are not looked at, and its mode is the default.
Identical(f, a, u) ==
    CASE a \in Descriptors -> TRUE
      [] a \in Sockets -> f[a] = u
      [] OTHER -> f[a] = "done"

\* guarded_remove_artifact accepts what is absent or exactly as specified.
StrictlyRemovable(f, a, u) ==
    /\ Statable(f, a)
    /\ f[a] = "none" \/ Identical(f, a, u)

\* orphan_remove_leaf accepts any leaf of a controlled parent, and a parent
\* that is not there.
OrphanRemovable(f, a) == TRUE

Without(f, a) == [f EXCEPT ![a] = "none"]

\* verify_enrolled_owner: the descriptor reads exactly as u's would.
Enrolled(f, u) == f["desc"] = u

\* A new file: the directory is made, the leaf must be absent.
Creatable(f, a) == f[a] = "none"

Created(f, a, u) ==
    [f EXCEPT !["dir"] = IF a \in Descriptors THEN @ ELSE "done",
              ![a] = IF a \in Descriptors THEN u ELSE "done"]

\* What a write that did not finish leaves behind.
TornBy(f, a) == [f EXCEPT !["dir"] = IF a \in Descriptors THEN @ ELSE "done", ![a] = "torn"]

\* remove_empty_install_dirs: rmdir, and a directory with something in it stays.
DirRemoved(f) ==
    IF \A a \in Artifacts \ Descriptors : f[a] = "none" THEN Without(f, "dir") ELSE f

\* remove_safe_stale_socket: the agent recycles whatever is at its socket's name.
AgentMayBind(f, u) == f["dir"] = "done"

\* remove_safe_stale_service_socket: the engine only recycles its own.
EngineMayBind(f, u) == f["dir"] = "done" /\ f["engsock"] \in {"none", u}

\* What the two runtime sweeps do to a directory under /private/tmp: a live
\* creator's is kept, so is one with an entry that is not known.
Swept(d) == IF d = "dead" THEN "none" ELSE d

-----------------------------------------------------------------------------
(***************************************************************************)
(* launchd's two jobs of the macOS service and the processes it runs for   *)
(* them: the agent, a root daemon that answers its owner on control.sock   *)
(* and is always restarted, and the service engine, which admits one core  *)
(* at a time on engine.sock and is restarted unless it exits cleanly.      *)
(* bootout kills the agent at once; the engine handles SIGTERM, so that    *)
(* its job is "leaving" until the engine has exited.                       *)
(***************************************************************************)

VARIABLES
    file,     \* the artifacts on disk
    job,      \* [{"agent", "engine"} -> "no", "yes", "leaving"]: loaded in launchd
    who,      \* [{"agent", "engine"} -> the user of the loaded descriptor]
    agent,    \* the agent: "none", "start", "bound", "serve"
    engine    \* the engine: those, and "busy" with a core's session

jobVars == <<file, job, who, agent, engine>>

Plist(j) == IF j = "agent" THEN "desc" ELSE "engdesc"

JobsTypeOK ==
    /\ file \in [Artifacts \cup {"dir"} -> {"none", "torn", "done"} \cup Users]
    /\ job \in [{"agent", "engine"} -> {"no", "yes", "leaving"}]
    /\ who \in [{"agent", "engine"} -> {"none"} \cup Users]
    /\ agent \in {"none", "start", "bound", "serve"}
    /\ engine \in {"none", "start", "bound", "serve", "busy"}

JobsInit ==
    /\ file = CleanDisk
    /\ job = [j \in {"agent", "engine"} |-> "no"]
    /\ who = [j \in {"agent", "engine"} |-> "none"]
    /\ agent = "none" /\ engine = "none"

-----------------------------------------------------------------------------
(* launchctl. *)

\* bootstrap reads the descriptor and fails for a label that is still there.
Bootstrappable(j) == job[j] = "no" /\ file[Plist(j)] \in Users

Bootstrap(j) ==
    /\ Bootstrappable(j)
    /\ job' = [job EXCEPT ![j] = "yes"]
    /\ who' = [who EXCEPT ![j] = file[Plist(j)]]
    /\ UNCHANGED <<file, agent, engine>>

\* run_fixed_launchctl_for_engine, EnsureBootstrap: a failed bootstrap is
\* looked at again with print, which finds a job that is still leaving too.
EnsureFails == ~Bootstrappable("engine") /\ job["engine"] = "no"

Ensure ==
    \/ Bootstrap("engine")
    \/ job["engine"] # "no" /\ UNCHANGED jobVars

Bootout(j) ==
    /\ job[j] = "yes"
    /\ UNCHANGED <<file, who>>
    /\ IF j = "agent"
       THEN /\ job' = [job EXCEPT !["agent"] = "no"] /\ agent' = "none"
            /\ UNCHANGED engine
       ELSE /\ job' = [job EXCEPT !["engine"] = IF engine = "none" THEN "no" ELSE "leaving"]
            /\ UNCHANGED <<agent, engine>>

-----------------------------------------------------------------------------
(* The agent. *)

AgentLaunched ==
    /\ job["agent"] = "yes" /\ agent = "none" /\ file["bin"] = "done"
    /\ agent' = "start"
    /\ UNCHANGED <<file, job, who, engine>>

\* BoundSocket::bind, up to the bound socket, which is still root's.
AgentBinds ==
    /\ agent = "start"
    /\ IF AgentMayBind(file, who["agent"])
       THEN file' = [file EXCEPT !["sock"] = "torn"] /\ agent' = "bound"
       ELSE agent' = "none" /\ UNCHANGED file
    /\ UNCHANGED <<job, who, engine>>

\* seal_bound_socket: it is given to the owner, if it is still there.
AgentSeals ==
    /\ agent = "bound"
    /\ IF file["sock"] = "torn"
       THEN file' = [file EXCEPT !["sock"] = who["agent"]] /\ agent' = "serve"
       ELSE agent' = "none" /\ UNCHANGED file
    /\ UNCHANGED <<job, who, engine>>

\* serve_one_connection: the agent answers its owner, and nobody else can
\* open the socket.
Accepted(u) == agent = "serve" /\ u = who["agent"] /\ file["sock"] = u

\* handle_daemon_request, EnsureEngine.
AgentEnsures(u) == Accepted(u) /\ Ensure

\* handle_daemon_request, Cleanup: the state and log leaves.
AgentCleansUp(u) ==
    /\ Accepted(u)
    /\ StrictlyRemovable(file, "state", u)
    /\ file' = Without(file, "state")
    /\ UNCHANGED <<job, who, agent, engine>>

\* The agent dies; its socket stays unless serve_forever itself gave up.
AgentDies ==
    /\ agent # "none" /\ agent' = "none"
    /\ \/ UNCHANGED file
       \/ /\ agent = "serve" /\ file["sock"] = who["agent"]
          /\ file' = Without(file, "sock")
    /\ UNCHANGED <<job, who, engine>>

-----------------------------------------------------------------------------
(* The service engine. *)

\* The job of an engine that has exited: gone if it was being booted out.
Exited == [job EXCEPT !["engine"] = IF @ = "leaving" THEN "no" ELSE @]

EngineLaunched ==
    /\ job["engine"] = "yes" /\ engine = "none" /\ file["engbin"] = "done"
    /\ engine' = "start"
    /\ UNCHANGED <<file, job, who, agent>>

\* ServiceListener::bind, up to the bound socket.
EngineBinds ==
    /\ engine = "start"
    /\ IF EngineMayBind(file, who["engine"])
       THEN file' = [file EXCEPT !["engsock"] = "torn"] /\ engine' = "bound" /\ UNCHANGED job
       ELSE engine' = "none" /\ job' = Exited /\ UNCHANGED file
    /\ UNCHANGED <<who, agent>>

EngineSeals ==
    /\ engine = "bound"
    /\ IF file["engsock"] = "torn"
       THEN file' = [file EXCEPT !["engsock"] = who["engine"]] /\ engine' = "serve" /\ UNCHANGED job
       ELSE engine' = "none" /\ job' = Exited /\ UNCHANGED file
    /\ UNCHANGED <<who, agent>>

\* The session of a core ends - it closed the stream or its heartbeats
\* stopped - and the engine accepts again.
EngineFreed ==
    /\ engine = "busy" /\ engine' = "serve"
    /\ UNCHANGED <<file, job, who, agent>>

\* ServiceListener::cleanup unlinks the socket only while it is its own.
Uncovered == IF file["engsock"] = who["engine"] THEN Without(file, "engsock") ELSE file

\* Terminated, the session loop converges, cleans up and exits with 0; an
\* engine that has no handler yet is simply killed.
EngineTerminated ==
    /\ job["engine"] = "leaving" /\ engine \in {"start", "serve", "busy"}
    /\ engine' = "none" /\ job' = Exited
    /\ file' = IF engine = "start" THEN file ELSE Uncovered
    /\ UNCHANGED <<who, agent>>

\* The engine crashes, or its listener fails and it cleans up.
EngineDies ==
    /\ engine # "none" /\ engine' = "none" /\ job' = Exited
    /\ \/ UNCHANGED file
       \/ engine = "serve" /\ file' = Uncovered /\ file' # file
    /\ UNCHANGED <<who, agent>>

AgentSteps == AgentLaunched \/ AgentBinds \/ AgentSeals
EngineSteps == EngineLaunched \/ EngineBinds \/ EngineSeals \/ EngineTerminated

-----------------------------------------------------------------------------
(***************************************************************************)
(* The root verbs of the macOS service agent: install, uninstall, start,   *)
(* retire-legacy and sweep-runtime-residue, each a process that runs its   *)
(* steps in order and stops at the first that fails.  Every step is an     *)
(* action: launchd, the agent, the engine and another verb go on between   *)
(* any two of them, and the process may be killed anywhere, in the middle  *)
(* of a write included.                                                    *)
(***************************************************************************)

CONSTANT MaxFault    \* bound: crashes, deaths and failed steps

VARIABLES
    cli,      \* [1..2 -> a root shell: the verbs still to run and the current one]
    legacy,   \* what is left of the retired installation: "job", "desc", "dir"
    run,      \* a runtime directory under /private/tmp: "none", "live", "dead", "odd"
    faults,   \* how many faults happened
    crossed   \* ghost: two requests changed the installation at the same time

cliVars == <<cli, legacy, run, faults, crossed>>
sysVars == <<jobVars, cliVars>>

Slots == 1 .. 2

Off == [todo |-> <<>>, pc |-> 0, u |-> "none", has |-> FALSE, out |-> "none", calm |-> TRUE]

Alive(p) == cli[p].out = "run"
Verb(p) == cli[p].todo[1]

Fault == faults < MaxFault /\ faults' = faults + 1

-----------------------------------------------------------------------------
(* The verbs, as sequences of steps.  "try" steps are best effort. *)

RetireLegacy == <<<<"legacy", "job">>, <<"legacy", "desc">>, <<"legacy", "dir">>>>

Removals(s) == [i \in 1 .. Len(s) |-> <<"rm", s[i]>>]

\* With a descriptor in place its owner is verified and the agent stopped;
\* the step that looks for it is the second one.
\* Mutant: whoever installs is not compared with the enrolled owner.
InstallUnverified(has) ==
    <<<<"try", "engine">>, <<"look", "">>>>
    \o (IF has THEN <<<<"try", "agent">>>> ELSE <<>>)
    \o RetireLegacy
    \o Removals(InstallRemoves)
    \o <<<<"make", "bin">>, <<"make", "desc">>, <<"make", "state">>,
         <<"make", "engbin">>, <<"make", "engdesc">>,
         <<"in", "agent">>, <<"ensure", "engine">>>>

InstallWith(has) ==
    <<<<"try", "engine">>, <<"look", "">>>>
    \o (IF has THEN <<<<"verify", "">>, <<"try", "agent">>>> ELSE <<>>)
    \o RetireLegacy
    \o Removals(InstallRemoves)
    \o <<<<"make", "bin">>, <<"make", "desc">>, <<"make", "state">>,
         <<"make", "engbin">>, <<"make", "engdesc">>,
         <<"in", "agent">>, <<"ensure", "engine">>>>

UninstallWith(has) ==
    <<<<"look", "">>>>
    \o (IF has THEN <<<<"verify", "">>>> ELSE <<>>)
    \o <<<<"nudge", "">>, <<"try", "engine">>>>
    \o RetireLegacy
    \o <<<<"out", "agent">>>>
    \o Removals(UninstallRemoves)
    \o <<<<"rmdir", "">>>>

StartWith == <<<<"try", "agent">>, <<"in", "agent">>, <<"ensure", "engine">>>>

Program(v, has) ==
    CASE v = "install" -> InstallWith(has)
      [] v = "uninstall" -> UninstallWith(has)
      [] v = "start" -> StartWith
      [] v = "retire" -> RetireLegacy
      [] v = "sweep" -> <<<<"sweep", "">>>>
      [] v = "rm" -> <<<<"logs", "">>>>

Step(p) == Program(Verb(p), cli[p].has)[cli[p].pc]
At(p, op) == Alive(p) /\ Step(p)[1] = op
Arg(p) == Step(p)[2]

-----------------------------------------------------------------------------
(* How a step ends. *)

\* The last step of the last verb ends the shell with the verb's result;
\* the purge line of uninstall goes on after a verb that failed, and its own
\* result is that of the rm that ends it.
EndVerb(p, r) ==
    LET rest == Tail(cli[p].todo)
    IN IF rest = <<>> THEN [cli[p] EXCEPT !.out = r, !.pc = 0]
       ELSE [cli[p] EXCEPT !.todo = rest, !.pc = 1, !.has = FALSE,
                                !.calm = \A q \in Slots \ {p} : ~Alive(q)]

Advance(p) ==
    IF cli[p].pc = Len(Program(Verb(p), cli[p].has)) THEN EndVerb(p, "ok")
    ELSE [cli[p] EXCEPT !.pc = @ + 1]

Goes(p) == cli' = [cli EXCEPT ![p] = Advance(p)]
Stops(p) == cli' = [cli EXCEPT ![p] = EndVerb(p, "err")]

Keeps == UNCHANGED <<legacy, run, faults, crossed>>

-----------------------------------------------------------------------------
(* The steps. *)

\* install_descriptor_present.
Looks(p) ==
    /\ At(p, "look") /\ Keeps /\ UNCHANGED jobVars
    /\ cli' = [cli EXCEPT ![p] = [@ EXCEPT !.pc = @ + 1, !.has = file["desc"] # "none"]]

Verifies(p) ==
    /\ At(p, "verify") /\ Keeps /\ UNCHANGED jobVars
    /\ IF Enrolled(file, cli[p].u) THEN Goes(p) ELSE Stops(p)

\* A bootout whose failure is ignored.
TriesBootout(p) ==
    /\ At(p, "try") /\ UNCHANGED <<legacy, run, crossed>>
    /\ \/ Bootout(Arg(p)) /\ Goes(p) /\ UNCHANGED faults
       \/ job[Arg(p)] # "yes" /\ Goes(p) /\ UNCHANGED <<jobVars, faults>>
       \/ /\ job[Arg(p)] = "yes" /\ Fault /\ UNCHANGED jobVars
          /\ cli' = [cli EXCEPT ![p] = [Advance(p) EXCEPT !.calm = FALSE]]

\* A bootout that has to succeed.
BootsOut(p) ==
    /\ At(p, "out") /\ Keeps
    /\ \/ Bootout(Arg(p)) /\ Goes(p)
       \/ job[Arg(p)] # "yes" /\ Stops(p) /\ UNCHANGED jobVars

Bootstraps(p) ==
    /\ At(p, "in") /\ Keeps
    /\ \/ Bootstrap(Arg(p)) /\ Goes(p)
       \/ ~Bootstrappable(Arg(p)) /\ Stops(p) /\ UNCHANGED jobVars

Ensures(p) ==
    /\ At(p, "ensure") /\ Keeps
    /\ \/ Ensure /\ Goes(p)
       \/ EnsureFails /\ Stops(p) /\ UNCHANGED jobVars

\* stop_engine_tunnel_best_effort: a connection of the engine's, closed at once.
Nudges(p) ==
    /\ At(p, "nudge") /\ Goes(p) /\ Keeps
    /\ engine' = IF engine = "serve" THEN "busy" ELSE engine
    /\ UNCHANGED <<file, job, who, agent>>

\* rm -f of the root engine's logs, whose exit status is the purge line's.
RemovesLogs(p) == At(p, "logs") /\ Goes(p) /\ Keeps /\ UNCHANGED jobVars

\* retire_legacy_with: each part is there or not, and is gone afterwards.
Retires(p) ==
    /\ At(p, "legacy") /\ Goes(p)
    /\ legacy' = legacy \ {Arg(p)}
    /\ UNCHANGED <<jobVars, run, faults, crossed>>

\* Only a verb that found the descriptor has an owner to compare with;
\* without one whatever is there is an orphan.
Removable(p) ==
    IF cli[p].has THEN StrictlyRemovable(file, Arg(p), cli[p].u)
    ELSE OrphanRemovable(file, Arg(p))

Removes(p) ==
    /\ At(p, "rm") /\ Keeps /\ UNCHANGED <<job, who, agent, engine>>
    /\ IF Removable(p)
       THEN file' = Without(file, Arg(p)) /\ Goes(p)
       ELSE Stops(p) /\ UNCHANGED file

Makes(p) ==
    /\ At(p, "make") /\ Keeps /\ UNCHANGED <<job, who, agent, engine>>
    /\ IF Creatable(file, Arg(p))
       THEN file' = Created(file, Arg(p), cli[p].u) /\ Goes(p)
       ELSE Stops(p) /\ UNCHANGED file

RemovesDir(p) ==
    /\ At(p, "rmdir") /\ Goes(p) /\ Keeps
    /\ file' = DirRemoved(file)
    /\ UNCHANGED <<job, who, agent, engine>>

Sweeps(p) ==
    /\ At(p, "sweep") /\ Goes(p)
    /\ run' = Swept(run)
    /\ UNCHANGED <<jobVars, legacy, faults, crossed>>

CliSteps(p) ==
    \/ Looks(p) \/ Verifies(p) \/ TriesBootout(p) \/ BootsOut(p)
    \/ Bootstraps(p) \/ Ensures(p) \/ Nudges(p) \/ Retires(p)
    \/ Removes(p) \/ Makes(p) \/ RemovesDir(p) \/ Sweeps(p) \/ RemovesLogs(p)

\* A verb is killed, or a step of it fails; a write may leave half a file.
\* A killed shell runs no further verb.
CliFails(p) ==
    /\ Alive(p) /\ Fault
    /\ cli' = [cli EXCEPT ![p] = [@ EXCEPT !.out = "err", !.pc = 0, !.calm = FALSE, !.todo = <<Verb(p)>>]]
    /\ \/ UNCHANGED file
       \/ /\ Step(p)[1] = "make" /\ Creatable(file, Arg(p))
          /\ file' = TornBy(file, Arg(p))
    /\ UNCHANGED <<job, who, agent, engine, legacy, run, crossed>>

\* A root shell is started with these verbs for user u.
Launch(p, verbs, u) ==
    /\ LET other == \E q \in Slots \ {p} : Alive(q)
       IN /\ cli' = [q \in Slots |->
                        IF q = p THEN [Off EXCEPT !.todo = verbs, !.pc = 1, !.u = u,
                                                  !.out = "run", !.calm = ~other]
                        ELSE [cli[q] EXCEPT !.calm = @ /\ ~Alive(q)]]
          /\ crossed' = (crossed \/ other)
    /\ UNCHANGED <<jobVars, legacy, run, faults>>

\* A shell for the next prompt; which one does not matter.
FreeSlot == LET free == {p \in Slots : cli[p].out = "none"}
            IN {p \in free : \A q \in free : p <= q}

\* The shell has exited and its result was read.
Reaped(p) == cli' = [cli EXCEPT ![p] = Off] /\ UNCHANGED <<jobVars, legacy, run, faults, crossed>>

CliTypeOK ==
    /\ legacy \subseteq {"job", "desc", "dir"}
    /\ run \in {"none", "live", "dead", "odd"}
    /\ faults \in 0 .. MaxFault
    /\ \A p \in Slots : cli[p].out \in {"none", "run", "ok", "err"}

CliInit ==
    /\ cli = [p \in Slots |-> Off]
    /\ \/ legacy = {} /\ run \in {"live", "odd"}
       \/ legacy = {"job", "desc", "dir"} /\ run = "dead"
    /\ faults = 0 /\ crossed = FALSE

-----------------------------------------------------------------------------

CONSTANT MaxOps      \* bound: requests of the users

VARIABLES
    ctl,     \* the service_control request under way
    con,     \* the connect under way
    ops      \* how many requests were made

vars == <<sysVars, ctl, con, ops>>

Idle == [pc |-> "idle", act |-> "none", u |-> "none", slot |-> 0, reply |-> "none"]

TypeOK ==
    /\ JobsTypeOK /\ CliTypeOK
    /\ ctl.pc \in {"idle", "facts", "prompt", "wait", "ready"}
    /\ con.pc \in {"idle", "resolve", "ladder", "prompt", "wait", "ready", "endpoint", "dial", "up"}
    /\ ops \in 0 .. MaxOps

Init == JobsInit /\ CliInit /\ ctl = Idle /\ con = Idle /\ ops = 0

\* A bounded number of requests; which user is the first to ask does not matter.
Asks(u) ==
    /\ ops < MaxOps /\ ops' = ops + 1
    /\ ops = 0 => u = CHOOSE v \in Users : TRUE

-----------------------------------------------------------------------------
(* What the Core sees: files, and whether a socket answers this user. *)

SocketConnectable(u) == agent = "serve" /\ file["sock"] = u

\* derive_health: a request_status that is rejected is not healthy either.
Healthy(u) == file["bin"] # "none" /\ SocketConnectable(u) /\ Accepted(u)

Installed == file["bin"] # "none"
EngineEndpointHealthy(u) == engine \in {"serve", "busy"} /\ file["engsock"] = u
InstallRootHasEntries == file["dir"] # "none" /\ \E a \in Artifacts \ Descriptors : file[a] # "none"
PurgeNeeded == Installed \/ file["sock"] # "none" \/ file["state"] # "none" \/ InstallRootHasEntries

\* build_payloads and build_purge_payload.
Payload(act) ==
    CASE act = "install" -> <<"install">>
      [] act = "uninstall" -> <<"retire", "sweep", "uninstall", "rm">>
      [] act = "start" -> <<"start">>

-----------------------------------------------------------------------------
(* service_control. *)

\* The lock is taken; install and uninstall stop the user's own session first.
CtlBegins(u, act) ==
    /\ ctl.pc = "idle" /\ Asks(u)
    /\ ctl' = [Idle EXCEPT !.pc = "facts", !.act = act, !.u = u]
    /\ con' = IF act # "start" /\ con.pc = "up" /\ con.u = u THEN Idle ELSE con
    /\ UNCHANGED sysVars

CtlReplies(r) == ctl' = [Idle EXCEPT !.act = ctl.act, !.u = ctl.u, !.reply = r]

\* ServiceLifecycle::install, uninstall and ensure_running up to the prompt.
CtlReadsFacts ==
    /\ ctl.pc = "facts"
    /\ \/ ctl.act = "install" /\ ctl' = [ctl EXCEPT !.pc = "prompt"]
       \/ /\ ctl.act = "uninstall"
          /\ IF PurgeNeeded THEN ctl' = [ctl EXCEPT !.pc = "prompt"] ELSE CtlReplies("ok")
       \/ /\ ctl.act = "start"
          /\ IF Healthy(ctl.u) THEN CtlReplies("ok")
             ELSE IF ~Installed THEN CtlReplies("err")
             ELSE ctl' = [ctl EXCEPT !.pc = "prompt"]
    /\ UNCHANGED <<sysVars, con, ops>>

\* The prompt: the user agrees, cancels, or lets it time out.
CtlPrompted ==
    /\ ctl.pc = "prompt"
    /\ \/ \E p \in FreeSlot :
            /\ Launch(p, Payload(ctl.act), ctl.u)
            /\ ctl' = [ctl EXCEPT !.pc = "wait", !.slot = p]
       \/ CtlReplies("err") /\ UNCHANGED sysVars
    /\ UNCHANGED <<con, ops>>

\* run_elevated: the shell's exit status; the purge line always succeeds
\* unless it was killed.
CtlElevated ==
    /\ ctl.pc = "wait" /\ ~Alive(ctl.slot)
    /\ IF cli[ctl.slot].out = "ok" THEN ctl' = [ctl EXCEPT !.pc = "ready"] ELSE CtlReplies("err")
    /\ Reaped(ctl.slot)
    /\ UNCHANGED <<con, ops>>

\* ELEVATION_BOUND: osascript is killed, the root shell is not.
CtlGivesUp ==
    /\ ctl.pc = "wait" /\ Alive(ctl.slot) /\ Fault
    /\ CtlReplies("err")
    /\ UNCHANGED <<jobVars, cli, legacy, run, crossed, con, ops>>

Awaited == IF ctl.act = "uninstall" THEN ~Installed /\ file["sock"] = "none" ELSE Healthy(ctl.u)

\* wait_until: what was asked for is seen, or the bound is reached.
CtlReady ==
    /\ ctl.pc = "ready"
    /\ CtlReplies(IF Awaited THEN "ok" ELSE "err")
    /\ UNCHANGED <<sysVars, con, ops>>

CtlSteps == CtlReadsFacts \/ CtlPrompted \/ CtlElevated \/ CtlReady

-----------------------------------------------------------------------------
(* The connect, as far as the service goes. *)

ConTo(pc) == con' = [con EXCEPT !.pc = pc]
ConEnds(r) == con' = [Idle EXCEPT !.u = con.u, !.reply = r]

ConBegins(u) ==
    /\ con.pc = "idle" /\ Asks(u)
    /\ con' = [Idle EXCEPT !.pc = "resolve", !.u = u]
    /\ UNCHANGED <<sysVars, ctl>>

\* resolve_transport.
ConResolves ==
    /\ con.pc = "resolve"
    /\ IF EngineEndpointHealthy(con.u) \/ Installed THEN ConTo("ladder") ELSE ConEnds("oneshot")
    /\ UNCHANGED <<sysVars, ctl, ops>>

\* The agent changes the engine's job while a root shell may be at work.
Crosses ==
    /\ cli' = [p \in Slots |-> [cli[p] EXCEPT !.calm = @ /\ ~Alive(p)]]
    /\ crossed' = (crossed \/ \E p \in Slots : Alive(p))
    /\ UNCHANGED <<legacy, run, faults>>

\* try_service_engine_session: a healthy endpoint, or an agent that can be
\* asked for it (handle_daemon_request, EnsureEngine), or the start verb.
ConLadder ==
    /\ con.pc = "ladder" /\ UNCHANGED <<ctl, ops>>
    /\ IF EngineEndpointHealthy(con.u) THEN ConTo("dial") /\ UNCHANGED sysVars
       ELSE IF SocketConnectable(con.u)
       THEN \/ AgentEnsures(con.u) /\ ConTo("endpoint") /\ Crosses
            \/ EnsureFails /\ ConEnds("err") /\ UNCHANGED sysVars
       ELSE (IF Installed THEN ConTo("prompt") ELSE ConEnds("err")) /\ UNCHANGED sysVars

ConPrompted ==
    /\ con.pc = "prompt"
    /\ \/ \E p \in FreeSlot :
            /\ Launch(p, Payload("start"), con.u)
            /\ con' = [con EXCEPT !.pc = "wait", !.slot = p]
       \/ ConEnds("err") /\ UNCHANGED sysVars
    /\ UNCHANGED <<ctl, ops>>

ConElevated ==
    /\ con.pc = "wait" /\ ~Alive(con.slot)
    /\ IF cli[con.slot].out = "ok" THEN ConTo("ready") ELSE ConEnds("err")
    /\ Reaped(con.slot)
    /\ UNCHANGED <<ctl, ops>>

ConReady ==
    /\ con.pc = "ready"
    /\ IF Healthy(con.u) THEN ConTo("endpoint") ELSE ConEnds("err")
    /\ UNCHANGED <<sysVars, ctl, ops>>

\* wait_engine_endpoint, bounded.
ConWaits ==
    /\ con.pc = "endpoint"
    /\ IF EngineEndpointHealthy(con.u) THEN ConTo("dial") ELSE ConEnds("err")
    /\ UNCHANGED <<sysVars, ctl, ops>>

\* The engine admits one session at a time and turns others away.
ConDials ==
    /\ con.pc = "dial"
    /\ IF engine = "serve" /\ file["engsock"] = con.u
       THEN ConTo("up") /\ engine' = "busy" /\ UNCHANGED <<file, job, who, agent>>
       ELSE ConEnds("err") /\ UNCHANGED jobVars
    /\ UNCHANGED <<cliVars, ctl, ops>>

\* The session ends: the engine is gone, or the Core closes it.
ConSessionEnds ==
    /\ con.pc = "up" /\ ConEnds("ended")
    /\ UNCHANGED <<sysVars, ctl, ops>>

ConSteps ==
    \/ ConResolves \/ ConLadder \/ ConPrompted \/ ConElevated \/ ConReady
    \/ ConWaits \/ ConDials

-----------------------------------------------------------------------------
(* The machine. *)

\* The engine's session ends once no core holds it.
SessionFreed == con.pc # "up" /\ EngineFreed /\ UNCHANGED <<cliVars, ctl, con, ops>>

AgentGoes == AgentSteps /\ UNCHANGED <<cliVars, ctl, con, ops>>
EngineGoes == EngineSteps /\ UNCHANGED <<cliVars, ctl, con, ops>>
CliGoes(p) == CliSteps(p) /\ UNCHANGED <<ctl, con, ops>>

Deaths ==
    /\ Fault /\ (AgentDies \/ EngineDies)
    /\ cli' = [p \in Slots |-> [cli[p] EXCEPT !.calm = @ /\ ~Alive(p)]]
    /\ UNCHANGED <<legacy, run, crossed, ctl, con, ops>>

Cleanup(u) == Asks(u) /\ AgentCleansUp(u) /\ UNCHANGED <<cliVars, ctl, con>>

Next ==
    \/ AgentGoes \/ EngineGoes \/ Deaths \/ SessionFreed
    \/ \E p \in Slots : CliGoes(p) \/ (CliFails(p) /\ UNCHANGED <<ctl, con, ops>>)
    \/ \E u \in Users :
         \/ \E act \in {"install", "uninstall", "start"} : CtlBegins(u, act)
         \/ ConBegins(u)
         \/ Cleanup(u)
    \/ CtlSteps \/ CtlGivesUp \/ ConSteps \/ ConSessionEnds

\* Every process and both of the Core's requests keep being scheduled.
Fairness ==
    /\ WF_vars(AgentGoes) /\ WF_vars(EngineGoes) /\ WF_vars(SessionFreed)
    /\ \A p \in Slots : WF_vars(CliGoes(p))
    /\ WF_vars(CtlSteps) /\ WF_vars(ConSteps)

Spec == Init /\ [][Next]_vars /\ Fairness

-----------------------------------------------------------------------------
(* Properties. *)

\* While requests do not overlap, a descriptor launchd would start is never on
\* disk without the complete binary it starts, whatever step install or
\* uninstall was killed in: descriptors go first and come last.
DescribedIsInstalled ==
    ~crossed => /\ file["desc"] # "none" => file["bin"] = "done"
                /\ file["engdesc"] # "none" => file["engbin"] = "done"

\* A verb run for one user never takes down or rewrites the descriptor that
\* enrolls another (install_with, uninstall_with: verify_enrolled_owner before
\* any removal), unless requests overlap.
EnrolledKept ==
    (~crossed' /\ file["desc"] \in Users /\ file'["desc"] # file["desc"])
        => \E p \in Slots : Alive(p) /\ cli[p].u = file["desc"]

\* An install that nothing disturbs gets past whatever an interrupted install or
\* uninstall left.  It fails when it found a descriptor that does not enroll its
\* user; when it found its own and meets a leftover the guard refuses, and then
\* the descriptor is already gone, so that the next install treats the leftover
\* as an orphan (remove_orphan_artifact); or with everything in place, over a
\* job an earlier verb had failed to boot out.
InstallRecovers ==
    \A p \in Slots :
         (/\ Alive(p) /\ Verb(p) = "install" /\ cli[p].calm
          /\ cli'[p].calm /\ ~crossed' /\ cli'[p].out = "err")
         => \/ cli[p].has /\ At(p, "verify") /\ file["desc"] # cli[p].u
            \/ cli[p].has /\ file["desc"] = "none"
            \/ At(p, "in") /\ job["agent"] = "yes"

\* An uninstall that went through undisturbed leaves nothing: no artifact, no
\* job that launchd would restart, no part of the retired installation - the
\* engine's socket apart, while the engine is still on its way out.
UninstallIsClean ==
    \A p \in Slots : (At(p, "rmdir") /\ cli[p].calm) =>
        /\ job["agent"] = "no" /\ job["engine"] # "yes" /\ legacy = {}
        /\ \A a \in Artifacts : file[a] = "none" \/ (a = "engsock" /\ engine # "none")

\* A loaded and installed agent serves its owner, unless a verb is at work; a
\* socket it left between bind and the handover is recycled
\* (remove_safe_stale_socket).
AgentServes ==
    \/ SocketConnectable(who["agent"]) \/ job["agent"] # "yes"
    \/ file["bin"] # "done" \/ \E p \in Slots : Alive(p)
=============================================================================
