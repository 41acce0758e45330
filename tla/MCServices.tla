------------------------------ MODULE MCServices -----------------------------
(***************************************************************************)
(* The services of both platforms, one instance per behaviour.  Windows:   *)
(* a ServiceControl request and a connect at the same time ("both"), two   *)
(* requests one after the other ("requests") and two connects ("connects") *)
(* with a fault of the service.  macOS: the agent and the Engine under     *)
(* launchd, the shell's pre-uninstall, and the one-shot start of an        *)
(* Engine.  `which` is chosen initially; what an instance does not need    *)
(* stays unused.                                                           *)
(***************************************************************************)
EXTENDS Naturals, Sequences

CONSTANTS
    Users,      \* the accounts that use the macOS service
    MaxOps,     \* bound: requests of the users
    MaxFault,   \* bound: crashes, deaths, failed steps and timeouts
    MaxLaunch   \* bound: one-shot launches

VARIABLES which, v1, v2, v3, v4, v5, v6, v7, v8, v9, v10, v11, v12, v13, v14, v15, v16, v17, v18,
          v19, v20, v21, v22, v23, v24, v25, v26, v27, v28, v29

W == INSTANCE ServiceControl WITH
       entry <- v1, marked <- v2, restart <- v3, key <- v4, svc <- v5, ready <- v6,
       stopSig <- v7, conns <- v8, linked <- v9, dial <- v10, sent <- v11, faults <- v12,
       one <- v13, core <- v14, op <- v15, pc <- v16, batch <- v17, child <- v18,
       asked <- v19, spent <- v20, retried <- v21, scmOk <- v22, ops <- v23,
       override <- v24, mode <- v25, slot <- v26, replyOk <- v27, repairs <- v28,
       crossed <- v29,
       Tasks <- {"ctl", "con"}, MaxInstances <- 2, CoreDeaths <- TRUE,
       MaxOps <- [ctl |-> 1, con |-> 1], MaxFaults <- 0

R == INSTANCE ServiceControl WITH
       entry <- v1, marked <- v2, restart <- v3, key <- v4, svc <- v5, ready <- v6,
       stopSig <- v7, conns <- v8, linked <- v9, dial <- v10, sent <- v11, faults <- v12,
       one <- v13, core <- v14, op <- v15, pc <- v16, batch <- v17, child <- v18,
       asked <- v19, spent <- v20, retried <- v21, scmOk <- v22, ops <- v23,
       override <- v24, mode <- v25, slot <- v26, replyOk <- v27, repairs <- v28,
       crossed <- v29,
       Tasks <- {"ctl", "con"}, MaxInstances <- 2, CoreDeaths <- TRUE,
       MaxOps <- [ctl |-> 2, con |-> 0], MaxFaults <- 1

C == INSTANCE ServiceControl WITH
       entry <- v1, marked <- v2, restart <- v3, key <- v4, svc <- v5, ready <- v6,
       stopSig <- v7, conns <- v8, linked <- v9, dial <- v10, sent <- v11, faults <- v12,
       one <- v13, core <- v14, op <- v15, pc <- v16, batch <- v17, child <- v18,
       asked <- v19, spent <- v20, retried <- v21, scmOk <- v22, ops <- v23,
       override <- v24, mode <- v25, slot <- v26, replyOk <- v27, repairs <- v28,
       crossed <- v29,
       Tasks <- {"ctl", "con"}, MaxInstances <- 2, CoreDeaths <- TRUE,
       MaxOps <- [ctl |-> 0, con |-> 2], MaxFaults <- 1

S == INSTANCE DarwinService WITH
       file <- v1, job <- v2, who <- v3, run <- v4, ctl <- v5, agent <- v6, engine <- v7,
       cli <- v8, legacy <- v9, faults <- v10, crossed <- v11, con <- v12, ops <- v13

P == INSTANCE PreUninstall WITH conn <- v1, system <- v2, path <- v3, rundir <- v4, pre <- v5

O == INSTANCE OneshotBootstrap WITH l <- v1, coreAlive <- v2, faults <- v3,
        Launches <- 1 .. MaxLaunch

vars == <<which, v1, v2, v3, v4, v5, v6, v7, v8, v9, v10, v11, v12, v13, v14, v15, v16, v17, v18,
          v19, v20, v21, v22, v23, v24, v25, v26, v27, v28, v29>>
NotService == <<which, v14, v15, v16, v17, v18, v19, v20, v21, v22, v23, v24, v25, v26, v27, v28, v29>>
NotLeaving == <<NotService, v6, v7, v8, v9, v10, v11, v12, v13>>
NotOneshot == <<NotLeaving, v4, v5>>

Both == which = "both"
Requests == which = "requests"
Connects == which = "connects"
Service == which = "service"
Leaving == which = "pre_uninstall"
Oneshot == which = "oneshot"

Unused14 ==
  /\ v14 = 0 /\ v15 = 0 /\ v16 = 0 /\ v17 = 0 /\ v18 = 0 /\ v19 = 0 /\ v20 = 0 /\ v21 = 0
     /\ v22 = 0 /\ v23 = 0 /\ v24 = 0 /\ v25 = 0 /\ v26 = 0 /\ v27 = 0 /\ v28 = 0 /\ v29 =
     0
Unused6 == Unused14 /\ v6 = 0 /\ v7 = 0 /\ v8 = 0 /\ v9 = 0 /\ v10 = 0 /\ v11 = 0 /\ v12 = 0 /\ v13 = 0

Init ==
  \/ which = "both" /\ W!Init
  \/ which = "requests" /\ R!Init
  \/ which = "connects" /\ C!Init
  \/ which = "service" /\ S!Init /\ Unused14
  \/ which = "pre_uninstall" /\ P!Init /\ Unused6
  \/ which = "oneshot" /\ O!Init /\ Unused6 /\ v4 = 0 /\ v5 = 0

Next ==
  \/ Both /\ W!Next /\ UNCHANGED which
  \/ Requests /\ R!Next /\ UNCHANGED which
  \/ Connects /\ C!Next /\ UNCHANGED which
  \/ Service /\ S!Next /\ UNCHANGED NotService
  \/ Leaving /\ P!Next /\ UNCHANGED NotLeaving
  \/ Oneshot /\ O!Next /\ UNCHANGED NotOneshot

(* The engines and, apart from them, everybody else run; nobody has to ask
   for anything and nothing has to fail.                                    *)
EnginesRun ==
  \/ Both /\ W!EngineProgress /\ UNCHANGED which
  \/ Requests /\ R!EngineProgress /\ UNCHANGED which
  \/ Connects /\ C!EngineProgress /\ UNCHANGED which
  \/ Service /\ S!EngineGoes /\ UNCHANGED NotService

OthersRun ==
  \/ Both /\ W!CoreProgress /\ UNCHANGED which
  \/ Requests /\ R!CoreProgress /\ UNCHANGED which
  \/ Connects /\ C!CoreProgress /\ UNCHANGED which
  \/ /\ Service /\ UNCHANGED NotService
     /\ \/ S!AgentGoes \/ S!SessionFreed \/ S!CtlSteps \/ S!ConSteps
        \/ \E p \in 1 .. 2 : S!CliGoes(p)
  \/ Leaving /\ P!Steps /\ UNCHANGED NotLeaving
  \/ /\ Oneshot /\ UNCHANGED NotOneshot
     /\ \E a \in 1 .. MaxLaunch : O!CoreGoes(a) \/ O!AgentSteps(a) \/ O!EngineGoes(a)

Spec == Init /\ [][Next]_vars /\ WF_vars(EnginesRun) /\ WF_vars(OthersRun)

\* The behaviours in which connects may start the one-shot engine.
ConnectsSpec ==
  Connects /\ C!Init /\ [][Next]_vars /\ WF_vars(EnginesRun) /\ WF_vars(OthersRun)

(* Windows: the SCM shows Running only while a process lives that serves the
   pipe; an elevated batch process runs only while its request waits for it;
   and one request asks for elevation to repair the service at most once.   *)
BatchIsAwaited ==
  /\ Both => W!RunningIsServed /\ W!BatchIsAwaited /\ W!RepairOnce
  /\ Requests => R!RunningIsServed /\ R!BatchIsAwaited /\ R!RepairOnce
  /\ Connects => C!RunningIsServed /\ C!BatchIsAwaited /\ C!RepairOnce

(* macOS: what is reported as removed is removed.  An uninstall verb that went
   through leaves no artifact, job or retired part, the pre-uninstall's report
   says of every item what is true of it, and a one-shot launch that is over
   has left no ticket, socket or directory, whoever gave up first.  And a
   descriptor launchd would start is never on disk without its binary.      *)
RemovedIsGone ==
  /\ Service => S!UninstallIsClean /\ S!DescribedIsInstalled
  /\ Leaving => P!ReportIsHonest
  /\ Oneshot => O!LeavesNothing

(* What a verb answers and does.  Windows: an ok of Install, Start or Uninstall
   is true of the SCM, the key and the pipe at the moment it is given, and a
   failed challenge never ends the service's accept loop.  macOS: a root verb
   run for one user never takes down the descriptor that enrolls another, an
   undisturbed install gets past whatever an interrupted verb left, and the
   pre-uninstall deletes nothing while a connection may be up.              *)
VerbsAreTrue ==
  [][/\ Both => W!AnswerIsTrue /\ W!AcceptSurvives
     /\ Requests => R!AnswerIsTrue /\ R!AcceptSurvives
     /\ Connects => C!AnswerIsTrue /\ C!AcceptSurvives
     /\ Service => S!EnrolledKept /\ S!InstallRecovers
     /\ Leaving => P!DeletesOnlyStopped]_vars

Busy ==
  \/ Both /\ W!Busy
  \/ Requests /\ R!Busy
  \/ Connects /\ C!Busy
  \/ Service /\ (v5.pc # "idle" \/ v12.pc \notin {"idle", "up"} \/ ~S!AgentServes)
  \/ Leaving /\ v5.pc \notin {"idle", "done", "quit"}
  \/ Oneshot /\ \E a \in 1 .. MaxLaunch : O!Launching(a) \/ O!Orphaned(a)

(* Every request is answered, a stop control the service has taken ends its
   process, every one-shot launch returns, an Engine nobody waits for any more
   ends, and a loaded macOS agent comes to serve its owner again.           *)
RequestsEnd == Busy ~> ~Busy

(* What heartbeat.rs says of the one-shot engine: without a heartbeat it ends
   itself within 15 seconds of its start, whether or not a core ever came.  *)
OneshotEndsWithCore == C!OneshotEndsWithCore
=============================================================================
