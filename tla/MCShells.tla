------------------------------- MODULE MCShells ------------------------------
(***************************************************************************)
(* The desktop shells of both platforms, one instance per behaviour: the   *)
(* macOS shell with one Connect command and a crash ("one"), with two at   *)
(* the same time ("two"), and the Windows shell with two and a crash.      *)
(* `which` is chosen initially; what an instance does not need stays       *)
(* unused.                                                                 *)
(***************************************************************************)
EXTENDS Naturals

CONSTANTS c1, c2

VARIABLES which, v1, v2, v3, v4, v5, v6, v7, v8, v9, v10, v11, v12, v13, v14, v15

D == INSTANCE DarwinShell WITH
       ses <- v1, crashes <- v2, ui <- v3, handle <- v4, inner <- v5, held <- v6,
       gate <- v7, start <- v8, cmd <- v9, poll <- v10, fwd <- v11, closing <- v12,
       quit <- v13, win <- v14, wanted <- v15,
       Sessions <- 1 .. 2, Commands <- {c1}, MaxCrash <- 1, Patient <- FALSE,
       Answers <- {"ok", "refused", "unavailable", "cancelled"}

T == INSTANCE DarwinShell WITH
       ses <- v1, crashes <- v2, ui <- v3, handle <- v4, inner <- v5, held <- v6,
       gate <- v7, start <- v8, cmd <- v9, poll <- v10, fwd <- v11, closing <- v12,
       quit <- v13, win <- v14, wanted <- v15,
       Sessions <- 1 .. 2, Commands <- {c1, c2}, MaxCrash <- 0, Patient <- FALSE,
       Answers <- {"ok", "unavailable"}

W == INSTANCE Win32Shell WITH
       core <- v1, crashes <- v2, ui <- v3, handle <- v4, child <- v5, subs <- v6,
       gate <- v7, cmd <- v8, poll <- v9, closing <- v10, quit <- v11, win <- v12,
       Cores <- 1 .. 2, Commands <- {c1, c2}, MaxCrash <- 1, Patient <- FALSE,
       Answers <- {"ok", "err", "unavailable"}

vars == <<which, v1, v2, v3, v4, v5, v6, v7, v8, v9, v10, v11, v12, v13, v14, v15>>
NotWindows == <<which, v13, v14, v15>>

One == which = "one"
Two == which = "two"
Windows == which = "windows"

Init ==
  \/ which = "one" /\ D!Init
  \/ which = "two" /\ T!Init
  \/ which = "windows" /\ W!Init /\ v13 = 0 /\ v14 = 0 /\ v15 = 0

Next ==
  \/ One /\ D!Next /\ UNCHANGED which
  \/ Two /\ T!Next /\ UNCHANGED which
  \/ Windows /\ W!Next /\ UNCHANGED NotWindows

CoresRun ==
  \/ One /\ D!CoresRun /\ UNCHANGED which
  \/ Windows /\ W!CoresRun /\ UNCHANGED NotWindows

ShellRuns ==
  \/ One /\ D!QuitRuns /\ UNCHANGED which
  \/ Windows /\ W!ShellRuns /\ UNCHANGED NotWindows

StartRuns == One /\ D!StartRuns /\ UNCHANGED which

CommandRuns(c) ==
  \/ One /\ c = c1 /\ D!CmdSteps(c1) /\ UNCHANGED which
  \/ Windows /\ W!CmdSteps(c) /\ UNCHANGED NotWindows

GateIsHandedOver == Windows /\ W!RecoveryLocks(c1) /\ UNCHANGED NotWindows

(* Every process that can take its next step is eventually scheduled, and the
   recovery lock, a tokio mutex, is handed over in order; what the user does,
   polls and crashes are never owed.  The instance with two macOS commands is
   there for the invariant only.                                            *)
Spec ==
  /\ Init /\ [][Next]_vars
  /\ WF_vars(CoresRun) /\ WF_vars(ShellRuns) /\ WF_vars(StartRuns)
  /\ WF_vars(CommandRuns(c1)) /\ WF_vars(CommandRuns(c2))
  /\ SF_vars(GateIsHandedOver)

(* The shell never runs two Cores (on macOS: until the user quits), and the
   channel it uses is the one to the process it manages, whatever late
   answers, polls and recoveries do to the handle in between; a runtime
   directory of macOS that nobody owns any more holds the socket of a Core
   that died before its own cleanup.                                        *)
OneCore ==
  /\ One => D!OneCore /\ D!HandleIsOwned /\ D!DirsAreReclaimed
  /\ Two => T!OneCore /\ T!HandleIsOwned /\ T!DirsAreReclaimed
  /\ Windows => W!OneCore /\ W!HandleIsChild

Pending ==
  \/ One /\ D!Pending(c1)
  \/ Windows /\ W!Pending(c1)

(* A Connect command returns to the frontend or the shell is gone, through a
   crash of the Core, a recovery of its own or one it waits for; a quit of the
   macOS shell comes to its end; and a Core that had accepted its shell ends
   with it, however it ended.                                               *)
ConnectReturns == Pending ~> ~Pending
=============================================================================
