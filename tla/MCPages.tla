------------------------------- MODULE MCPages -------------------------------
(***************************************************************************)
(* What the user is told, one path per behaviour: the log pipelines of     *)
(* Windows and macOS up to the Logs page, the statistics of both, and the  *)
(* latency probe.  `which` is chosen initially; the pool variables a path  *)
(* does not need stay unused.                                              *)
(***************************************************************************)
EXTENDS Integers, Sequences, FiniteSets

CONSTANTS
    MaxEvent,   \* events of the Windows engine's log
    MaxFault,   \* faults of the macOS log pipeline
    MaxLoss,    \* faults of the Windows statistics path
    MaxOp       \* connect operations of the macOS one

VARIABLES which, v1, v2, v3, v4, v5, v6, v7, v8, v9, v10, v11, v12

WL == INSTANCE Win32Logs WITH
        file <- v1, page <- v2, skew <- v3, count <- v4, snk <- v5, fwd <- v6, core <- v7,
        kept <- v8, HistoryCapacity <- 2, StreamCapacity <- 1, PageLimit <- 1, MaxCore <- 1

DL == INSTANCE DarwinLogs WITH
        file <- v1, page <- v2, skew <- v3, count <- v4, push <- v5, ch <- v6, ram <- v7,
        agg <- v8, rd <- v9, from <- v10,
        MaxEntries <- 2, CompactionInterval <- 2, ChannelCapacity <- 1, PageLimit <- 1,
        MaxEmit <- 3, MaxStream <- 2

WS == INSTANCE Win32Stats WITH
        engine <- v1, clock <- v2, slot <- v3, swapped <- v4, stream <- v5,
        fwd <- v6, lanes <- v7, diag <- v8, shown <- v9, faults <- v10,
        Engines <- 1..2, MaxBytes <- 2, MaxClock <- 2, Room <- 2, MaxFault <- MaxLoss

DS == INSTANCE DarwinStats WITH
        pump <- v1, clock <- v2, op <- v3, state <- v4, task <- v5, shown <- v6,
        MaxBytes <- 1, MaxClock <- 2, Room <- 1

LP == INSTANCE LatencyProbe WITH
        kind <- v1, missed <- v2, sinceDpd <- v3, sincePing <- v4, dpd <- v5,
        ping <- v6, ident <- v7, marker <- v8, replies <- v9, latency <- v10,
        fired <- v11, polled <- v12,
        DpdEnabled <- TRUE, HasMarker <- TRUE,
        DpdInterval <- 4, DpdTimeout <- 2, DpdMaxTimeouts <- 3,
        PingInterval <- 4, PingTimeout <- 3, MaxAge <- 4, Idents <- 5

vars == <<which, v1, v2, v3, v4, v5, v6, v7, v8, v9, v10, v11, v12>>
From11 == <<which, v11, v12>>
From9 == <<From11, v9, v10>>
From7 == <<From9, v7, v8>>

WinLogs == which = "winlogs"
DarwinLogs == which = "darwinlogs"
WinStats == which = "winstats"
DarwinStats == which = "darwinstats"
Probe == which = "probe"

Zero11 == v11 = 0 /\ v12 = 0
Zero9 == Zero11 /\ v9 = 0 /\ v10 = 0

Init ==
  \/ which = "winlogs" /\ WL!Init /\ Zero9
  \/ which = "darwinlogs" /\ DL!Init /\ Zero11
  \/ which = "winstats" /\ WS!Init /\ Zero11
  \/ which = "darwinstats" /\ DS!Init /\ Zero9 /\ v7 = 0 /\ v8 = 0
  \/ which = "probe" /\ LP!Init

Next ==
  \/ WinLogs /\ WL!Next /\ UNCHANGED From9
  \/ DarwinLogs /\ DL!Next /\ UNCHANGED From11
  \/ WinStats /\ WS!Next /\ UNCHANGED From11
  \/ DarwinStats /\ DS!Next /\ UNCHANGED From7
  \/ Probe /\ LP!Next /\ UNCHANGED which

(* The tasks that carry entries and statistics to the Core, its restart and
   its answer to a clear.                                                   *)
CarriersRun ==
  \/ WinLogs /\ (WL!ForwarderSteps \/ WL!ClearServed \/ WL!Restart) /\ UNCHANGED From9
  \/ /\ DarwinLogs /\ UNCHANGED From11
     /\ DL!ClearServed \/ DL!Restart \/ \E s \in 1 .. 2 : DL!Ingests(s)
  \/ WinStats /\ WS!Forwards /\ UNCHANGED From11
  \/ Probe /\ (LP!Tick \/ LP!TickRefreshes) /\ UNCHANGED which

(* The page's own loop; the branch of the forwarder's select that looks at the
   engine slot; the clock.                                                  *)
LoopsRun ==
  \/ WinLogs /\ WL!PageSteps /\ UNCHANGED From9
  \/ DarwinLogs /\ DL!PageSteps /\ UNCHANGED From11
  \/ WinStats /\ WS!HeldSwaps /\ UNCHANGED From11
  \/ Probe /\ LP!TimePasses /\ UNCHANGED which

(* The Core serves the page's requests.                                     *)
CoreServes ==
  \/ WinLogs /\ WL!PageServed /\ UNCHANGED From9
  \/ DarwinLogs /\ DL!Serves /\ UNCHANGED From11

Spec ==
  /\ Init /\ [][Next]_vars
  /\ WF_vars(CarriersRun) /\ WF_vars(LoopsRun) /\ WF_vars(CoreServes)

(* The Logs page shows every entry its cursor has passed, through torn lines,
   compaction, eviction, Core restarts and clears (but for the cases the two
   modules name).  Windows: Engine events reach the aggregate file in the
   order the Engine emitted them and at most once, and emit drops none because
   a channel is full or closed.  macOS: the ring's numbers rise and none is
   above last_seq, also after a replay of a file with torn lines.           *)
LogsAreWhole ==
  /\ WinLogs => WL!InEmissionOrder /\ WL!SeqIsLineNumber /\ WL!Accounted /\ WL!NothingSkipped
  /\ DarwinLogs => DL!RingIsNumbered /\ DL!NothingSkipped

(* What the user is shown is real: on Windows a rate never spans two engines
   (TrafficSample is rebuilt with every subscription) and the forwarder's
   diagnostic names what it is doing; on macOS an ended operation keeps no
   sample; a latency recorded is the age of the ping answered, and the probe
   leaves DPD only after the unanswered requests it counts.                 *)
StatsAreReal ==
  /\ WinStats => WS!RateIsReal /\ WS!DiagnosticIsHonest
  /\ DarwinStats => DS!EndedKeepsNoSample
  /\ Probe => LP!LatencyIsTrue /\ LP!FallbackIsEarned

Behind ==
  \/ WinLogs /\ v3 = {} /\ ~WL!Shown
  \/ DarwinLogs /\ v3 = {} /\ ~DL!Shown
  \/ WinStats /\ WS!Behind
  \/ Probe /\ ~v11

(* The Logs page catches up with what the Core holds and the statistics
   forwarder with the engine the slot names, and the probe never falls silent,
   whatever streams are cut and replies are lost.                           *)
CatchesUp == Behind ~> ~Behind
=============================================================================
