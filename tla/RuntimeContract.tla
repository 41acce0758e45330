--------------------------- MODULE RuntimeContract ---------------------------
(***************************************************************************)
(* What the engine's tunnel runtime promises to its callers (the           *)
(* TunnelRuntime trait, tunnel_runtime.rs): at most one assembly, at most  *)
(* one data plane, and the status events they publish.  TunnelRuntime      *)
(* implements it; HelperControl is built on it.                            *)
(***************************************************************************)
EXTENDS Naturals

CONSTANTS Applies,   \* operations of ApplyTunnel
          Stops,     \* operations of StopTunnel
          None       \* no operation

ASSUME ContractOps == None \notin Applies \cup Stops /\ Applies \cap Stops = {}

VARIABLES running,    \* the operation whose assembly runs, or None
          settled,    \* its outcome is published
          cancelled,  \* the cancel token
          plane,      \* the data plane that may still report its loss
          latest      \* the newest status event

contractVars == <<running, settled, cancelled, plane, latest>>

Event(o, p) == [op |-> o, phase |-> p]
NoEvent == Event(None, "Idle")   \* nothing published yet is read as Idle
NoPlane == [op |-> None, state |-> "none"]

ContractTypeOK ==
    /\ running \in Applies \cup {None}
    /\ settled \in BOOLEAN /\ cancelled \in BOOLEAN
    /\ plane \in [op : Applies \cup {None},
                  state : {"none", "up", "closing", "lost"}]
    /\ latest \in [op : Applies \cup Stops \cup {None},
                   phase : {"Connecting", "Connected", "Failed", "Idle"}]

ContractInit ==
    /\ running = None /\ settled = FALSE /\ cancelled = FALSE
    /\ plane = NoPlane
    /\ latest = NoEvent

-----------------------------------------------------------------------------
\* StatusPublisher::publish: a Connecting or Connected of an operation is
\* dropped when the latest event is the same operation's Failed or Idle.
Publish(e) ==
    latest' = IF /\ latest.op = e.op
                 /\ latest.phase \in {"Failed", "Idle"}
                 /\ e.phase \in {"Connecting", "Connected"}
              THEN latest ELSE e

\* start_apply: accept an assembly and reset the cancel token ...
Accept(o) ==
    /\ running = None
    /\ running' = o
    /\ cancelled' = FALSE
    /\ UNCHANGED <<settled, plane, latest>>

\* ... or hand the running data plane over.
Adopt(o) ==
    /\ running = None
    /\ plane.state = "up"
    /\ plane' = [plane EXCEPT !.op = o]
    /\ Publish(Event(o, "Connected"))
    /\ UNCHANGED <<running, settled, cancelled>>

\* The assembly: progress, one outcome, and the end of its thread.
Progress ==
    /\ running # None /\ ~settled
    /\ Publish(Event(running, "Connecting"))
    /\ UNCHANGED <<running, settled, cancelled, plane>>

Establish ==
    /\ running # None /\ ~settled
    /\ ~cancelled
    /\ plane.state = "none"
    /\ plane' = [op |-> running, state |-> "up"]
    /\ Publish(Event(running, "Connected"))
    /\ settled' = TRUE
    /\ UNCHANGED <<running, cancelled>>

Abort ==
    /\ running # None /\ ~settled
    /\ Publish(Event(running, "Failed"))
    /\ settled' = TRUE
    /\ UNCHANGED <<running, cancelled, plane>>

Finish ==
    /\ running # None /\ settled
    /\ running' = None
    /\ settled' = FALSE
    /\ UNCHANGED <<cancelled, plane, latest>>

-----------------------------------------------------------------------------
\* cancel, and the first half of disconnect.
CancelToken ==
    /\ cancelled' = TRUE
    /\ UNCHANGED <<running, settled, plane, latest>>

\* The data plane is taken out of service: by disconnect, by the assembly that
\* replaces it, or by the sweeper.
TakeDown == plane' = IF plane.state = "up"
                     THEN [plane EXCEPT !.state = "closing"] ELSE plane

\* disconnect cancels again and takes the plane down in one section.
Disconnect ==
    /\ cancelled' = TRUE
    /\ TakeDown
    /\ UNCHANGED <<running, settled, latest>>

Replace ==
    /\ running # None /\ ~settled
    /\ TakeDown
    /\ UNCHANGED <<running, settled, cancelled, latest>>

\* Its workers have seen the stop flag: it will not report a loss any more.
Quiesce ==
    /\ plane.state = "closing"
    /\ plane' = NoPlane
    /\ UNCHANGED <<running, settled, cancelled, latest>>

\* The data plane fails by itself, and says so for the operation it is bound to.
Lose ==
    /\ plane.state \in {"up", "closing"}
    /\ plane' = [plane EXCEPT !.state = "lost"]
    /\ UNCHANGED <<running, settled, cancelled, latest>>

ReportLoss ==
    /\ plane.state = "lost"
    /\ plane' = NoPlane
    /\ Publish(Event(plane.op, "Failed"))
    /\ UNCHANGED <<running, settled, cancelled>>

\* What the handlers publish themselves: the refusal of a duplicate request and
\* the end of a stop or of the exit sequence.
PublishRefusal(o) ==
    /\ Publish(Event(o, "Failed"))
    /\ UNCHANGED <<running, settled, cancelled, plane>>

PublishStop(s) ==
    /\ Publish(Event(s, "Idle"))
    /\ UNCHANGED <<running, settled, cancelled, plane>>

-----------------------------------------------------------------------------
\* Steps the runtime takes by itself.
RuntimeStep ==
    \/ Progress \/ Establish \/ Abort \/ Finish
    \/ Replace \/ Quiesce \/ Lose \/ ReportLoss

\* Steps a caller asks for.
CallerStep ==
    \/ \E o \in Applies : Accept(o) \/ Adopt(o) \/ PublishRefusal(o)
    \/ CancelToken \/ Disconnect
    \/ \E s \in Stops \cup {None} : PublishStop(s)

ContractSpec == ContractInit /\ [][RuntimeStep \/ CallerStep]_contractVars
=============================================================================
