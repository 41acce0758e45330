----------------------------- MODULE LatencyProbe -----------------------------
(***************************************************************************)
(* The round-trip probe of an engine's data plane (win32 data_plane.rs     *)
(* ProbeState, darwin packet/probe.rs ProbeState and LatencyTap), with the *)
(* marker file through which the Windows shell asks for a probe at once    *)
(* (tauri latency.rs).  A writer thread or a timer ticks the state         *)
(* machine; replies come in from the pump.                                 *)
(*                                                                         *)
(* Time is kept as ages in ticks, which stop counting at the largest       *)
(* duration the code compares with.                                        *)
(***************************************************************************)
EXTENDS Integers, FiniteSets

CONSTANTS DpdEnabled,     \* DPD_PROBE_ENABLED
          HasMarker,      \* the engine polls a marker file (win32)
          DpdInterval, DpdTimeout, DpdMaxTimeouts,
          PingInterval, PingTimeout,
          MaxAge,         \* where ages stop, at least every duration; no reply
                          \* is on its way that long
          Idents          \* next_ident counts modulo this, above MaxAge

VARIABLES kind,      \* the probe channel, "Dpd" or "Ping"
          missed,    \* dpd_timeouts
          sinceDpd, sincePing,  \* ages of last_dpd_sent and last_ping_sent
          dpd,       \* age of pending_dpd, or None
          ping,      \* pending_ping: its age and ident, or None
          ident,     \* next_ident
          polled,    \* the marker was looked at since time last passed
          marker,    \* the marker file holds a stamp later than the last seen
          replies,   \* echo replies on their way: ident and age of the request
          latency,   \* the last value recorded from a ping: measured and true
          fired      \* ghost: a probe was sent since time last passed

vars == <<kind, missed, sinceDpd, sincePing, dpd, ping, ident, polled, marker,
          replies, latency, fired>>

None == [age |-> -1, ident |-> -1]
Older(n) == IF n < MaxAge THEN n + 1 ELSE n

Init ==
  /\ kind = IF DpdEnabled THEN "Dpd" ELSE "Ping"
  /\ missed = 0
  /\ sinceDpd = 0 /\ sincePing = 0
  /\ dpd = -1
  /\ ping = None
  /\ ident = 0
  /\ polled = FALSE
  /\ marker = FALSE
  /\ replies = {}
  /\ latency = <<0, 0>>
  /\ fired = FALSE

TimePasses ==
  /\ sinceDpd' = Older(sinceDpd)
  /\ sincePing' = Older(sincePing)
  /\ dpd' = IF dpd = -1 THEN -1 ELSE Older(dpd)
  /\ ping' = IF ping = None THEN None ELSE [ping EXCEPT !.age = Older(@)]
  /\ replies' = {[r EXCEPT !.age = @ + 1] : r \in {q \in replies : q.age < MaxAge}}
  /\ fired' = FALSE
  /\ polled' = FALSE
  /\ UNCHANGED <<kind, missed, ident, marker, latency>>

\* The state after the timeouts of a tick: the channel, the count, what is
\* still pending.
DpdTimedOut == dpd >= DpdTimeout
PingTimedOut == ping.age >= PingTimeout
MissedNow == IF DpdTimedOut THEN missed + 1 ELSE missed
KindNow == IF DpdTimedOut /\ MissedNow >= DpdMaxTimeouts THEN "Ping" ELSE kind

PingNow == IF PingTimedOut THEN None ELSE ping

\* The gateway may answer the echo request, or drop it.
FirePing ==
  /\ sincePing' = 0
  /\ ping' = [age |-> 0, ident |-> ident]
  /\ ident' = (ident + 1) % Idents
  /\ \/ replies' = replies \cup {[ident |-> ident, age |-> 0]}
     \/ replies' = replies
  /\ dpd' = IF DpdTimedOut THEN -1 ELSE dpd
  /\ UNCHANGED sinceDpd

FireDpd ==
  /\ sinceDpd' = 0
  /\ dpd' = 0
  /\ ping' = PingNow
  /\ UNCHANGED <<sincePing, ident, replies>>

Fire ==
  /\ fired' = TRUE
  /\ IF KindNow = "Dpd" THEN FireDpd ELSE FirePing

PeriodDue ==
  IF KindNow = "Dpd" THEN sinceDpd >= DpdInterval ELSE sincePing >= PingInterval

NothingDue ==
  /\ dpd' = IF DpdTimedOut THEN -1 ELSE dpd
  /\ ping' = PingNow
  /\ UNCHANGED <<sinceDpd, sincePing, ident, replies, fired>>

\* A tick that finds the user's request in the marker file probes at once.
TickRefreshes ==
  /\ HasMarker
  /\ ~polled
  /\ marker
  /\ polled' = TRUE
  /\ marker' = FALSE
  /\ missed' = MissedNow
  /\ kind' = KindNow
  /\ Fire
  /\ UNCHANGED latency

\* Any other tick: timeouts first, then the period of the channel in use.
Tick ==
  /\ HasMarker /\ marker => polled
  /\ polled' = TRUE
  /\ missed' = MissedNow
  /\ kind' = KindNow
  /\ IF PeriodDue THEN Fire ELSE NothingDue
  /\ UNCHANGED <<marker, latency>>

\* write_refresh_marker, with a clock that has moved on.
WriteRefreshMarker ==
  /\ HasMarker
  /\ marker' = TRUE
  /\ UNCHANGED <<kind, missed, sinceDpd, sincePing, dpd, ping, ident, polled, replies, latency, fired>>

\* The gateway answers a DPD request, at any time.
OnDpdResponse ==
  /\ DpdEnabled
  /\ IF dpd = -1 THEN UNCHANGED <<dpd, missed>> ELSE dpd' = -1 /\ missed' = 0
  /\ UNCHANGED <<kind, sinceDpd, sincePing, ping, ident, polled, marker, replies, latency, fired>>

IsIcmpEchoReply(r) == ping # None /\ r.ident = ping.ident

\* An inbound echo reply; it may come in more than once.
OnIcmpEchoReply ==
  /\ \E r \in replies :
       /\ \/ replies' = replies \ {r}
          \/ replies' = replies
       /\ IF IsIcmpEchoReply(r)
          THEN latency' = <<ping.age, r.age>> /\ ping' = None
          ELSE UNCHANGED <<latency, ping>>
  /\ UNCHANGED <<kind, missed, sinceDpd, sincePing, dpd, ident, polled, marker, fired>>

Next ==
  \/ TimePasses
  \/ TickRefreshes
  \/ Tick
  \/ WriteRefreshMarker
  \/ OnDpdResponse
  \/ OnIcmpEchoReply

-----------------------------------------------------------------------------

\* A latency recorded from a ping is the age of the very request answered,
\* whatever replies were late, lost or repeated and however often the user
\* asked for a new probe.
LatencyIsTrue == latency[1] = latency[2]

\* The channel falls back to ping only after the last of DPD_MAX_TIMEOUTS
\* unanswered requests in a row.
FallbackIsEarned == kind = "Dpd" => missed < DpdMaxTimeouts
=============================================================================
