----------------------------- MODULE CstpTunnel -----------------------------
(***************************************************************************)
(* A tunnel's way from the login to the end of its data plane: the login   *)
(* exchange (WebvpnLogin), the session it opens and the threads that serve *)
(* the session.                                                            *)
(***************************************************************************)
EXTENDS WebvpnLogin, Sequences

-----------------------------------------------------------------------------
(***************************************************************************)
(* An open CSTP session of exv-vpn-cstp (session.rs, codec.rs): the offer  *)
(* the CONNECT request is answered with, and the two tasks that then own   *)
(* the halves of the TLS stream.  The read task decodes frames into the    *)
(* data channel and the control channel; the write task takes frames from  *)
(* the write channel.  Either one's exit cancels the other.                *)
(*                                                                          *)
(* A frame is atomic: bytes of a frame that is not complete yet are still  *)
(* on the wire.  The diagnostics events are left out: nobody decides on    *)
(* them.                                                                    *)
(***************************************************************************)

CONSTANTS MaxFrames,    \* frames the gateway sends
          Kinds,        \* kinds of frame it sends of its own accord
          MaskBits,     \* bits of a netmask
          Mtus          \* values the offer's MTU line may have

\* The kinds of frame the codec tells apart.
FrameKinds == {"data", "dpd_request", "keepalive", "unknown", "disconnect", "malformed"}

ASSUME SessionAssumption ==
  /\ MaxFrames \in Nat /\ MaskBits \in Nat /\ Mtus \subseteq Nat
  /\ Kinds \subseteq FrameKinds

VARIABLES
  open,      \* CstpSession::open: "closed", "offer", "parsed", "open" or "failed"
  plan,      \* the plan the session was opened with, and the mask offered
  wire,      \* frames the gateway has sent and the program has not read
  peer,      \* the gateway's side of the stream: "up", "quit" (its last frame
             \* ends the session), "closed" or "reset"
  sent,      \* frames the gateway has sent
  buf,       \* complete frames in the codec's buffer
  rtask,     \* the read task
  wtask,     \* the write task
  data,      \* packets in the data channel
  dataOpen,  \* some sender of it is left
  control,   \* the control channel
  out,       \* the kinds of frame in the write channel
  outOpen,   \* its receiver is left
  fired,     \* tasks whose end the other one has been told of
  owed       \* a dead-peer request was decoded and no reply written since

sessionVars == <<open, plan, wire, peer, sent, buf, rtask, wtask,
                 data, dataOpen, control, out, outOpen, fired, owed>>

\* The last events of a session.
EndedBy(reason) == [kind |-> "ended", reason |-> reason]
WriteFailed == [kind |-> "write_failed", reason |-> "write_error"]
Event(k) == [kind |-> k, reason |-> "none"]

----------------------------------------------------------------------------
(* The offer *)

NoPlan == [prefix |-> -1, mtu |-> 0, mask |-> <<>>]
Masks == [1 .. MaskBits -> {0, 1}]

\* An offer head: its status, the MTU (0 when the line is missing), whether the
\* address parses ("none" when missing), the mask, whether every DNS server and
\* route parses, and whether the word dtls occurs anywhere.
Offers == [ok : BOOLEAN, mtu : Mtus, address : {"none", "bad", "good"},
           mask : Masks \cup {<<>>}, lists : BOOLEAN, dtls : BOOLEAN]

\* netmask_to_prefix: the bits from the left, none after the first zero.
Prefix(mask) ==
  LET ones == {i \in 1 .. MaskBits : mask[i] = 1}
      broken == \E i \in ones : \E j \in 1 .. i : mask[j] = 0
  IN  IF broken THEN -1 ELSE Cardinality(ones)

\* parse_offer: the plan, or none.
ParseOffer(o) ==
  IF /\ o.ok /\ o.mtu >= 68 /\ o.address = "good" /\ o.mask # <<>>
     /\ Prefix(o.mask) >= 0 /\ o.lists /\ ~o.dtls
  THEN [prefix |-> Prefix(o.mask), mtu |-> o.mtu, mask |-> o.mask]
  ELSE NoPlan

SessionInit ==
  /\ open = "closed" /\ plan = NoPlan
  /\ wire = <<>> /\ peer = "up" /\ sent = 0 /\ buf = <<>>
  /\ rtask = "none" /\ wtask = "none"
  /\ data = 0 /\ dataOpen = TRUE /\ control = <<>>
  /\ out = {} /\ outOpen = TRUE /\ fired = {} /\ owed = FALSE

taskVars == <<buf, rtask, wtask, data, dataOpen, control, out, outOpen, fired, owed>>

\* open_with_user_agent: without a login nothing is sent; the connection, and
\* the CONNECT request.
OpenConnect(loggedIn) ==
  /\ open = "closed"
  /\ open' \in (IF loggedIn THEN {"offer", "failed"} ELSE {"failed"})
  /\ UNCHANGED <<plan, wire, peer, sent, taskVars>>

\* The head ends before its terminator, exceeds 16 KiB, or is no offer.
OfferRefused ==
  /\ open = "offer"
  /\ open' = "failed"
  /\ UNCHANGED <<plan, wire, peer, sent, taskVars>>

\* A valid offer.
OfferRead ==
  /\ open = "offer"
  /\ \E o \in Offers : ParseOffer(o) # NoPlan /\ plan' = ParseOffer(o)
  /\ open' = "parsed"
  /\ UNCHANGED <<wire, peer, sent, taskVars>>

\* spawn_data_tasks: the frames read together with the offer go to the read
\* task; the plan goes to the caller.
TasksSpawned ==
  /\ open = "parsed"
  /\ open' = "open" /\ plan' = NoPlan
  /\ buf' = wire
  /\ wire' = <<>>
  /\ rtask' = "spawned" /\ wtask' = "receive"
  /\ UNCHANGED <<peer, sent, data, dataOpen, control, out, outOpen, fired, owed>>

----------------------------------------------------------------------------
(* The gateway *)

notGateway == <<open, plan, taskVars>>

\* The gateway sends a frame; a packet's contents do not matter.
\* What it sends after a disconnect or a malformed frame is never decoded.
GatewaySends ==
  /\ open \in {"offer", "open"} /\ peer = "up" /\ sent < MaxFrames
  /\ \E k \in Kinds :
       /\ wire' = Append(wire, k)
       /\ peer' = IF k \in {"disconnect", "malformed"} THEN "quit" ELSE peer
  /\ sent' = sent + 1
  /\ UNCHANGED notGateway

\* It closes the stream, or the connection breaks.
GatewayEnds ==
  /\ open = "open" /\ peer = "up"
  /\ peer' \in {"closed", "reset"}
  /\ UNCHANGED <<wire, sent, notGateway>>

----------------------------------------------------------------------------
(* The read task *)

readFrame == <<open, plan, peer, sent, wtask, out, outOpen>>

\* One round of the decode loop; `listening' is whether the data channel's
\* receiver is left.
Decode(listening) ==
  /\ rtask = "decode"
  /\ UNCHANGED <<wire, dataOpen, fired, readFrame>>
  /\ IF buf = <<>> THEN rtask' = "await" /\ UNCHANGED <<buf, data, control, owed>>
     ELSE LET f == Head(buf) IN
       /\ buf' = Tail(buf)
       /\ owed' = (owed \/ f = "dpd_request")
       /\ CASE f = "data" /\ listening ->
                 data' = data + 1 /\ UNCHANGED <<rtask, control>>
            [] f = "data" /\ ~listening ->
                 /\ rtask' = "leaving" /\ control' = Append(control, EndedBy("consumer"))
                 /\ UNCHANGED data
            [] f \in {"dpd_request", "keepalive", "unknown"} ->
                 control' = Append(control, Event(f)) /\ UNCHANGED <<rtask, data>>
            [] f \in {"disconnect", "malformed"} ->
                 /\ rtask' = "leaving" /\ control' = Append(control, EndedBy(f))
                 /\ UNCHANGED data

\* Mutant: the frames that came with the offer wait for the next read.
ReadStartsWaiting ==
  /\ rtask = "spawned"
  /\ rtask' = "await"
  /\ UNCHANGED <<wire, buf, data, dataOpen, control, fired, owed, readFrame>>

\* The task starts by decoding what came with the offer.
ReadStarts ==
  /\ rtask = "spawned"
  /\ rtask' = "decode"
  /\ UNCHANGED <<wire, buf, data, dataOpen, control, fired, owed, readFrame>>

\* A read returns frames, the end of the stream, or an error.
Read ==
  /\ rtask = "await"
  /\ \/ /\ wire # <<>>
        /\ \E n \in 1 .. Len(wire) :
             buf' = buf \o SubSeq(wire, 1, n) /\ wire' = SubSeq(wire, n + 1, Len(wire))
        /\ rtask' = "decode"
        /\ UNCHANGED control
     \/ /\ \/ peer = "closed" /\ wire = <<>>
           \/ peer = "reset"
        /\ rtask' = "leaving"
        /\ control' = Append(control, EndedBy(peer))
        /\ UNCHANGED <<wire, buf>>
  /\ UNCHANGED <<data, dataOpen, fired, owed, readFrame>>

\* The other branches of the select: the write task has ended, or the data
\* channel's receiver is gone.
ReadCancelled(listening) ==
  /\ rtask \in {"spawned", "await"}
  /\ \/ "write" \in fired /\ UNCHANGED control
     \/ ~listening /\ control' = Append(control, EndedBy("consumer"))
  /\ rtask' = "leaving"
  /\ UNCHANGED <<wire, buf, data, dataOpen, fired, owed, readFrame>>

\* The task's end: first `read_done' is dropped, then the last sender of the
\* data channel.
ReadTells ==
  /\ rtask = "leaving"
  /\ rtask' = "told" /\ fired' = fired \cup {"read"}
  /\ UNCHANGED <<wire, buf, data, dataOpen, control, owed, readFrame>>

ReadEnds ==
  /\ rtask = "told"
  /\ rtask' = "ended" /\ dataOpen' = FALSE
  /\ UNCHANGED <<wire, buf, data, control, fired, owed, readFrame>>

----------------------------------------------------------------------------
(* The write task *)

writeFrame == <<open, plan, wire, peer, sent, buf, rtask, data, dataOpen>>

\* A frame is taken from the channel, written and flushed.
WriteOne(f) ==
  /\ wtask = "receive"
  /\ f \in out /\ out' = out \ {f}
  /\ owed' = (owed /\ f # "dpd_reply")
  /\ UNCHANGED <<wtask, control, outOpen, fired, writeFrame>>

\* write_all or flush fails: the event is the task's last.
WriteFails ==
  /\ wtask = "receive" /\ peer # "up"
  /\ \E f \in out : out' = out \ {f}
  /\ wtask' = "leaving"
  /\ control' = Append(control, WriteFailed)
  /\ UNCHANGED <<outOpen, fired, owed, writeFrame>>

\* No sender is left (`senders' says whether there is one), or the read task
\* has ended.
WriteCancelled(senders) ==
  /\ \/ wtask = "receive" /\ out = {} /\ ~senders
     \/ wtask = "receive" /\ "read" \in fired
  /\ wtask' = "leaving"
  /\ UNCHANGED <<control, out, outOpen, fired, owed, writeFrame>>

\* The task's end: its future, and with it the receiver of the write channel,
\* is dropped before `write_done'.
WriteCloses ==
  /\ wtask = "leaving"
  /\ wtask' = "closed" /\ outOpen' = FALSE /\ out' = {}
  /\ UNCHANGED <<control, fired, owed, writeFrame>>

WriteEnds ==
  /\ wtask = "closed"
  /\ wtask' = "ended" /\ fired' = fired \cup {"write"}
  /\ UNCHANGED <<control, out, outOpen, owed, writeFrame>>

ReadTask(listening) ==
  \/ ReadStarts \/ Decode(listening) \/ Read \/ ReadCancelled(listening)
  \/ ReadTells \/ ReadEnds

WriteTask(senders) ==
  \/ (\E f \in out : WriteOne(f)) \/ WriteFails
  \/ WriteCancelled(senders) \/ WriteCloses \/ WriteEnds

-----------------------------------------------------------------------------
(***************************************************************************)
(* The two threads of the Windows engine between the Wintun ring and an    *)
(* open CSTP session (data_plane.rs): the reader takes packets from the    *)
(* ring to the write channel, the writer takes packets from the data       *)
(* channel to the ring, answers the gateway's dead-peer requests, keeps    *)
(* the session alive and watches for the session's end.  The owner         *)
(* activates the threads once the tunnel is installed, and stops and joins *)
(* them.  The reader and the writer share one loss report.  The latency    *)
(* probe is left out: it only sends packets of its own.                    *)
(***************************************************************************)

CONSTANT MaxRingFaults \* failing calls of the ring

ASSUME PlaneAssumption == MaxRingFaults \in Nat

VARIABLES
  owner,     \* the owner: "none", "assembled", "active", "stopping", "joining", "gone"
  activated, \* the threads may work
  stop,      \* threads told to stop
  reader,    \* the reader thread
  writer,    \* the writer thread
  ending,    \* the reason of the session's end the writer has kept
  reported,  \* the loss reports made, each with its reason
  ringFaults

planeVars == <<owner, activated, stop, reader, writer, ending, reported, ringFaults>>

Listening == owner # "gone"
Senders == owner # "gone"

PlaneInit ==
  /\ owner = "none" /\ activated = FALSE /\ stop = {}
  /\ reader = "none" /\ writer = "none" /\ ending = "none" /\ reported = <<>>
  /\ ringFaults = 0

\* Mutant: a thread that was told to stop reports its end like any other.
ReportStopped(thread, reason) ==
  reported' = IF reported # <<>> THEN reported ELSE Append(reported, reason)

\* DataPlaneWorkerGuard::report: only the first report counts, and none of a
\* thread that was told to stop.
Report(thread, reason) ==
  reported' = IF thread \in stop \/ reported # <<>> THEN reported
              ELSE Append(reported, reason)

\* Puts a frame on the write channel; nothing happens once it is closed.
Put(frame) == out' = IF outOpen THEN out \cup {frame} ELSE out

notOut == <<open, plan, wire, peer, sent, buf, rtask, wtask, data,
            dataOpen, control, outOpen, fired, owed>>

----------------------------------------------------------------------------
(* The owner *)

ownerFrame == <<sessionVars, ending, reported, ringFaults>>

\* spawn_data_plane, once the plan has been applied to the platform.
Spawn ==
  /\ open = "open" /\ owner = "none"
  /\ owner' = "assembled" /\ reader' = "waiting" /\ writer' = "waiting"
  /\ UNCHANGED <<activated, stop, ownerFrame>>

Activate ==
  /\ owner = "assembled"
  /\ owner' = "active" /\ activated' = TRUE
  /\ UNCHANGED <<stop, reader, writer, ownerFrame>>

\* Mutant: only the reader is told to stop.
StopReaderOnly ==
  \/ /\ owner \in {"assembled", "active"}
     /\ owner' = "stopping" /\ stop' = stop \cup {"reader"}
     /\ UNCHANGED <<activated, reader, writer, ownerFrame>>
  \/ /\ owner = "stopping"
     /\ owner' = "joining"
     /\ UNCHANGED <<activated, stop, reader, writer, ownerFrame>>

\* stop_and_join (and Drop): both stop flags, both joins, and only then the
\* channels go.
Stop ==
  \/ /\ owner \in {"assembled", "active"}
     /\ owner' = "stopping" /\ stop' = stop \cup {"reader"}
     /\ UNCHANGED <<activated, reader, writer, ownerFrame>>
  \/ /\ owner = "stopping"
     /\ owner' = "joining" /\ stop' = stop \cup {"writer"}
     /\ UNCHANGED <<activated, reader, writer, ownerFrame>>

Joined ==
  /\ owner = "joining" /\ reader = "done" /\ writer = "done"
  /\ owner' = "gone"
  /\ UNCHANGED <<activated, stop, reader, writer, ownerFrame>>

----------------------------------------------------------------------------
(* The reader thread *)

readerFrame == <<notOut, owner, activated, stop, writer, ending>>

\* The head of the outer loop.
ReaderLoops == reader' = IF "reader" \in stop THEN "exit" ELSE "ring"

\* wait_for_data_plane_activation.
ReaderStarts ==
  /\ reader = "waiting" /\ (activated \/ "reader" \in stop)
  /\ ReaderLoops
  /\ UNCHANGED <<out, reported, ringFaults, readerFrame>>

\* The inner loop takes packets to the write channel until the ring is empty,
\* without a look at the stop flag.  A closed channel ends only the inner
\* loop: the writer is the one to report it.
ReaderUploads ==
  /\ reader = "ring"
  /\ Put("packet")
  /\ IF outOpen THEN reader' = "ring" ELSE ReaderLoops
  /\ UNCHANGED <<reported, ringFaults, readerFrame>>

RingEmpty ==
  /\ reader = "ring"
  /\ ReaderLoops
  /\ UNCHANGED <<out, reported, ringFaults, readerFrame>>

\* Waiting for the ring, or receiving from it, fails.
ReaderFails ==
  /\ reader = "ring" /\ ringFaults < MaxRingFaults
  /\ ringFaults' = ringFaults + 1
  /\ Report("reader", "ring") /\ reader' = "exit"
  /\ UNCHANGED <<out, readerFrame>>

\* The guard is dropped with the thread.
ReaderExits ==
  /\ reader = "exit"
  /\ reader' = "done" /\ Report("reader", "unexpected_exit")
  /\ UNCHANGED <<out, ringFaults, readerFrame>>

----------------------------------------------------------------------------
(* The writer thread *)

writerFrame == <<open, plan, wire, peer, sent, buf, rtask, wtask, dataOpen,
                 outOpen, fired, owed, owner, activated, stop, reader>>

WriterTurns ==
  /\ \/ writer = "waiting" /\ (activated \/ "writer" \in stop)
     \/ writer = "loop"
  /\ writer' = IF "writer" \in stop THEN "exit" ELSE "drain"
  /\ UNCHANGED <<data, control, out, ending, reported, ringFaults, writerFrame>>

\* get_or_insert: the first reason is kept.
Keep(event) == ending' = IF ending = "none" THEN event.reason ELSE ending

\* One control event: a dead-peer request is answered at once; the events that
\* end the session are kept; the others change nothing.
WriterDrains ==
  /\ writer = "drain" /\ control # <<>>
  /\ LET e == Head(control) IN
       IF e.kind \in {"ended", "write_failed"} THEN Keep(e) /\ UNCHANGED out
       ELSE /\ UNCHANGED ending
            /\ IF e.kind = "dpd_request" THEN Put("dpd_reply") ELSE UNCHANGED out
  /\ control' = Tail(control)
  /\ UNCHANGED <<writer, data, reported, ringFaults, writerFrame>>

\* The control channel is found empty.
WriterDrained ==
  /\ writer = "drain" /\ control = <<>>
  /\ writer' = "check"
  /\ UNCHANGED <<data, control, out, ending, reported, ringFaults, writerFrame>>

\* Then, what was kept apart, a closed write channel ends the session too; an
\* event put on the control channel since then is not looked at.  Otherwise
\* KeepaliveTicker::due and ProbeState::tick put frames of the client's own on
\* the write channel when their time has come.
WriterChecks ==
  /\ writer = "check"
  /\ LET end == IF ending = "none" /\ ~outOpen THEN "broken_pipe" ELSE ending IN
       /\ ending' = end
       /\ IF end = "none"
          THEN writer' = "packet" /\ (Put("packet") \/ UNCHANGED out) /\ UNCHANGED reported
          ELSE writer' = "exit" /\ Report("writer", end) /\ UNCHANGED out
  /\ UNCHANGED <<data, control, ringFaults, writerFrame>>

\* A packet goes into the ring, or is dropped when the ring is full; any other
\* failure ends the thread.
WriterDelivers ==
  /\ writer = "packet" /\ data > 0
  /\ data' = data - 1
  /\ \/ writer' = "loop" /\ UNCHANGED <<reported, ringFaults>>
     \/ /\ ringFaults < MaxRingFaults /\ ringFaults' = ringFaults + 1
        /\ Report("writer", "ring") /\ writer' = "exit"
  /\ UNCHANGED <<control, out, ending, writerFrame>>

\* Nothing to deliver yet.
WriterIdles ==
  /\ writer = "packet" /\ data = 0 /\ dataOpen
  /\ writer' = "loop"
  /\ UNCHANGED <<data, control, out, ending, reported, ringFaults, writerFrame>>

\* The data channel is closed: the events left are drained again for the
\* reason, a write failure only being logged, and the loss is reported.
WriterFindsClosed ==
  /\ writer = "packet" /\ data = 0 /\ ~dataOpen
  /\ LET ends == SelectSeq(control, LAMBDA e : e.kind = "ended")
         end == IF ending = "none" /\ ends # <<>> THEN Head(ends).reason ELSE ending
     IN  ending' = end /\ Report("writer", end)
  /\ control' = <<>>
  /\ writer' = "exit"
  /\ UNCHANGED <<data, out, ringFaults, writerFrame>>

WriterExits ==
  /\ writer = "exit"
  /\ writer' = "done" /\ Report("writer", "unexpected_exit")
  /\ ending' = "none"
  /\ UNCHANGED <<data, control, out, ringFaults, writerFrame>>

Reader == ReaderStarts \/ ReaderUploads \/ RingEmpty \/ ReaderFails \/ ReaderExits

Writer ==
  \/ WriterTurns \/ WriterDrains \/ WriterDrained \/ WriterChecks
  \/ WriterDelivers \/ WriterIdles \/ WriterFindsClosed \/ WriterExits

-----------------------------------------------------------------------------

vars == <<loginVars, sessionVars, planeVars>>

Init == LoginInit /\ SessionInit /\ PlaneInit

Login == LoginNext /\ UNCHANGED <<sessionVars, planeVars>>

\* The login is over: its session, if there is one, opens the CSTP session and
\* is not kept.
Opening ==
  \/ /\ LoginOver /\ OpenConnect(login.pc = "ok")
     /\ login' = Ended("used") /\ exchanges' = 0 /\ submitted' = 0 /\ answered' = FALSE
     /\ UNCHANGED planeVars
  \/ (OfferRefused \/ OfferRead \/ TasksSpawned) /\ UNCHANGED <<loginVars, planeVars>>

Gateway ==
  /\ GatewaySends \/ GatewayEnds
  /\ UNCHANGED <<loginVars, planeVars>>

ReadSide == ReadTask(Listening) /\ UNCHANGED <<loginVars, planeVars>>
WriteSide == WriteTask(Senders) /\ UNCHANGED <<loginVars, planeVars>>

Owner == (Spawn \/ Activate \/ Stop \/ Joined) /\ UNCHANGED loginVars
Threads == (Reader \/ Writer) /\ UNCHANGED loginVars

Next == Login \/ Opening \/ Gateway \/ ReadSide \/ WriteSide \/ Owner \/ Threads

Spec == Init /\ [][Next]_vars

\* Tokio polls a task that is ready, and its select takes a ready branch at
\* random; the write channel is first in, first out, so no frame in it waits
\* for ever; the operating system runs a thread that is runnable; the ring is
\* empty at some point, since the inner loop would otherwise never look at the
\* stop flag.  The owner activates what it assembled and, once it has begun to
\* stop, goes on.  Nothing makes it stop, and the gateway owes nothing.
Fairness ==
  /\ WF_vars(ReadSide) /\ WF_vars(WriteSide)
  /\ WF_vars(WriteCancelled(Senders) /\ UNCHANGED <<loginVars, planeVars>>)
  /\ WF_vars(WriteOne("dpd_reply") /\ UNCHANGED <<loginVars, planeVars>>)
  /\ WF_vars(Reader /\ UNCHANGED loginVars)
  /\ SF_vars(RingEmpty /\ UNCHANGED loginVars)
  /\ WF_vars(Writer /\ UNCHANGED loginVars)
  /\ WF_vars((Spawn \/ Activate \/ Joined) /\ UNCHANGED loginVars)
  /\ WF_vars(owner = "stopping" /\ Stop /\ UNCHANGED loginVars)

FairSpec == Spec /\ Fairness

----------------------------------------------------------------------------
\* An opened session has the prefix of a mask without holes.
PlanIsOffered ==
  plan # NoPlan => \A i \in 1 .. MaskBits : (plan.mask[i] = 1) <=> (i <= plan.prefix)

\* The login is honest: the user's password goes out as often as the user asked
\* and no more, a session that was opened is one the gateway granted, and its
\* address plan is the one that was offered.
LoginIsHonest == PasswordBudget /\ SessionIsReal /\ PlanIsOffered

\* The threads report a loss at most once between them, and only when the
\* stream or the ring failed: stopping them is no loss.
OneHonestLoss ==
  /\ Len(reported) <= 1
  /\ reported # <<>> => peer # "up" \/ ringFaults > 0

\* The read task never waits for the network while frames it already has,
\* those read together with the offer included, are not decoded.
NothingUndecoded == rtask = "await" => buf = <<>>

\* Someone still has to act: a session ended under active threads and nobody
\* was told, a dead-peer request was read and not answered, or the owner asked
\* for the stop and threads or tasks remain.
Unsettled ==
  \/ /\ activated /\ owner \notin {"stopping", "joining", "gone"} /\ reported = <<>>
     /\ rtask = "ended" \/ wtask = "ended" \/ owed
  \/ owner \in {"stopping", "joining"}
  \/ owner = "gone" /\ ~(rtask = "ended" /\ wtask = "ended")

\* Everything settles: a session that ends under active threads is reported,
\* every dead-peer request is answered or the session is over, for the gateway
\* drops a client that stays silent, and stop_and_join returns with both tasks
\* ended.
SessionSettles == Unsettled ~> ~Unsettled
=============================================================================
