-------------------------- MODULE CstpTunnelProofs --------------------------
(***************************************************************************)
(* The safety properties of CstpTunnel for every number of frames, every   *)
(* netmask width, every set of MTUs and every number of ring failures.     *)
(*                                                                         *)
(* LoginInv carries what the login says of itself; LossInv traces every    *)
(* sign of a session's end (a task that leaves, a channel that closes, an  *)
(* event that ends the session) back to the gateway or to an owner that    *)
(* has joined its threads, so that a report has a cause.                   *)
(***************************************************************************)
EXTENDS CstpTunnel, FiniteSetTheorems, SequenceTheorems, TLAPS

-----------------------------------------------------------------------------
(* The login *)

\* Before the password is sent, and between its two submissions.
Unsent == {"connect_xml", "probe", "reply", "connect_get", "get", "connect_post", "post"}
Resending == {"reconnect", "reply_again"}

\* The results a response numbered n may lead to.
Results(n) ==
  {Ended(how) : how \in {"rejected", "saml", "two_factor", "protocol", "http", "tls"}}
  \cup {[pc |-> "ok", cookie |-> n]}
  \cup (IF BlankTokens THEN {[pc |-> "ok", cookie |-> Blank]} ELSE {})

\* A gateway that sends no empty session token.
RealSession == BlankTokens = FALSE => SessionIsReal

LoginInv ==
  /\ exchanges \in Nat /\ submitted \in 0 .. 2
  /\ login.pc \in Unsent => submitted = 0 /\ answered = FALSE
  /\ login.pc \in Resending => submitted <= 1 /\ answered = FALSE
  /\ RealSession

-----------------------------------------------------------------------------
(* The session and its threads *)

\* Frames and control events that end nothing.
QuietFrames == FrameKinds \ {"disconnect", "malformed"}
QuietEvents == [kind : {"dpd_request", "keepalive", "unknown"}, reason : {"none"}]
Reasons == {"consumer", "disconnect", "malformed", "quit", "closed", "reset"}
Events == [kind : {"dpd_request", "keepalive", "unknown", "ended", "write_failed"},
           reason : {"none", "write_error"} \cup Reasons]

\* The session may end: the gateway ended it, or the owner has joined its
\* threads and dropped the channels.
Over == peer # "up" \/ owner = "gone"

SessionTypes ==
  /\ peer \in {"up", "quit", "closed", "reset"}
  /\ wire \in Seq(FrameKinds) /\ buf \in Seq(FrameKinds)
  /\ control \in Seq(Events)
  /\ ringFaults \in Nat

\* What an end of the session shows itself by.
EndHasCause ==
  /\ peer = "up" => wire \in Seq(QuietFrames) /\ buf \in Seq(QuietFrames)
  /\ ~Over => /\ control \in Seq(QuietEvents)
              /\ fired = {} /\ ending = "none"
              /\ rtask \notin {"leaving", "told", "ended"}
              /\ wtask \notin {"leaving", "closed", "ended"}
              /\ dataOpen = TRUE /\ outOpen = TRUE

\* A thread on its way out was told to stop or its loss is reported, and an
\* owner that is gone has joined both.
ThreadsAccounted ==
  /\ reader = "exit" => "reader" \in stop \/ reported # <<>>
  /\ writer = "exit" => "writer" \in stop \/ reported # <<>>
  /\ owner = "gone" => reader = "done" /\ writer = "done"

LossInv == SessionTypes /\ EndHasCause /\ ThreadsAccounted /\ OneHonestLoss

Inv == LoginInv /\ PlanIsOffered /\ NothingUndecoded /\ LossInv

-----------------------------------------------------------------------------
(* Lemmas about the operators *)

\* netmask_to_prefix: a mask it accepts has its ones at the front, and the
\* prefix counts them.
LEMMA PrefixCounts ==
  ASSUME NEW mask \in Masks, Prefix(mask) >= 0
  PROVE  \A i \in 1 .. MaskBits : (mask[i] = 1) <=> (i <= Prefix(mask))
<1> DEFINE ones == {i \in 1 .. MaskBits : mask[i] = 1}
           broken == \E i \in ones : \E j \in 1 .. i : mask[j] = 0
<1>1. MaskBits \in Nat
  BY SessionAssumption
<1>2. ~broken /\ Prefix(mask) = Cardinality(ones)
  BY DEF Prefix
<1>3. IsFiniteSet(1 .. MaskBits) /\ ones \in SUBSET (1 .. MaskBits)
  BY <1>1, FS_Interval
<1>4. IsFiniteSet(ones)
  BY <1>3, FS_Subset, Zenon
<1>5. Cardinality(ones) \in Nat
  BY <1>4, FS_CardinalityType
<1>6. ASSUME NEW i \in 1 .. MaskBits, mask[i] = 1 PROVE i <= Cardinality(ones)
  <2>1. 1 .. i \in SUBSET ones
    BY <1>1, <1>2, <1>6 DEF Masks
  <2>2. Cardinality(1 .. i) <= Cardinality(ones)
    BY <1>4, <2>1, FS_Subset
  <2>3. Cardinality(1 .. i) = i
    BY <1>1, FS_Interval
  <2>. QED
    BY <2>2, <2>3
<1>7. ASSUME NEW i \in 1 .. MaskBits, mask[i] # 1 PROVE ~(i <= Cardinality(ones))
  <2>1. ASSUME NEW j \in ones PROVE j \in 1 .. (i - 1)
    <3>1. mask[i] = 0
      BY <1>7 DEF Masks
    <3>2. ~(i <= j)
      BY <1>1, <1>2, <3>1, <2>1
    <3>. QED
      BY <1>1, <3>2
  <2>2. ones \in SUBSET (1 .. (i - 1))
    BY <2>1
  <2>3. IsFiniteSet(1 .. (i - 1)) /\ Cardinality(1 .. (i - 1)) = i - 1
    BY <1>1, FS_Interval
  <2>4. Cardinality(ones) <= Cardinality(1 .. (i - 1))
    BY <2>2, <2>3, FS_Subset
  <2>. QED
    BY <1>1, <1>5, <2>3, <2>4
<1>. QED
  BY <1>2, <1>6, <1>7

\* A body that is a document is one the gateway may send.
LEMMA BodyIsDocument ==
  ASSUME NEW d \in Bodies, d # {} PROVE (CHOOSE x \in d : TRUE) \in Docs
  BY DEF Bodies

\* session_from_aggregate and classify together: a document ends the login, or
\* leads where it asks.
LEMMA DocumentLeads ==
  ASSUME NEW d \in Docs, NEW cookie \in Cookies, NEW n \in Nat, NEW asked
  PROVE  OfDocument(d, cookie, n, asked) \in Results(n) \cup {asked}
<1>1. /\ d.token \in {Absent, 1} \cup (IF BlankTokens THEN {Blank} ELSE {})
      /\ BlankTokens \in BOOLEAN
  BY LoginAssumption DEF Docs
<1>2. SessionFromAggregate(d, cookie, n) \in Results(n)
  BY <1>1 DEF SessionFromAggregate, Results, Issued, Cookies, Ended, Absent, Blank
<1>3. Ended("rejected") \in Results(n) /\ Ended("two_factor") \in Results(n)
  BY DEF Results
<1>. QED
  BY <1>2, <1>3, Zenon DEF OfDocument

LEMMA ProbeLeads ==
  ASSUME NEW status \in Statuses, NEW d \in Bodies, NEW steer \in BOOLEAN,
         NEW cookie \in Cookies, NEW n \in Nat
  PROVE  OfProbe(status, d, steer, cookie, n)
           \in Results(n) \cup {At("reply"), At("connect_get")}
<1>1. Ended("rejected") \in Results(n) /\ Ended("saml") \in Results(n)
  BY DEF Results
<1>2. CASE d = {}
  BY <1>1, <1>2 DEF OfProbe, Statuses
<1>3. CASE d # {}
  <2> DEFINE doc == CHOOSE x \in d : TRUE
             asked == IF {"username", "password"} \subseteq doc.fields
                      THEN At("reply") ELSE At("connect_get")
  <2>1. doc \in Docs
    BY <1>3, BodyIsDocument
  <2>2. OfDocument(doc, cookie, n, asked) \in Results(n) \cup {asked}
    BY <2>1, DocumentLeads
  <2>3. asked \in {At("reply"), At("connect_get")}
    OBVIOUS
  <2>4. OfProbe(status, d, steer, cookie, n)
          \in {Ended("saml"), At("connect_get"), Ended("rejected"),
              OfDocument(doc, cookie, n, asked)}
    BY <1>3 DEF OfProbe, Statuses
  <2>. QED
    BY <1>1, <2>2, <2>3, <2>4
<1>. QED
  BY <1>2, <1>3

LEMMA ReplyLeads ==
  ASSUME NEW status \in Statuses, NEW d \in Bodies, NEW steer \in BOOLEAN,
         NEW cookie \in Cookies, NEW n \in Nat
  PROVE  OfReply(status, d, steer, cookie, n) \in Results(n)
<1>1. Ended("rejected") \in Results(n) /\ Ended("saml") \in Results(n)
  BY DEF Results
<1>2. CASE d = {}
  BY <1>1, <1>2 DEF OfReply, Statuses
<1>3. CASE d # {}
  <2> DEFINE doc == CHOOSE x \in d : TRUE
  <2>1. doc \in Docs
    BY <1>3, BodyIsDocument
  <2>2. OfDocument(doc, cookie, n, Ended("rejected")) \in Results(n)
    BY <1>1, <2>1, DocumentLeads
  <2>3. OfReply(status, d, steer, cookie, n)
          \in {Ended("saml"), Ended("rejected"),
              OfDocument(doc, cookie, n, Ended("rejected"))}
    BY <1>3 DEF OfReply, Statuses
  <2>. QED
    BY <1>1, <2>2, <2>3
<1>. QED
  BY <1>2, <1>3

LEMMA PostLeads ==
  ASSUME NEW status \in Statuses, NEW error \in BOOLEAN, NEW steer \in BOOLEAN,
         NEW second \in BOOLEAN, NEW cookie \in Cookies, NEW n \in Nat
  PROVE  OfPost(status, error, steer, second, cookie, n) \in Results(n)
  BY DEF OfPost, Statuses, Results, Cookies, Issued, Ended, Absent, Blank

-----------------------------------------------------------------------------
(* What each step keeps *)

\* No step of the login sends the password more often than it may, and it ends
\* with a session only by a response that grants one.
LEMMA LoginStep == ASSUME LoginInv, LoginNext PROVE LoginInv'
<1> USE DEF LoginInv, Unsent, Resending, RealSession, SessionIsReal, Blank
<1>0. exchanges \in Nat /\ exchanges + 1 \in Nat /\ exchanges + 1 > 0
  OBVIOUS
<1>1. ASSUME ConnectXml PROVE LoginInv'
  BY <1>1 DEF ConnectXml, Connect, Ended, At
<1>2. ASSUME ProbeFails PROVE LoginInv'
  BY <1>2 DEF ProbeFails, Ended, At
<1>3. ASSUME ReplyLost PROVE LoginInv'
  BY <1>3 DEF ReplyLost, Ended, At
<1>4. ASSUME Reconnect PROVE LoginInv'
  BY <1>4 DEF Reconnect, Connect, Ended, At
<1>5. ASSUME ReplyLostAgain PROVE LoginInv'
  BY <1>5 DEF ReplyLostAgain, Ended, At
<1>6. ASSUME ConnectGet PROVE LoginInv'
  BY <1>6 DEF ConnectGet, Connect, Ended, At
<1>7. ASSUME Get PROVE LoginInv'
  BY <1>7 DEF Get, Ended, At
<1>8. ASSUME GetFails PROVE LoginInv'
  BY <1>8 DEF GetFails, Ended, At
<1>9. ASSUME ConnectPost PROVE LoginInv'
  BY <1>9 DEF ConnectPost, Connect, Ended, At
<1>10. ASSUME PostLost PROVE LoginInv'
  BY <1>10 DEF PostLost, Ended, At
<1>11. ASSUME Probe PROVE LoginInv'
  <2>1. login' \in Results(exchanges + 1) \cup {At("reply"), At("connect_get")}
    BY <1>0, <1>11, ProbeLeads DEF Probe
  <2>. QED
    BY <1>0, <1>11, <2>1 DEF Probe, Results, Ended, At, Blank
<1>12. ASSUME Reply PROVE LoginInv'
  <2>1. login' \in Results(exchanges + 1)
    BY <1>0, <1>12, ReplyLeads DEF Reply
  <2>. QED
    BY <1>0, <1>12, <2>1 DEF Reply, Results, Ended, At, Blank
<1>13. ASSUME Post PROVE LoginInv'
  <2>1. login' \in Results(exchanges + 1)
    BY <1>0, <1>13, PostLeads DEF Post
  <2>. QED
    BY <1>0, <1>13, <2>1 DEF Post, Results, Ended, At, Blank
<1>. QED
  BY <1>1, <1>2, <1>3, <1>4, <1>5, <1>6, <1>7, <1>8, <1>9, <1>10, <1>11, <1>12,
     <1>13, Zenon DEF LoginNext

\* The login's own state changes with a step of the login or when its session
\* is used.
LEMMA LoginInvStep == ASSUME LoginInv, [Next]_vars PROVE LoginInv'
<1>1. CASE Login
  BY <1>1, LoginStep DEF Login
<1>2. CASE Opening /\ login' = Ended("used") /\ exchanges' = 0 /\ submitted' = 0
           /\ answered' = FALSE
  BY <1>2 DEF LoginInv, Unsent, Resending, RealSession, SessionIsReal, Ended
<1>3. CASE UNCHANGED loginVars
  BY <1>3 DEF loginVars, LoginInv, Unsent, Resending, RealSession, SessionIsReal
<1>. QED
  BY <1>1, <1>2, <1>3, Zenon
  DEF Next, Opening, Gateway, ReadSide, WriteSide, Owner, Threads, vars

\* parse_offer is the only place a plan comes from.
LEMMA PlanStep == ASSUME PlanIsOffered, [Next]_vars PROVE PlanIsOffered'
<1>1. CASE OfferRead
  <2>1. PICK o \in Offers : ParseOffer(o) # NoPlan /\ plan' = ParseOffer(o)
    BY <1>1 DEF OfferRead
  <2>2. /\ o.mask \in Masks /\ Prefix(o.mask) >= 0
        /\ plan' = [prefix |-> Prefix(o.mask), mtu |-> o.mtu, mask |-> o.mask]
    BY <2>1 DEF ParseOffer, Offers
  <2>3. \A i \in 1 .. MaskBits : (o.mask[i] = 1) <=> (i <= Prefix(o.mask))
    BY <2>2, PrefixCounts
  <2>4. plan'.mask = o.mask /\ plan'.prefix = Prefix(o.mask)
    BY <2>2
  <2>. QED
    BY <2>3, <2>4 DEF PlanIsOffered
<1>2. CASE plan' = NoPlan
  BY <1>2 DEF PlanIsOffered
<1>3. CASE plan' = plan
  BY <1>3 DEF PlanIsOffered
<1>4. OfferRead \/ plan' = NoPlan \/ plan' = plan
  <2>1. CASE Login \/ Gateway \/ UNCHANGED vars
    BY <2>1 DEF Login, Gateway, GatewaySends, GatewayEnds, notGateway, vars, sessionVars
  <2>2. CASE Opening
    BY <2>2 DEF Opening, OpenConnect, OfferRefused, TasksSpawned
  <2>3. CASE ReadSide
    BY <2>3, Zenon DEF ReadSide, ReadTask, ReadStarts, Decode, Read, ReadCancelled, ReadTells,
                ReadEnds, readFrame
  <2>4. CASE WriteSide
    BY <2>4 DEF WriteSide, WriteTask, WriteOne, WriteFails, WriteCancelled, WriteCloses,
                WriteEnds, writeFrame
  <2>5. CASE Owner
    BY <2>5 DEF Owner, Spawn, Activate, Stop, Joined, ownerFrame, sessionVars
  <2>6. CASE Threads
    BY <2>6 DEF Threads, Reader, Writer, ReaderStarts, ReaderUploads, RingEmpty, ReaderFails,
                ReaderExits, readerFrame, notOut, WriterTurns, WriterDrains, WriterDrained,
                WriterChecks, WriterDelivers, WriterIdles, WriterFindsClosed, WriterExits,
                writerFrame
  <2>. QED
    BY <2>1, <2>2, <2>3, <2>4, <2>5, <2>6 DEF Next
<1>. QED
  BY <1>1, <1>2, <1>3, <1>4

\* The read task goes to wait only from a decode loop that found nothing.
LEMMA UndecodedStep ==
  ASSUME SessionTypes, NothingUndecoded, [Next]_vars PROVE NothingUndecoded'
<1> USE DEF NothingUndecoded
<1>1. CASE Login \/ Gateway \/ UNCHANGED vars
  BY <1>1 DEF Login, Gateway, GatewaySends, GatewayEnds, notGateway, taskVars, vars, sessionVars
<1>2. CASE Opening
  BY <1>2 DEF Opening, OpenConnect, OfferRefused, OfferRead, TasksSpawned, taskVars
<1>3. CASE ReadSide
  <2>1. CASE Decode(Listening)
    <3>1. CASE buf = <<>>
      BY <2>1, <3>1 DEF Decode
    <3>2. CASE buf # <<>>
      <4>1. Head(buf) \in FrameKinds /\ rtask = "decode"
        BY <2>1, <3>2, HeadTailProperties DEF SessionTypes, Decode
      <4>2. rtask' \in {"decode", "leaving"}
        BY <2>1, <3>2, <4>1, Zenon DEF Decode, FrameKinds
      <4>. QED
        BY <4>2
    <3>. QED
      BY <3>1, <3>2
  <2>2. CASE ReadStarts \/ Read \/ ReadCancelled(Listening) \/ ReadTells \/ ReadEnds
    BY <2>2 DEF ReadStarts, Read, ReadCancelled, ReadTells, ReadEnds
  <2>. QED
    BY <1>3, <2>1, <2>2 DEF ReadSide, ReadTask
<1>4. CASE WriteSide
  BY <1>4 DEF WriteSide, WriteTask, WriteOne, WriteFails, WriteCancelled, WriteCloses,
              WriteEnds, writeFrame
<1>5. CASE Owner
  BY <1>5 DEF Owner, Spawn, Activate, Stop, Joined, ownerFrame, sessionVars
<1>6. CASE Threads
  BY <1>6 DEF Threads, Reader, Writer, ReaderStarts, ReaderUploads, RingEmpty, ReaderFails,
              ReaderExits, readerFrame, notOut, WriterTurns, WriterDrains, WriterDrained,
              WriterChecks, WriterDelivers, WriterIdles, WriterFindsClosed, WriterExits,
              writerFrame
<1>. QED
  BY <1>1, <1>2, <1>3, <1>4, <1>5, <1>6 DEF Next

-----------------------------------------------------------------------------
(* The loss *)

\* Everything LossInv speaks of.
lossVars == <<wire, peer, buf, rtask, wtask, dataOpen, control, outOpen, fired,
              ending, owner, reader, writer, stop, reported, ringFaults>>

LEMMA LossFrame == ASSUME LossInv, UNCHANGED lossVars PROVE LossInv'
  BY DEF lossVars, LossInv, SessionTypes, EndHasCause, ThreadsAccounted, OneHonestLoss, Over

\* The login and the offer touch nothing of it, apart from the frames that came
\* with the offer.
LEMMA OpeningKeeps == ASSUME LossInv, Login \/ Opening PROVE LossInv'
<1>1. CASE Login
  BY <1>1, LossFrame DEF Login, lossVars, sessionVars, planeVars
<1>2. CASE TasksSpawned /\ UNCHANGED planeVars
  BY <1>2 DEF TasksSpawned, planeVars, LossInv, SessionTypes, EndHasCause,
              ThreadsAccounted, OneHonestLoss, Over
<1>3. CASE (OfferRefused \/ OfferRead) /\ UNCHANGED planeVars
  BY <1>3, LossFrame DEF OfferRefused, OfferRead, lossVars, taskVars, planeVars
<1>4. CASE OpenConnect(login.pc = "ok") /\ UNCHANGED planeVars
  BY <1>4, LossFrame DEF OpenConnect, lossVars, taskVars, planeVars
<1>. QED
  BY <1>1, <1>2, <1>3, <1>4 DEF Opening

\* The gateway: a frame that ends the session makes the peer one that quits.
LEMMA GatewayKeeps == ASSUME LossInv, Gateway PROVE LossInv'
<1> USE DEF LossInv, SessionTypes, EndHasCause, ThreadsAccounted, OneHonestLoss, Over
<1>1. CASE GatewaySends /\ UNCHANGED planeVars
  <2>1. PICK k \in Kinds :
          /\ wire' = Append(wire, k)
          /\ peer' = IF k \in {"disconnect", "malformed"} THEN "quit" ELSE peer
    BY <1>1 DEF GatewaySends
  <2>2. k \in FrameKinds
    BY SessionAssumption
  <2>3. wire' \in Seq(FrameKinds) /\ (peer' = "up" => wire' \in Seq(QuietFrames))
    BY <2>1, <2>2 DEF QuietFrames
  <2>. QED
    BY <1>1, <2>1, <2>3 DEF GatewaySends, notGateway, taskVars, planeVars
<1>2. CASE GatewayEnds /\ UNCHANGED planeVars
  BY <1>2 DEF GatewayEnds, notGateway, taskVars, planeVars
<1>. QED
  BY <1>1, <1>2, Zenon DEF Gateway

\* What the tasks put into the control channel, and which of it ends nothing.
LEMMA EventTypes ==
  /\ \A r \in Reasons : EndedBy(r) \in Events
  /\ WriteFailed \in Events
  /\ \A k \in {"dpd_request", "keepalive", "unknown"} :
       Event(k) \in Events /\ Event(k) \in QuietEvents
  BY DEF EndedBy, WriteFailed, Event, Events, QuietEvents, Reasons

\* The read task: what it leaves behind has its cause in a frame, in the
\* stream, in the write task's end or in the owner's.
LEMMA DecodeKeeps ==
  ASSUME LossInv, Decode(Listening), UNCHANGED planeVars PROVE LossInv'
<1> USE DEF LossInv, SessionTypes, EndHasCause, ThreadsAccounted, OneHonestLoss, Over
<1>1. UNCHANGED <<wire, peer, wtask, dataOpen, outOpen, fired, ending, owner, reader,
                  writer, stop, reported, ringFaults>>
  BY DEF Decode, readFrame, planeVars
<1>2. CASE buf = <<>>
  BY <1>1, <1>2 DEF Decode
<1>3. CASE buf # <<>>
  <2> DEFINE f == Head(buf)
  <2>1. /\ f \in FrameKinds /\ buf' = Tail(buf) /\ buf' \in Seq(FrameKinds)
        /\ peer = "up" => f \in QuietFrames /\ buf' \in Seq(QuietFrames)
    <3>1. buf' = Tail(buf)
      BY <1>3 DEF Decode
    <3>2. f \in FrameKinds /\ Tail(buf) \in Seq(FrameKinds)
      BY <1>3, HeadTailProperties
    <3>3. peer = "up" => f \in QuietFrames /\ Tail(buf) \in Seq(QuietFrames)
      BY <1>3, HeadTailProperties
    <3>. QED
      BY <3>1, <3>2, <3>3
  <2>2. CASE f = "data" /\ Listening
    BY <1>1, <1>3, <2>1, <2>2, Zenon DEF Decode
  <2>3. CASE f = "data" /\ ~Listening
    <3>1. owner = "gone"
      BY <2>3 DEF Listening
    <3>2. control' = Append(control, EndedBy("consumer"))
      BY <1>3, <2>3, Zenon DEF Decode
    <3>3. control' \in Seq(Events)
      BY <3>2, EventTypes DEF Reasons
    <3>. QED
      BY <1>1, <2>1, <3>1, <3>3
  <2>4. CASE f \in {"dpd_request", "keepalive", "unknown"}
    <3>1. control' = Append(control, Event(f)) /\ rtask' = rtask
      BY <1>3, <2>4, Zenon DEF Decode
    <3>2. Event(f) \in Events /\ Event(f) \in QuietEvents
      BY <2>4, EventTypes
    <3>3. control' \in Seq(Events) /\ (~Over => control' \in Seq(QuietEvents))
      BY <3>1, <3>2
    <3>. QED
      BY <1>1, <2>1, <3>1, <3>3
  <2>5. CASE f \in {"disconnect", "malformed"}
    <3>1. peer # "up"
      BY <2>1, <2>5 DEF QuietFrames
    <3>2. control' = Append(control, EndedBy(f))
      BY <1>3, <2>5, Zenon DEF Decode
    <3>3. control' \in Seq(Events)
      <4>1. EndedBy(f) \in Events
        BY <2>5, EventTypes DEF Reasons
      <4>. QED
        BY <3>2, <4>1
    <3>. QED
      BY <1>1, <2>1, <3>1, <3>3
  <2>. QED
    BY <2>1, <2>2, <2>3, <2>4, <2>5, Zenon DEF FrameKinds
<1>. QED
  BY <1>2, <1>3, Zenon

\* Frames read from the wire are those that were on it.
LEMMA CutWire ==
  ASSUME NEW S, NEW s \in Seq(S), NEW n \in 1 .. Len(s)
  PROVE  SubSeq(s, 1, n) \in Seq(S) /\ SubSeq(s, n + 1, Len(s)) \in Seq(S)
<1>1. Len(s) \in Nat /\ \A i \in 1 .. Len(s) : s[i] \in S
  OBVIOUS
<1>2. \A i \in 1 .. n : s[i] \in S
  BY <1>1
<1>3. \A i \in n + 1 .. Len(s) : s[i] \in S
  BY <1>1
<1>4. n \in Int /\ n + 1 \in Int /\ Len(s) \in Int
  BY <1>1
<1>5. SubSeq(s, 1, n) \in Seq(S)
  BY <1>2, <1>4, SubSeqProperties
<1>6. SubSeq(s, n + 1, Len(s)) \in Seq(S)
  BY <1>3, <1>4, SubSeqProperties
<1>. QED
  BY <1>5, <1>6

LEMMA ReadKeeps == ASSUME LossInv, ReadSide PROVE LossInv'
<1> USE DEF LossInv, SessionTypes, EndHasCause, ThreadsAccounted, OneHonestLoss, Over
<1>1. CASE Decode(Listening) /\ UNCHANGED planeVars
  BY <1>1, DecodeKeeps, Zenon
<1>2. CASE ReadStarts /\ UNCHANGED planeVars
  BY <1>2 DEF ReadStarts, readFrame, planeVars
<1>3. CASE Read /\ UNCHANGED planeVars
  <2>0. UNCHANGED <<peer, wtask, dataOpen, outOpen, fired, ending, owner, reader, writer,
                    stop, reported, ringFaults>>
    BY <1>3 DEF Read, readFrame, planeVars
  <2>1. CASE rtask' = "decode" /\ control' = control
    <3>1. PICK n \in 1 .. Len(wire) :
            buf' = buf \o SubSeq(wire, 1, n) /\ wire' = SubSeq(wire, n + 1, Len(wire))
      BY <1>3, <2>1, Zenon DEF Read
    <3>2. buf' \in Seq(FrameKinds) /\ wire' \in Seq(FrameKinds)
      <4>1. /\ SubSeq(wire, 1, n) \in Seq(FrameKinds)
            /\ SubSeq(wire, n + 1, Len(wire)) \in Seq(FrameKinds)
        BY CutWire
      <4>. QED
        BY <3>1, <4>1
    <3>3. peer = "up" => buf' \in Seq(QuietFrames) /\ wire' \in Seq(QuietFrames)
      <4> HAVE peer = "up"
      <4>1. /\ SubSeq(wire, 1, n) \in Seq(QuietFrames)
            /\ SubSeq(wire, n + 1, Len(wire)) \in Seq(QuietFrames)
        BY CutWire
      <4>. QED
        BY <3>1, <4>1
    <3>. QED
      BY <2>0, <2>1, <3>2, <3>3
  <2>2. CASE /\ peer \in {"closed", "reset"} /\ control' = Append(control, EndedBy(peer))
             /\ UNCHANGED <<wire, buf>>
    <3>1. control' \in Seq(Events)
      BY <2>2, EventTypes DEF Reasons
    <3>. QED
      BY <2>0, <2>2, <3>1
  <2>. QED
    BY <1>3, <2>1, <2>2, Zenon DEF Read
<1>4. CASE ReadCancelled(Listening) /\ UNCHANGED planeVars
  <2>1. /\ Over
        /\ control' = control \/ control' = Append(control, EndedBy("consumer"))
    BY <1>4 DEF ReadCancelled, Listening
  <2>2. control' \in Seq(Events)
    BY <2>1, EventTypes DEF Reasons
  <2>. QED
    BY <1>4, <2>1, <2>2 DEF ReadCancelled, readFrame, planeVars
<1>5. CASE ReadTells /\ UNCHANGED planeVars
  BY <1>5 DEF ReadTells, readFrame, planeVars
<1>6. CASE ReadEnds /\ UNCHANGED planeVars
  BY <1>6 DEF ReadEnds, readFrame, planeVars
<1>. QED
  BY <1>1, <1>2, <1>3, <1>4, <1>5, <1>6, Zenon DEF ReadSide, ReadTask

\* The write task: it fails only on a stream that is not up, and is cancelled
\* only by the read task's end or the owner's.
LEMMA WriteKeeps == ASSUME LossInv, WriteSide PROVE LossInv'
<1> USE DEF LossInv, SessionTypes, EndHasCause, ThreadsAccounted, OneHonestLoss, Over
<1>1. CASE (\E f \in out : WriteOne(f)) /\ UNCHANGED planeVars
  BY <1>1 DEF WriteOne, writeFrame, planeVars
<1>2. CASE WriteFails /\ UNCHANGED planeVars
  <2>1. peer # "up" /\ control' = Append(control, WriteFailed)
    BY <1>2 DEF WriteFails
  <2>2. control' \in Seq(Events)
    BY <2>1, EventTypes DEF Reasons
  <2>. QED
    BY <1>2, <2>1, <2>2 DEF WriteFails, writeFrame, planeVars
<1>3. CASE WriteCancelled(Senders) /\ UNCHANGED planeVars
  BY <1>3 DEF WriteCancelled, Senders, writeFrame, planeVars
<1>4. CASE WriteCloses /\ UNCHANGED planeVars
  BY <1>4 DEF WriteCloses, writeFrame, planeVars
<1>5. CASE WriteEnds /\ UNCHANGED planeVars
  BY <1>5 DEF WriteEnds, writeFrame, planeVars
<1>. QED
  BY <1>1, <1>2, <1>3, <1>4, <1>5, Zenon DEF WriteSide, WriteTask

\* The owner goes only after both threads.
LEMMA OwnerKeeps == ASSUME LossInv, Owner PROVE LossInv'
  BY DEF Owner, Spawn, Activate, Stop, Joined, ownerFrame, sessionVars, LossInv,
         SessionTypes, EndHasCause, ThreadsAccounted, OneHonestLoss, Over

\* DataPlaneWorkerGuard::report: a report with a cause keeps the count, and
\* afterwards the thread is accounted for.
LEMMA ReportOnce ==
  ASSUME NEW thread, NEW reason, Len(reported) <= 1, Report(thread, reason)
  PROVE  /\ Len(reported') <= 1
         /\ thread \in stop \/ reported' # <<>>
         /\ reported # <<>> => reported' # <<>>
         /\ thread \in stop \/ reported # <<>> => reported' = reported
<1>1. CASE thread \in stop \/ reported # <<>>
  BY <1>1 DEF Report
<1>2. CASE ~(thread \in stop \/ reported # <<>>)
  <2>1. reported' = Append(<<>>, reason)
    BY <1>2, Zenon DEF Report
  <2>2. <<>> \in Seq({reason}) /\ reason \in {reason}
    OBVIOUS
  <2>3. Len(Append(<<>>, reason)) = 1 /\ Append(<<>>, reason) # <<>>
    BY <2>2, AppendProperties
  <2>. QED
    BY <1>2, <2>1, <2>3
<1>. QED
  BY <1>1, <1>2

\* The reader reports a failure of the ring and nothing else.
LEMMA ReaderKeeps == ASSUME LossInv, Reader PROVE LossInv'
<1> USE DEF LossInv, SessionTypes, EndHasCause, ThreadsAccounted, OneHonestLoss, Over
<1>1. CASE ReaderStarts \/ RingEmpty
  BY <1>1 DEF ReaderStarts, RingEmpty, ReaderLoops, readerFrame, notOut
<1>2. CASE ReaderUploads
  BY <1>2 DEF ReaderUploads, ReaderLoops, readerFrame, notOut
<1>3. CASE ReaderFails
  <2>1. Report("reader", "ring") /\ ringFaults' = ringFaults + 1
    BY <1>3 DEF ReaderFails
  <2>2. Len(reported') <= 1 /\ ("reader" \in stop \/ reported' # <<>>)
        /\ (reported # <<>> => reported' # <<>>)
    BY <2>1, ReportOnce
  <2>. QED
    BY <1>3, <2>1, <2>2 DEF ReaderFails, readerFrame, notOut
<1>4. CASE ReaderExits
  <2>1. Report("reader", "unexpected_exit") /\ ("reader" \in stop \/ reported # <<>>)
    BY <1>4 DEF ReaderExits
  <2>2. reported' = reported
    BY <2>1, ReportOnce
  <2>. QED
    BY <1>4, <2>2 DEF ReaderExits, readerFrame, notOut
<1>. QED
  BY <1>1, <1>2, <1>3, <1>4, Zenon DEF Reader

\* The writer reports a failure of the ring, or an end whose cause is the
\* stream: its owner is still there.
LEMMA WriterKeeps == ASSUME LossInv, Writer PROVE LossInv'
<1> USE DEF LossInv, SessionTypes, EndHasCause, ThreadsAccounted, OneHonestLoss, Over
<1>1. CASE WriterTurns \/ WriterDrained \/ WriterIdles
  BY <1>1 DEF WriterTurns, WriterDrained, WriterIdles, writerFrame
<1>2. CASE WriterDrains
  <2> DEFINE e == Head(control)
  <2>1. /\ e \in Events /\ control' = Tail(control) /\ control' \in Seq(Events)
        /\ ~Over => e \in QuietEvents /\ control' \in Seq(QuietEvents)
    <3>1. control # <<>> /\ control' = Tail(control)
      BY <1>2 DEF WriterDrains
    <3>2. e \in Events /\ Tail(control) \in Seq(Events)
      BY <3>1, HeadTailProperties
    <3>3. ~Over => e \in QuietEvents /\ Tail(control) \in Seq(QuietEvents)
      BY <3>1, HeadTailProperties
    <3>. QED
      BY <3>1, <3>2, <3>3
  <2>2. ~Over => ending' = ending
    BY <1>2, <2>1 DEF WriterDrains, QuietEvents
  <2>. QED
    BY <1>2, <2>1, <2>2 DEF WriterDrains, writerFrame
<1>3. CASE WriterChecks
  <2> DEFINE end == IF ending = "none" /\ ~outOpen THEN "broken_pipe" ELSE ending
  <2>1. owner # "gone" /\ ending' = end
        /\ UNCHANGED <<wire, peer, buf, rtask, wtask, dataOpen, control, outOpen, fired,
                       owner, reader, stop, ringFaults>>
    BY <1>3 DEF WriterChecks, writerFrame
  <2>2. CASE end = "none"
    BY <1>3, <2>1, <2>2 DEF WriterChecks
  <2>3. CASE end # "none"
    <3>1. peer # "up" /\ writer' = "exit" /\ Report("writer", end)
      BY <1>3, <2>1, <2>3 DEF WriterChecks
    <3>2. /\ Len(reported') <= 1 /\ ("writer" \in stop \/ reported' # <<>>)
          /\ (reported # <<>> => reported' # <<>>)
      BY <3>1, ReportOnce
    <3>. QED
      BY <2>1, <3>1, <3>2
  <2>. QED
    BY <2>2, <2>3, Zenon
<1>4. CASE WriterDelivers
  <2>1. owner # "gone"
        /\ UNCHANGED <<wire, peer, buf, rtask, wtask, dataOpen, control, outOpen, fired,
                       ending, owner, reader, stop>>
    BY <1>4 DEF WriterDelivers, writerFrame
  <2>2. CASE writer' = "loop" /\ UNCHANGED <<reported, ringFaults>>
    BY <2>1, <2>2
  <2>3. CASE ringFaults' = ringFaults + 1 /\ Report("writer", "ring") /\ writer' = "exit"
    <3>1. /\ Len(reported') <= 1 /\ ("writer" \in stop \/ reported' # <<>>)
          /\ (reported # <<>> => reported' # <<>>)
      BY <2>3, ReportOnce
    <3>. QED
      BY <2>1, <2>3, <3>1
  <2>. QED
    BY <1>4, <2>2, <2>3, Zenon DEF WriterDelivers
<1>5. CASE WriterFindsClosed
  <2>1. /\ peer # "up" /\ owner # "gone" /\ writer' = "exit" /\ control' = <<>>
        /\ UNCHANGED <<wire, peer, buf, rtask, wtask, dataOpen, outOpen, fired, owner,
                       reader, stop, ringFaults>>
    BY <1>5 DEF WriterFindsClosed, writerFrame
  <2>2. PICK end : Report("writer", end)
    BY <1>5 DEF WriterFindsClosed
  <2>3. /\ Len(reported') <= 1 /\ ("writer" \in stop \/ reported' # <<>>)
        /\ (reported # <<>> => reported' # <<>>)
    BY <2>2, ReportOnce
  <2>. QED
    BY <2>1, <2>3
<1>6. CASE WriterExits
  <2>1. Report("writer", "unexpected_exit") /\ ("writer" \in stop \/ reported # <<>>)
    BY <1>6 DEF WriterExits
  <2>2. reported' = reported
    BY <2>1, ReportOnce
  <2>. QED
    BY <1>6, <2>2 DEF WriterExits, writerFrame
<1>. QED
  BY <1>1, <1>2, <1>3, <1>4, <1>5, <1>6, Zenon DEF Writer

-----------------------------------------------------------------------------
(* The theorems *)

\* The counts of LoginInv are the password's budget.
LEMMA LoginBudget == ASSUME LoginInv PROVE PasswordBudget
<1>1. /\ submitted <= 2
      /\ login.pc \in {"reply", "connect_get", "get", "connect_post", "post"} => submitted = 0
      /\ login.pc \in {"reconnect", "reply_again"} => submitted <= 1
  BY DEF LoginInv, Unsent, Resending
<1>2. login.pc \in {"reconnect", "reply_again"} => ~answered
  BY Zenon DEF LoginInv, Resending
<1>. QED
  BY <1>1, <1>2, Zenon DEF PasswordBudget

\* Nothing has been sent, opened or started yet.
LEMMA InitInv == Init => Inv
<1> SUFFICES ASSUME Init PROVE Inv
  OBVIOUS
<1>1. LoginInv
  BY DEF Init, LoginInit, LoginInv, Unsent, Resending, RealSession, SessionIsReal, At, Ended
<1>2. PlanIsOffered /\ NothingUndecoded
  BY DEF Init, SessionInit, PlanIsOffered, NothingUndecoded
<1>3. LossInv
  BY DEF Init, SessionInit, PlaneInit, LossInv, SessionTypes, EndHasCause,
         ThreadsAccounted, OneHonestLoss, Over
<1>. QED
  BY <1>1, <1>2, <1>3 DEF Inv

\* Every step of every task, thread, owner and gateway keeps the invariant.
LEMMA InvStep == ASSUME Inv, [Next]_vars PROVE Inv'
<1>1. LoginInv' /\ PlanIsOffered' /\ NothingUndecoded'
  BY LoginInvStep, PlanStep, UndecodedStep DEF Inv, LossInv
<1>2. LossInv
  BY DEF Inv
<1>3. CASE UNCHANGED vars
  BY <1>1, <1>2, <1>3, LossFrame DEF Inv, vars, sessionVars, planeVars, lossVars
<1>4. CASE Next
  BY <1>1, <1>2, <1>4, OpeningKeeps, GatewayKeeps, ReadKeeps, WriteKeeps, OwnerKeeps,
     ReaderKeeps, WriterKeeps DEF Inv, Next, Threads
<1>. QED
  BY <1>3, <1>4

\* Every reachable state satisfies the inductive invariant.
THEOREM Invariance == Spec => []Inv
<1>1. Inv /\ [Next]_vars => Inv'
  BY InvStep
<1>. QED
  BY InitInv, <1>1, PTL DEF Spec

\* aggregate_auth_login and form_channel_login: whatever the gateway answers or
\* loses, the password reaches it at most twice, the second time only for want
\* of a complete answer, and never on both channels.
THEOREM PasswordSentSparingly == Spec => []PasswordBudget
<1>1. Inv => PasswordBudget
  BY LoginBudget DEF Inv
<1>. QED
  BY Invariance, <1>1, PTL

\* netmask_to_prefix and parse_offer: a plan's prefix covers exactly the ones of
\* the mask that was offered, for masks of every width.
THEOREM PlanMatchesOffer == Spec => []PlanIsOffered
<1>1. Inv => PlanIsOffered
  BY DEF Inv
<1>. QED
  BY Invariance, <1>1, PTL

\* perform_login: if the gateway sends no empty session token, the password goes
\* out no more often than it may, an opened session is one the gateway granted
\* and the address plan is the one it offered.
THEOREM HonestLogin == BlankTokens = FALSE => (Spec => []LoginIsHonest)
<1> SUFFICES ASSUME BlankTokens = FALSE PROVE Spec => []LoginIsHonest
  OBVIOUS
<1>1. Inv => LoginIsHonest
  BY LoginBudget, Zenon DEF Inv, LoginInv, RealSession, LoginIsHonest
<1>. QED
  BY Invariance, <1>1, PTL

\* DataPlaneWorkerGuard: the two threads report one loss at most between them,
\* and only when the stream or the ring failed, however the owner's stop, the
\* tasks' ends and the threads' own exits interleave.
THEOREM LossIsHonest == Spec => []OneHonestLoss
<1>1. Inv => OneHonestLoss
  BY DEF Inv, LossInv
<1>. QED
  BY Invariance, <1>1, PTL

\* spawn_data_tasks: the read task never waits for the network while it holds a
\* frame it has not decoded, those read with the offer included.
THEOREM AllDecoded == Spec => []NothingUndecoded
<1>1. Inv => NothingUndecoded
  BY DEF Inv
<1>. QED
  BY Invariance, <1>1, PTL
=============================================================================
