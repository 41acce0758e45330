------------------------ MODULE RuntimeEffectProofs -------------------------
(***************************************************************************)
(* What the reducer decides, and what every step of the runtime actor      *)
(* keeps of the effects that were scheduled: each one is in flight, settled*)
(* or dropped with its era, late resources are cleaned up once, and a      *)
(* runtime that stops never runs again.                                    *)
(***************************************************************************)
EXTENDS RuntimeActor, SequenceTheorems, FiniteSetTheorems, TLAPS

-----------------------------------------------------------------------------
(* Sequences without repetition.                                           *)

\* Two sequences that share nothing may be joined.
LEMMA JoinInjective ==
    ASSUME NEW E, NEW s \in Seq(E), NEW t \in Seq(E), IsInjective(s), IsInjective(t),
           ToSet(s) \cap ToSet(t) = {}
    PROVE  /\ s \o t \in Seq(E) /\ IsInjective(s \o t)
           /\ ToSet(s \o t) = ToSet(s) \cup ToSet(t)
<1> DEFINE u == s \o t
<1>1. /\ u \in Seq(E) /\ Len(u) = Len(s) + Len(t) /\ Len(s) \in Nat /\ Len(t) \in Nat
      /\ \A i \in 1..(Len(s) + Len(t)) : u[i] = IF i <= Len(s) THEN s[i] ELSE t[i - Len(s)]
  BY ConcatProperties
<1> HIDE DEF u
<1>2. DOMAIN u = 1..(Len(s) + Len(t)) /\ DOMAIN s = 1..Len(s) /\ DOMAIN t = 1..Len(t)
  BY <1>1
<1>3. /\ \A i \in DOMAIN s : i \in DOMAIN u /\ u[i] = s[i]
      /\ \A i \in DOMAIN t : i + Len(s) \in DOMAIN u /\ u[i + Len(s)] = t[i]
  BY <1>1, <1>2
<1>4. \A i \in DOMAIN u : \/ i \in DOMAIN s /\ u[i] = s[i]
                          \/ i - Len(s) \in DOMAIN t /\ u[i] = t[i - Len(s)]
  BY <1>1, <1>2
<1>5. ToSet(u) \subseteq ToSet(s) \cup ToSet(t)
  BY <1>4 DEF ToSet
<1>6. ToSet(s) \cup ToSet(t) \subseteq ToSet(u)
  BY <1>3 DEF ToSet
<1>7. ASSUME NEW i \in DOMAIN u, NEW j \in DOMAIN u, u[i] = u[j] PROVE i = j
  <2>1. CASE i \in DOMAIN s /\ j \in DOMAIN s
    BY <1>3, <1>7, <2>1 DEF IsInjective
  <2>2. CASE i - Len(s) \in DOMAIN t /\ j - Len(s) \in DOMAIN t
    <3>1. u[i] = t[i - Len(s)] /\ u[j] = t[j - Len(s)]
      BY <1>1, <1>2, <2>2
    <3>2. i - Len(s) = j - Len(s)
      BY <1>7, <2>2, <3>1, Zenon DEF IsInjective
    <3>3. QED
      BY <1>1, <1>2, <3>2
  <2>3. ASSUME NEW m \in DOMAIN s, NEW n \in DOMAIN t PROVE s[m] # t[n]
    BY SMTT(30) DEF ToSet
  <2>4. QED
    BY <1>4, <1>7, <2>1, <2>2, <2>3
<1>8. QED
  BY <1>1, <1>5, <1>6, <1>7 DEF IsInjective, u

\* A new element may be appended.
LEMMA AppendNew ==
    ASSUME NEW E, NEW s \in Seq(E), NEW e \in E, IsInjective(s), e \notin ToSet(s)
    PROVE  /\ Append(s, e) \in Seq(E) /\ IsInjective(Append(s, e))
           /\ ToSet(Append(s, e)) = ToSet(s) \cup {e}
<1> DEFINE u == Append(s, e)
<1>1. /\ u \in Seq(E) /\ Len(u) = Len(s) + 1 /\ Len(s) \in Nat
      /\ \A i \in 1..Len(s) : u[i] = s[i]
      /\ u[Len(s) + 1] = e
  BY AppendProperties
<1> HIDE DEF u
<1>2. DOMAIN u = 1..(Len(s) + 1) /\ DOMAIN s = 1..Len(s)
  BY <1>1
<1>3. \A i \in DOMAIN u : \/ i \in DOMAIN s /\ u[i] = s[i]
                          \/ i = Len(s) + 1 /\ u[i] = e
  BY <1>1, <1>2
<1>4. ToSet(u) = ToSet(s) \cup {e}
  <2>1. ToSet(u) \subseteq ToSet(s) \cup {e}
    BY <1>3 DEF ToSet
  <2>2. ToSet(s) \subseteq ToSet(u) /\ e \in ToSet(u)
    BY <1>1, <1>2 DEF ToSet
  <2>3. QED
    BY <2>1, <2>2
<1>5. IsInjective(u)
  BY <1>3 DEF ToSet, IsInjective
<1>6. u = Append(s, e)
  BY DEF u
<1>7. QED
  BY <1>1, <1>4, <1>5, <1>6

\* RemoveFirst takes the one occurrence of an element out.
LEMMA RemoveInjective ==
    ASSUME NEW E, NEW s \in Seq(E), NEW e \in ToSet(s), IsInjective(s)
    PROVE  /\ RemoveFirst(s, e) \in Seq(E) /\ IsInjective(RemoveFirst(s, e))
           /\ ToSet(RemoveFirst(s, e)) = ToSet(s) \ {e}
<1>1. PICK k \in 1..Len(s) : s[k] = e
  BY DEF ToSet
<1>2. {i \in 1..Len(s) : s[i] = e} = {k}
  BY <1>1 DEF IsInjective
<1>3. Min({k}) = k
  BY DEF Min
<1>4. RemoveFirst(s, e) = RemoveAt(s, k)
  BY <1>1, <1>2, <1>3, Zenon DEF RemoveFirst, SelectInSeq
<1> DEFINE t == RemoveAt(s, k)
<1>5. /\ t \in Seq(E) /\ Len(t) = Len(s) - 1
      /\ \A i \in 1..Len(t) : t[i] = IF i < k THEN s[i] ELSE s[i + 1]
  <2> DEFINE a == SubSeq(s, 1, k - 1)
             b == SubSeq(s, k + 1, Len(s))
  <2>1. /\ a \in Seq(E) /\ Len(a) = k - 1
        /\ \A i \in 1..(k - 1) : a[i] = s[i]
    <3>1. 1 \in Int /\ k - 1 \in Int /\ \A i \in 1..(k - 1) : s[i] \in E
      BY <1>1
    <3>2. QED
      BY <1>1, <3>1, SubSeqProperties
  <2>2. /\ b \in Seq(E) /\ Len(b) = Len(s) - k
        /\ \A i \in 1..(Len(s) - k) : b[i] = s[k + i]
    <3>1. k + 1 \in Int /\ Len(s) \in Int /\ \A i \in (k + 1)..Len(s) : s[i] \in E
      BY <1>1
    <3>2. QED
      BY <1>1, <3>1, SubSeqProperties
  <2>3. t = a \o b
    BY DEF RemoveAt
  <2> HIDE DEF a, b, t
  <2>4. /\ t \in Seq(E) /\ Len(t) = Len(a) + Len(b)
        /\ \A i \in 1..(Len(a) + Len(b)) :
               t[i] = IF i <= Len(a) THEN a[i] ELSE b[i - Len(a)]
    BY <2>1, <2>2, <2>3, ConcatProperties, ZenonT(40)
  <2>5. Len(t) = Len(s) - 1
    BY <1>1, <2>1, <2>2, <2>4
  <2>6. ASSUME NEW i \in 1..Len(t) PROVE t[i] = IF i < k THEN s[i] ELSE s[i + 1]
    <3>1. CASE i < k
      BY <1>1, <2>1, <2>2, <2>4, <2>5, <3>1
    <3>2. CASE ~(i < k)
      <4>1. i - (k - 1) \in 1..(Len(s) - k) /\ k + (i - (k - 1)) = i + 1
        BY <1>1, <2>5, <3>2
      <4>2. t[i] = b[i - (k - 1)]
        BY <1>1, <2>1, <2>2, <2>4, <2>5, <3>2
      <4>3. QED
        BY <2>2, <3>2, <4>1, <4>2
    <3>3. QED
      BY <3>1, <3>2
  <2>7. QED
    BY <2>4, <2>5, <2>6, Zenon
<1> HIDE DEF t
<1>6. DOMAIN t = 1..(Len(s) - 1) /\ DOMAIN s = 1..Len(s)
  BY <1>5
<1>7. IsInjective(t)
  <2>1. SUFFICES ASSUME NEW i \in DOMAIN t, NEW j \in DOMAIN t, t[i] = t[j]
                 PROVE  i = j
    BY DEF IsInjective
  <2> DEFINE f(n) == IF n < k THEN n ELSE n + 1
  <2>2. f(i) \in DOMAIN s /\ f(j) \in DOMAIN s /\ t[i] = s[f(i)] /\ t[j] = s[f(j)]
    BY <1>1, <1>5, <1>6
  <2>3. f(i) = f(j)
    BY <2>1, <2>2, Zenon DEF IsInjective
  <2>4. QED
    BY <1>1, <1>6, <2>3
<1>8. ToSet(t) \subseteq ToSet(s) \ {e}
  <2>1. SUFFICES ASSUME NEW i \in DOMAIN t PROVE t[i] \in ToSet(s) \ {e}
    BY DEF ToSet
  <2> DEFINE n == IF i < k THEN i ELSE i + 1
  <2>2. n \in DOMAIN s /\ n # k /\ t[i] = s[n]
    BY <1>1, <1>5, <1>6
  <2>3. s[n] # e
    BY <1>1, <1>6, <2>2 DEF IsInjective
  <2>4. QED
    BY <2>2, <2>3 DEF ToSet
<1>9. ToSet(s) \ {e} \subseteq ToSet(t)
  <2>1. SUFFICES ASSUME NEW n \in DOMAIN s, s[n] # e PROVE s[n] \in ToSet(t)
    BY DEF ToSet
  <2> DEFINE i == IF n < k THEN n ELSE n - 1
  <2>2. n # k
    BY <1>1, <2>1
  <2>3. i \in DOMAIN t /\ t[i] = s[n]
    BY <1>1, <1>5, <1>6, <2>2
  <2>4. QED
    BY <2>3 DEF ToSet
<1>10. QED
  BY <1>4, <1>5, <1>7, <1>8, <1>9 DEF t

-----------------------------------------------------------------------------
(* The inductive invariant.                                                *)

\* The state is a record of the three fields the reducer reads.
Shaped == state = State(state.tag, state.attempt, state.queued) /\ state.tag \in Tags

\* Identities are handed out in order, so a fresh one names nothing yet.
Identified ==
  /\ fresh \in Nat \ {0}
  /\ \A e \in Scheduled : e.id \in Nat /\ e.id < fresh

\* Every scheduled effect is in flight or settled, and only one of them.
Accounted ==
  /\ settled \in Seq(Scheduled) /\ inflight \in Seq(Scheduled)
  /\ IsInjective(settled) /\ IsInjective(inflight)
  /\ ToSet(settled) \cap ToSet(inflight) = {}
  /\ ToSet(settled) \cup ToSet(inflight) = Scheduled

LateHandles == [effect : Nat, kind : Kinds, armed : BOOLEAN, consumed : BOOLEAN, runs : Nat]

\* The cleanup of a late handle is armed until its entry is consumed.
CleanupsOnce ==
  /\ lateHandles \in Seq(LateHandles)
  /\ \A n \in DOMAIN lateHandles :
       IF lateHandles[n].consumed
       THEN lateHandles[n].runs = 1
       ELSE lateHandles[n].runs = 0 /\ lateHandles[n].armed

\* The batch of effects of one decision: consecutive fresh identities.
Batch(effects, id) ==
  /\ effects \in Seq(ToSet(effects))
  /\ \A n \in DOMAIN effects : effects[n].id = id + n - 1

-----------------------------------------------------------------------------
(* The reducer.                                                            *)

\* The empty batch, the batch of one and the teardown's batch of three.
LEMMA BatchOfNone == ASSUME NEW id \in Nat PROVE Batch(<< >>, id)
BY DEF Batch

LEMMA BatchOfOne ==
    ASSUME NEW id \in Nat, NEW e, e.id = id PROVE Batch(<<e>>, id)
<1>1. ToSet(<<e>>) = {e}
  BY DEF ToSet
<1>2. <<e>> \in Seq({e}) /\ DOMAIN <<e>> = {1} /\ <<e>>[1] = e
  OBVIOUS
<1>3. id = id + 1 - 1
  OBVIOUS
<1>4. QED
  BY <1>1, <1>2, <1>3 DEF Batch

LEMMA BatchOfThree ==
    ASSUME NEW id \in Nat, NEW b, b = [n \in 1..3 |-> b[n]],
           \A n \in 1..3 : b[n].id = id + n - 1
    PROVE  Batch(b, id)
<1>1. DOMAIN b = 1..3 /\ \A n \in 1..3 : b[n] \in ToSet(b)
  BY DEF ToSet
<1>2. b \in Seq(ToSet(b))
  BY <1>1
<1>3. QED
  BY <1>1, <1>2 DEF Batch

\* What the reducer can decide: it keeps the state and answers, starts a
\* connect, queues one, begins to stop, tears a session down, or cancels the
\* queued connect.
Keeps(d) ==
  /\ d.next = state /\ d.effects = << >>
  /\ \/ d.outcomes = << >>
     \/ \E i : \E disposition \in {"AlreadyCurrent", "IdempotencyConflict", "ConnectInProgress",
                                   "SessionBusy", "ReconnectAlreadyQueued", "RequiresReconcile",
                                   "AlreadyStopped"} :
          d.outcomes = <<Outcome(i, disposition)>>
Starts(d) ==
  /\ state.tag \in {"Idle", "FailedClean"}
  /\ \E i : d = StartConnect(i, fresh)
Queues(d) ==
  /\ state.tag = "Stopping" /\ state.queued = None
  /\ \E i : d = Decision(State("Stopping", state.attempt, i), << >>,
                         <<Outcome(i, "AcceptedQueued")>>)
Halts(d) ==
  /\ state.tag \in {"Connecting", "AwaitingInteraction"}
  /\ d.next = State("Stopping", state.attempt, None) /\ d.outcomes = << >>
  /\ d.effects = << >> \/ d.effects = <<Effect(fresh, state.attempt.epoch, state.attempt.id,
                                               "RevokeInteraction")>>
Tears(d) ==
  /\ state.tag = "Connected"
  /\ d.next = State("Stopping", state.attempt, None) /\ d.outcomes = << >>
  /\ d.effects = [n \in 1..3 |-> Effect(fresh + n - 1, state.attempt.epoch, state.attempt.id,
                                        TeardownRequests[n])]
Cancels(d) ==
  /\ state.tag = "Stopping" /\ state.queued # None
  /\ d.next = State("Stopping", state.attempt, None)
  /\ d.effects = <<Effect(fresh, state.queued.epoch, None, "RevokeQueuedConnect")>>
  /\ d.outcomes = <<Outcome(state.queued, "CancelledBeforeStart")>>

\* The reducer decides nothing else.
LEMMA ReduceCases ==
    ASSUME Shaped, NEW c
    PROVE  LET d == Reduce(state, c, fresh)
           IN  Keeps(d) \/ Starts(d) \/ Queues(d) \/ Halts(d) \/ Tears(d) \/ Cancels(d)
<1> DEFINE d == Reduce(state, c, fresh)
<1> SUFFICES Keeps(d) \/ Starts(d) \/ Queues(d) \/ Halts(d) \/ Tears(d) \/ Cancels(d)
  OBVIOUS
<1>0. /\ state = State(state.tag, state.attempt, state.queued)
      /\ \A q : [state EXCEPT !.queued = q] = State(state.tag, state.attempt, q)
  BY DEF Shaped, State
<1>1. CASE c.kind = "Connect"
  <2> DEFINE i == c.intent
  <2>1. d = ReduceConnect(state, i, fresh)
    BY <1>1 DEF Reduce
  <2> HIDE DEF d, i
  <2>2. CASE state.tag \in {"Idle", "FailedClean"}
    BY <2>1, <2>2 DEF ReduceConnect, Starts
  <2>3. ASSUME NEW disposition \in {"AlreadyCurrent", "IdempotencyConflict", "ConnectInProgress",
                                   "SessionBusy", "ReconnectAlreadyQueued", "RequiresReconcile"},
               d = LeafDecision(state, i, disposition)
        PROVE  Keeps(d)
    BY <2>3 DEF LeafDecision, Decision, Keeps
  <2>4. CASE state.tag \in {"Connecting", "AwaitingInteraction"}
    <3>1. d = LeafDecision(state, i, ConnectDisposition(state.attempt.intent, i,
                                                        "ConnectInProgress"))
      BY <2>1, <2>4 DEF ReduceConnect
    <3>2. QED
      BY <2>3, <3>1 DEF ConnectDisposition
  <2>5. CASE state.tag = "Connected"
    <3>1. d = LeafDecision(state, i, ConnectDisposition(state.attempt.intent, i, "SessionBusy"))
      BY <2>1, <2>5 DEF ReduceConnect
    <3>2. QED
      BY <2>3, <3>1 DEF ConnectDisposition
  <2>6. CASE state.tag = "Stopping" /\ state.queued = None
    <3>1. d = Decision([state EXCEPT !.queued = i], << >>, <<Outcome(i, "AcceptedQueued")>>)
      BY <2>1, <2>6 DEF ReduceConnect
    <3>2. QED
      BY <1>0, <2>6, <3>1 DEF Queues
  <2>7. CASE state.tag = "Stopping" /\ state.queued # None
    <3>1. d = LeafDecision(state, i,
                IF state.queued.key = i.key /\ state.queued.digest = i.digest
                THEN "AlreadyCurrent" ELSE "ReconnectAlreadyQueued")
      BY <2>1, <2>7 DEF ReduceConnect
    <3>2. QED
      BY <2>3, <3>1
  <2>8. CASE state.tag \in {"Reconciling", "FailedDirty"}
    <3>1. d = LeafDecision(state, i, "RequiresReconcile")
      BY <2>1, <2>8 DEF ReduceConnect
    <3>2. QED
      BY <2>3, <3>1
  <2>9. QED
    BY <2>2, <2>4, <2>5, <2>6, <2>7, <2>8, SMTT(30) DEF Shaped, Tags
<1>2. CASE c.kind = "Stop"
  <2> DEFINE i == c.intent
  <2>1. d = ReduceStop(state, i, fresh)
    BY <1>2 DEF Reduce
  <2> HIDE DEF d, i
  <2>2. CASE state.tag = "Idle"
    BY <2>1, <2>2 DEF ReduceStop, LeafDecision, Decision, Keeps
  <2>3. CASE state.tag \in {"Connecting", "AwaitingInteraction"}
    BY <2>1, <2>3 DEF ReduceStop, Decision, Halts
  <2>4. CASE state.tag = "Connected"
    BY <2>1, <2>4 DEF ReduceStop, Decision, Tears
  <2>5. CASE state.tag = "Stopping" /\ state.queued # None
    BY <1>0, <2>1, <2>5, SMTT(30) DEF ReduceStop, Decision, Cancels
  <2>6. CASE \/ state.tag \in {"FailedClean", "Reconciling", "FailedDirty"}
             \/ state.tag = "Stopping" /\ state.queued = None
    BY <2>1, <2>6 DEF ReduceStop, Decision, Keeps
  <2>7. QED
    BY <2>2, <2>3, <2>4, <2>5, <2>6 DEF Shaped, Tags
<1>3. CASE c.kind \notin {"Connect", "Stop"}
  BY <1>3 DEF Reduce, Decision, Keeps
<1>4. QED
  BY <1>1, <1>2, <1>3

\* The reducer's effects are a batch of fresh identities, the state keeps its
\* shape, and a runtime that is down stays down and connects nothing.
LEMMA ReduceFacts ==
    ASSUME Shaped, Identified, NEW c
    PROVE  LET d == Reduce(state, c, fresh)
           IN  /\ Batch(d.effects, fresh)
               /\ d.next = State(d.next.tag, d.next.attempt, d.next.queued)
               /\ d.next.tag \in Tags
               /\ state.tag \in Down =>
                     /\ d.next.tag \in Down
                     /\ \A e \in ToSet(d.effects) : e.request # "ConnectProtocol"
<1> DEFINE d == Reduce(state, c, fresh)
           Good == /\ Batch(d.effects, fresh)
                   /\ d.next = State(d.next.tag, d.next.attempt, d.next.queued)
                   /\ d.next.tag \in Tags
                   /\ state.tag \in Down =>
                         /\ d.next.tag \in Down
                         /\ \A e \in ToSet(d.effects) : e.request # "ConnectProtocol"
<1> SUFFICES Good
  OBVIOUS
<1>0. fresh \in Nat
  BY DEF Identified
<1>1. Keeps(d) \/ Starts(d) \/ Queues(d) \/ Halts(d) \/ Tears(d) \/ Cancels(d)
  BY ReduceCases
<1> HIDE DEF d
<1>2. ToSet(<< >>) = {} /\ \A e : ToSet(<<e>>) = {e}
  BY DEF ToSet
<1>3. \A tag, attempt, queued :
        /\ State(tag, attempt, queued).tag = tag
        /\ State(tag, attempt, queued).attempt = attempt
        /\ State(tag, attempt, queued).queued = queued
  BY DEF State
<1>4. \A id, epoch, attempt, request : Effect(id, epoch, attempt, request).request = request
  BY DEF Effect
<1>5. ASSUME NEW e, e.id = fresh PROVE Batch(<<e>>, fresh)
  BY <1>0, <1>5, BatchOfOne
<1>6. \A id, epoch, attempt, request : Effect(id, epoch, attempt, request).id = id
  BY DEF Effect
<1>7. ASSUME NEW attempt, NEW queued, d.next = State("Stopping", attempt, queued)
      PROVE  /\ d.next = State(d.next.tag, d.next.attempt, d.next.queued)
             /\ d.next.tag \in Tags /\ d.next.tag \in Down
  BY <1>3, <1>7 DEF Tags, Down
<1>8. CASE Keeps(d)
  <2>1. Batch(d.effects, fresh)
    BY <1>0, <1>8, BatchOfNone DEF Keeps
  <2>2. QED
    BY <1>2, <1>8, <2>1 DEF Keeps, Shaped
<1>9. CASE Starts(d)
  <2>1. PICK i : d = StartConnect(i, fresh)
    BY <1>9 DEF Starts
  <2>2. /\ d.next = State("Connecting", Attempt(i.epoch, fresh, i), None)
        /\ d.effects = <<Effect(fresh, i.epoch, fresh, "ConnectProtocol")>>
    BY <2>1 DEF StartConnect, Decision
  <2>3. Batch(d.effects, fresh)
    BY <1>5, <1>6, <2>2
  <2>4. /\ d.next = State(d.next.tag, d.next.attempt, d.next.queued) /\ d.next.tag \in Tags
    BY <1>3, <2>2 DEF Tags
  <2>5. state.tag \notin Down
    BY <1>9 DEF Starts, Down
  <2>6. QED
    BY <2>3, <2>4, <2>5
<1>10. CASE Queues(d)
  <2>1. PICK i : d = Decision(State("Stopping", state.attempt, i), << >>,
                              <<Outcome(i, "AcceptedQueued")>>)
    BY <1>10 DEF Queues
  <2>2. d.next = State("Stopping", state.attempt, i) /\ d.effects = << >>
    BY <2>1 DEF Decision
  <2>3. Batch(d.effects, fresh)
    BY <1>0, <2>2, BatchOfNone
  <2>4. QED
    BY <1>2, <1>7, <2>2, <2>3
<1>11. CASE Halts(d)
  <2>1. Batch(d.effects, fresh)
    <3>1. CASE d.effects = << >>
      BY <1>0, <3>1, BatchOfNone
    <3>2. CASE d.effects # << >>
      <4>1. d.effects = <<Effect(fresh, state.attempt.epoch, state.attempt.id,
                                 "RevokeInteraction")>>
        BY <1>11, <3>2 DEF Halts
      <4>2. QED
        BY <1>5, <1>6, <4>1
    <3>3. QED
      BY <3>1, <3>2
  <2>2. state.tag \notin Down
    BY <1>11 DEF Halts, Down
  <2>3. QED
    BY <1>7, <1>11, <2>1, <2>2 DEF Halts
<1>12. CASE Tears(d)
  <2>1. /\ d.effects = [n \in 1..3 |-> d.effects[n]]
        /\ \A n \in 1..3 : d.effects[n].id = fresh + n - 1
    BY <1>6, <1>12 DEF Tears
  <2>2. Batch(d.effects, fresh)
    BY <1>0, <2>1, BatchOfThree
  <2>3. state.tag \notin Down
    BY <1>12 DEF Tears, Down
  <2>4. QED
    BY <1>7, <1>12, <2>2, <2>3 DEF Tears
<1>13. CASE Cancels(d)
  <2>1. Batch(d.effects, fresh)
    BY <1>5, <1>6, <1>13 DEF Cancels
  <2>2. \A e \in ToSet(d.effects) : e.request # "ConnectProtocol"
    BY <1>2, <1>4, <1>13 DEF Cancels
  <2>3. QED
    BY <1>7, <1>13, <2>1, <2>2, SMTT(30) DEF Cancels
<1>14. QED
  BY <1>1, <1>8, <1>9, <1>10, <1>11, <1>12, <1>13, SMTT(30)

-----------------------------------------------------------------------------
(* Effects are settled once.                                               *)

\* Committing a batch of fresh effects keeps the account.
LEMMA CommitAccounts ==
    ASSUME Identified, NEW effects, Batch(effects, fresh), NEW era,
           NEW flying \in Seq(Scheduled), IsInjective(flying),
           settled' \in Seq(Scheduled), IsInjective(settled'),
           ToSet(settled') \cap ToSet(flying) = {},
           ToSet(settled') \cup ToSet(flying) = Scheduled,
           CommitEffects(effects, flying, era)
    PROVE  Identified' /\ Accounted' /\ Scheduled' = Scheduled \cup ToSet(effects)
<1> DEFINE B == ToSet(effects)
           All == Scheduled \cup B
<1>1. /\ Scheduled' = All /\ inflight' = flying \o effects /\ fresh' = fresh + Len(effects)
  BY DEF CommitEffects, Scheduled
<1>2. /\ effects \in Seq(B) /\ fresh \in Nat \ {0} /\ Len(effects) \in Nat
      /\ DOMAIN effects = 1..Len(effects)
      /\ \A n \in 1..Len(effects) : effects[n].id = fresh + n - 1
  BY DEF Batch, Identified
<1>3. \A e \in B : e.id \in Nat /\ fresh <= e.id /\ e.id < fresh + Len(effects)
  <2>1. SUFFICES ASSUME NEW n \in 1..Len(effects)
                 PROVE  /\ effects[n].id \in Nat /\ fresh <= effects[n].id
                        /\ effects[n].id < fresh + Len(effects)
    BY <1>2, SMTT(30) DEF ToSet
  <2>2. effects[n].id = fresh + n - 1
    BY <1>2
  <2>3. QED
    BY <1>2, <2>2
<1> HIDE DEF B
<1>4. B \cap Scheduled = {}
  <2>1. ASSUME NEW e \in B, e \in Scheduled PROVE FALSE
    BY <1>2, <1>3, <2>1 DEF Identified
  <2>2. QED
    BY <2>1
<1>5. IsInjective(effects)
  <2>1. ASSUME NEW m \in 1..Len(effects), NEW n \in 1..Len(effects), effects[m] = effects[n]
        PROVE  m = n
    <3>1. fresh + m - 1 = fresh + n - 1
      BY <1>2, <2>1
    <3>2. QED
      BY <1>2, <3>1
  <2>2. QED
    BY <1>2, <2>1 DEF IsInjective
<1>6. Identified'
  <2>1. fresh' \in Nat \ {0} /\ fresh <= fresh'
    BY <1>1, <1>2
  <2>2. ASSUME NEW e \in Scheduled' PROVE e.id \in Nat /\ e.id < fresh'
    <3>1. CASE e \in Scheduled
      BY <1>2, <2>1, <3>1 DEF Identified
    <3>2. CASE e \in B
      BY <1>1, <1>3, <3>2
    <3>3. QED
      BY <1>1, <2>2, <3>1, <3>2, SMTT(30)
  <2>3. QED
    BY <2>1, <2>2 DEF Identified
<1>7. flying \in Seq(All) /\ effects \in Seq(All) /\ settled' \in Seq(All)
  BY <1>2
<1>8. ToSet(flying) \cap B = {} /\ ToSet(settled') \cap B = {}
  BY <1>4
<1>9. /\ inflight' \in Seq(All) /\ IsInjective(inflight')
      /\ ToSet(inflight') = ToSet(flying) \cup B
  <2>1. ToSet(effects) = B
    BY DEF B
  <2>2. QED
    BY <1>1, <1>5, <1>7, <1>8, <2>1, JoinInjective, SMTT(30)
<1>10. Accounted'
  BY <1>1, <1>7, <1>8, <1>9, SMTT(30) DEF Accounted
<1>11. QED
  BY <1>1, <1>6, <1>10 DEF B

\* Steps that leave the account alone.
LEMMA AccountFrame ==
    ASSUME Identified, Accounted, UNCHANGED <<settled, inflight, fresh>>,
           DOMAIN reports' = DOMAIN reports
    PROVE  Identified' /\ Accounted'
BY DEF Identified, Accounted, Scheduled

\* Settling moves an effect from the ones in flight to the settled ones.
LEMMA SettleAccounts ==
    ASSUME Shaped, Identified, Accounted, NEW e \in ToSet(inflight), SettleCurrent(e)
    PROVE  /\ Identified' /\ Accounted' /\ Scheduled' = Scheduled
           /\ state' = state /\ outcomes' = outcomes \o << >>
<1> DEFINE flying == RemoveFirst(inflight, e)
<1>1. /\ flying \in Seq(Scheduled) /\ IsInjective(flying)
      /\ ToSet(flying) = ToSet(inflight) \ {e}
  BY RemoveInjective DEF Accounted
<1>2. e \in Scheduled /\ e \notin ToSet(settled)
  BY DEF Accounted
<1>3. /\ settled' \in Seq(Scheduled) /\ IsInjective(settled')
      /\ ToSet(settled') = ToSet(settled) \cup {e}
  BY <1>2, AppendNew DEF Accounted, SettleCurrent
<1> HIDE DEF flying
<1>4. /\ ToSet(settled') \cap ToSet(flying) = {}
      /\ ToSet(settled') \cup ToSet(flying) = Scheduled
  BY <1>1, <1>2, <1>3 DEF Accounted
<1>5. /\ CommitEffects(<< >>, flying, currentEpoch)
      /\ state' = state /\ outcomes' = outcomes \o << >>
  BY Zenon DEF SettleCurrent, CommitDecision, Reduce, Decision, flying
<1>6. Batch(<< >>, fresh) /\ ToSet(<< >>) = {}
  BY BatchOfNone DEF Identified, ToSet
<1>7. QED
  BY <1>1, <1>3, <1>4, <1>5, <1>6, CommitAccounts, Zenon

\* A lost host's teardown is a batch of one.
LEMMA LostAccounts ==
    ASSUME Identified, Accounted, NEW epoch, BeginHostLostTeardown(epoch), settled' = settled
    PROVE  /\ Identified' /\ Accounted'
           /\ Scheduled' = Scheduled \cup {Effect(fresh, epoch, fresh, "StopProtocol")}
<1> DEFINE e == Effect(fresh, epoch, fresh, "StopProtocol")
<1>1. e.id = fresh /\ fresh \in Nat
  BY DEF Effect, Identified
<1>2. CommitEffects(<<e>>, inflight, epoch)
  BY DEF BeginHostLostTeardown
<1> HIDE DEF e
<1>3. Batch(<<e>>, fresh) /\ ToSet(<<e>>) = {e}
  BY <1>1, BatchOfOne DEF ToSet
<1>4. Identified' /\ Accounted' /\ Scheduled' = Scheduled \cup ToSet(<<e>>)
  BY <1>2, <1>3, CommitAccounts DEF Accounted
<1>5. QED
  BY <1>3, <1>4 DEF e

\* A decision's effects are a batch.
LEMMA DecisionAccounts ==
    ASSUME Shaped, Identified, Accounted, NEW c, settled' = settled,
           CommitDecision(Reduce(state, c, fresh), inflight)
    PROVE  /\ Identified' /\ Accounted'
           /\ Scheduled' = Scheduled \cup ToSet(Reduce(state, c, fresh).effects)
<1> DEFINE d == Reduce(state, c, fresh)
<1>1. Batch(d.effects, fresh)
  BY ReduceFacts
<1>2. CommitEffects(d.effects, inflight, currentEpoch)
  BY DEF CommitDecision
<1> HIDE DEF d
<1>3. Identified' /\ Accounted' /\ Scheduled' = Scheduled \cup ToSet(d.effects)
  BY <1>1, <1>2, CommitAccounts DEF Accounted
<1>4. QED
  BY <1>3 DEF d

\* Every step keeps the account and the shape of the state.
LEMMA AccountStep ==
    ASSUME Shaped, Identified, Accounted, [Next]_vars
    PROVE  Shaped' /\ Identified' /\ Accounted'
<1>1. ASSUME UNCHANGED <<settled, inflight, fresh, state>>, DOMAIN reports' = DOMAIN reports
      PROVE  Shaped' /\ Identified' /\ Accounted'
  BY <1>1, AccountFrame DEF Shaped
<1>2. ASSUME NEW command \in Commands, Submit(command)
      PROVE  Shaped' /\ Identified' /\ Accounted'
  BY <1>1, <1>2 DEF Submit
<1>3. ASSUME NEW e, NEW disposition, Report(e, disposition)
      PROVE  Shaped' /\ Identified' /\ Accounted'
  BY <1>1, <1>3 DEF Report
<1>4. ASSUME NEW e, NEW kind, RegisterLateHandle(e, kind)
      PROVE  Shaped' /\ Identified' /\ Accounted'
  BY <1>1, <1>4 DEF RegisterLateHandle
<1>5. ASSUME PumpBegin \/ CommandsDrained \/ PumpEnd
      PROVE  Shaped' /\ Identified' /\ Accounted'
  BY <1>1, <1>5 DEF PumpBegin, CommandsDrained, PumpEnd
<1>6. ASSUME HandleCommand PROVE Shaped' /\ Identified' /\ Accounted'
  <2> DEFINE c == Head(commands)
             d == Reduce(state, c, fresh)
  <2>1. CASE c.kind = "HostLost"
    <3>1. BeginHostLostTeardown(c.epoch) /\ settled' = settled
      BY <1>6, <2>1 DEF HandleCommand
    <3>2. Shaped'
      BY <3>1 DEF BeginHostLostTeardown, Shaped, State, Tags
    <3>3. QED
      BY <3>1, <3>2, LostAccounts
  <2>2. CASE c.kind # "HostLost"
    <3>1. CommitDecision(d, inflight) /\ settled' = settled
      BY <1>6, <2>2 DEF HandleCommand
    <3>2. state' = d.next
      BY <3>1 DEF CommitDecision
    <3>3. d.next = State(d.next.tag, d.next.attempt, d.next.queued) /\ d.next.tag \in Tags
      BY ReduceFacts
    <3>4. Shaped'
      BY <3>2, <3>3 DEF Shaped
    <3>5. QED
      BY <3>1, <3>4, DecisionAccounts
  <2>3. QED
    BY <2>1, <2>2
<1>7. ASSUME HandleCompletion PROVE Shaped' /\ Identified' /\ Accounted'
  <2> DEFINE c == Head(completions)
  <2>1. CASE currentEpoch # None /\ c.fence.epoch # currentEpoch
    BY <1>1, <1>7, <2>1, SMTT(30) DEF HandleCompletion
  <2>2. CASE ~(currentEpoch # None /\ c.fence.epoch # currentEpoch) /\ c.fence \in ToSet(inflight)
    <3>1. SettleCurrent(c.fence)
      BY <1>7, <2>2 DEF HandleCompletion
    <3>2. QED
      BY <2>2, <3>1, SettleAccounts DEF Shaped
  <2>3. CASE ~(currentEpoch # None /\ c.fence.epoch # currentEpoch) /\ c.fence \notin ToSet(inflight)
    <3>1. ApplyStale(c.fence, c.disposition)
      BY <1>7, <2>3 DEF HandleCompletion
    <3>2. UNCHANGED <<settled, inflight, fresh>> /\ reports' = reports
      BY <3>1 DEF ApplyStale
    <3>3. Shaped'
      BY <3>1 DEF ApplyStale, EnterReconciling, Shaped, State, Tags
    <3>4. QED
      BY <3>2, <3>3, AccountFrame, SMTT(30)
  <2>4. QED
    BY <2>1, <2>2, <2>3
<1>8. ASSUME UNCHANGED vars PROVE Shaped' /\ Identified' /\ Accounted'
  BY <1>1, <1>8 DEF vars
<1>9. QED
  BY <1>2, <1>3, <1>4, <1>5, <1>6, <1>7, <1>8, SMTT(30) DEF Next, Pump

-----------------------------------------------------------------------------
(* Late handles are cleaned up once.                                       *)

\* Consuming an entry, or finding it consumed, keeps the rule.
LEMMA ConsumeCleans ==
    ASSUME CleanupsOnce, NEW e, NEW kind, ConsumeLateHandle(e, kind)
    PROVE  CleanupsOnce'
<1>1. PICK n : lateHandles' =
         IF n = 0 \/ lateHandles[n].consumed THEN lateHandles
         ELSE [lateHandles EXCEPT ![n] = Consumed(@)]
  BY Zenon DEF ConsumeLateHandle
<1>2. CASE lateHandles' = lateHandles
  BY <1>2 DEF CleanupsOnce
<1>3. CASE ~(n = 0 \/ lateHandles[n].consumed) /\ n \in DOMAIN lateHandles
  <2> DEFINE old == lateHandles[n]
             new == Consumed(old)
  <2>1. old \in LateHandles /\ old.runs = 0 /\ old.armed
    BY <1>3 DEF CleanupsOnce
  <2>2. new \in LateHandles /\ new.consumed /\ new.runs = 1
    <3> HIDE DEF old
    <3>1. new = [old EXCEPT !.consumed = TRUE, !.armed = FALSE, !.runs = 1]
      BY <2>1 DEF LateHandles, Consumed
    <3>2. \A r \in Nat : [old EXCEPT !.consumed = TRUE, !.armed = FALSE, !.runs = r] \in LateHandles
      BY <2>1, Zenon DEF LateHandles
    <3>3. new \in LateHandles
      BY <3>1, <3>2, Zenon
    <3>4. new.consumed /\ new.runs = 1
      BY <2>1, <3>1 DEF LateHandles
    <3>5. QED
      BY <3>3, <3>4
  <2>3. lateHandles' = [lateHandles EXCEPT ![n] = new]
    BY <1>1, <1>3
  <2> HIDE DEF new, old
  <2>4. /\ lateHandles' \in Seq(LateHandles)
        /\ \A m \in DOMAIN lateHandles' : lateHandles'[m] = IF m = n THEN new ELSE lateHandles[m]
        /\ DOMAIN lateHandles' = DOMAIN lateHandles
    BY <1>3, <2>2, <2>3 DEF CleanupsOnce
  <2>5. QED
    BY <2>2, <2>4 DEF CleanupsOnce
<1>4. CASE ~(n = 0 \/ lateHandles[n].consumed) /\ n \notin DOMAIN lateHandles
  <2>1. lateHandles' = lateHandles
    BY <1>1, <1>4, SMTT(30) DEF CleanupsOnce
  <2>2. QED
    BY <1>2, <2>1
<1>5. QED
  BY <1>1, <1>2, <1>3, <1>4, SMTT(30)

\* Every step keeps the cleanups to one each.
LEMMA CleanupStep ==
    ASSUME Identified, CleanupsOnce, [Next]_vars PROVE CleanupsOnce'
<1>1. ASSUME lateHandles' = lateHandles PROVE CleanupsOnce'
  BY <1>1 DEF CleanupsOnce
<1>2. ASSUME NEW e \in Scheduled, NEW kind \in Kinds, RegisterLateHandle(e, kind)
      PROVE  CleanupsOnce'
  <2> DEFINE h == [effect |-> e.id, kind |-> kind, armed |-> TRUE, consumed |-> FALSE, runs |-> 0]
  <2>1. h \in LateHandles /\ h.armed /\ ~h.consumed /\ h.runs = 0
    BY DEF LateHandles, Identified
  <2>2. lateHandles' = Append(lateHandles, h) /\ lateHandles \in Seq(LateHandles)
    BY <1>2 DEF RegisterLateHandle, CleanupsOnce
  <2> HIDE DEF h
  <2>3. /\ lateHandles' \in Seq(LateHandles)
        /\ \A m \in DOMAIN lateHandles' :
              \/ lateHandles'[m] = h
              \/ m \in DOMAIN lateHandles /\ lateHandles'[m] = lateHandles[m]
    BY <2>1, <2>2, SMTT(30)
  <2>4. QED
    BY <2>1, <2>3 DEF CleanupsOnce
<1>3. ASSUME HandleCompletion PROVE CleanupsOnce'
  BY <1>1, <1>3, ConsumeCleans, SMTT(30) DEF HandleCompletion, SettleCurrent, ApplyStale
<1>4. QED
  BY <1>1, <1>2, <1>3, Zenon
     DEF Next, Pump, Submit, Report, PumpBegin, HandleCommand, CommandsDrained, PumpEnd, vars

-----------------------------------------------------------------------------
(* Down is final.                                                          *)

\* A step from a state that is down stays down and schedules no connect.
LEMMA DownStep ==
    ASSUME Shaped, Identified, Accounted, state.tag \in Down, [Next]_vars
    PROVE  /\ state'.tag \in Down
           /\ \A e \in DOMAIN reports' \ Scheduled : e.request # "ConnectProtocol"
<1> DEFINE Stays == /\ state'.tag \in Down
                    /\ \A e \in DOMAIN reports' \ Scheduled : e.request # "ConnectProtocol"
<1>1. ASSUME state' = state, DOMAIN reports' = DOMAIN reports PROVE Stays
  BY <1>1 DEF Scheduled
<1>2. ASSUME HandleCommand PROVE Stays
  <2> DEFINE c == Head(commands)
             d == Reduce(state, c, fresh)
  <2>1. CASE c.kind = "HostLost"
    <3>1. BeginHostLostTeardown(c.epoch) /\ settled' = settled
      BY <1>2, <2>1, SMTT(30) DEF HandleCommand
    <3>2. state'.tag \in Down
      BY <3>1, SMTT(30) DEF BeginHostLostTeardown, State, Down
    <3>3. Scheduled' = Scheduled \cup {Effect(fresh, c.epoch, fresh, "StopProtocol")}
      BY <3>1, LostAccounts
    <3>4. QED
      BY <3>2, <3>3, SMTT(30) DEF Scheduled, Effect
  <2>2. CASE c.kind # "HostLost"
    <3>1. CommitDecision(d, inflight) /\ settled' = settled
      BY <1>2, <2>2 DEF HandleCommand
    <3>2. state' = d.next
      BY <3>1 DEF CommitDecision
    <3>3. Scheduled' = Scheduled \cup ToSet(d.effects)
      BY <3>1, DecisionAccounts, SMTT(30)
    <3>4. d.next.tag \in Down /\ \A e \in ToSet(d.effects) : e.request # "ConnectProtocol"
      BY ReduceFacts
    <3> HIDE DEF d
    <3>5. QED
      BY <3>2, <3>3, <3>4, SMTT(30) DEF Scheduled
  <2>3. QED
    BY <2>1, <2>2
<1>3. ASSUME HandleCompletion PROVE Stays
  <2> DEFINE c == Head(completions)
  <2>1. CASE c.fence \in ToSet(inflight)
    <3>1. SettleCurrent(c.fence) \/ UNCHANGED <<state, reports>>
      BY <1>3, <2>1 DEF HandleCompletion
    <3>2. QED
      BY <1>1, <2>1, <3>1, SettleAccounts, SMTT(30) DEF Scheduled
  <2>2. CASE c.fence \notin ToSet(inflight)
    <3>1. ApplyStale(c.fence, c.disposition) \/ UNCHANGED <<state, reports>>
      BY <1>3, <2>2 DEF HandleCompletion
    <3>2. QED
      BY <1>1, <3>1, SMTT(30) DEF ApplyStale, EnterReconciling, State, Down, Scheduled
  <2>3. QED
    BY <2>1, <2>2, SMTT(30)
<1>4. QED
  BY <1>1, <1>2, <1>3, ZenonT(40)
     DEF Next, Pump, Submit, Report, RegisterLateHandle, PumpBegin, CommandsDrained, PumpEnd, vars
=============================================================================
