------------------------- MODULE RuntimeActorProofs -------------------------
(***************************************************************************)
(* The runtime actor is correct for every set of intents and epochs, every *)
(* size of the mailboxes and every number of commands and reports: each    *)
(* effect is settled once, a runtime that stops never runs again, and the  *)
(* teardown of a session is scheduled once.                                *)
(***************************************************************************)
EXTENDS RuntimeEffectProofs

-----------------------------------------------------------------------------
(* The teardown of a session, and the cancellation of a queued connect.    *)

\* The attempt of a connected session is the restored one, and nothing of it
\* is torn down yet; what was torn down was torn down as one batch.
Torn ==
  /\ state.tag = "Connected" => state.attempt.id = 0 /\ Teardown(0) = {}
  /\ Cardinality(Teardown(0)) \in {0, 3}
  /\ {e.request : e \in Teardown(0)} \in {{}, ToSet(TeardownRequests)}

Revokes == {e \in Scheduled : e.request = "RevokeQueuedConnect"}
Waiting == IF state.queued = None THEN 0 ELSE 1

\* A connect accepted into the queue waits or was cancelled, and each
\* cancellation scheduled one revocation.
Cancelled ==
  /\ outcomes \in Seq(ToSet(outcomes))
  /\ IsFiniteSet(Revokes) /\ Decided("CancelledBeforeStart") = Cardinality(Revokes)
  /\ Decided("CancelledBeforeStart") + Waiting <= Decided("AcceptedQueued")

\* One more outcome counts for its disposition and no other.
LEMMA OutcomeCounts ==
    ASSUME outcomes \in Seq(ToSet(outcomes)), NEW o, outcomes' = outcomes \o <<o>>, NEW d
    PROVE  /\ outcomes' \in Seq(ToSet(outcomes'))
           /\ Decided(d) \in Nat
           /\ Decided(d)' = IF o.disposition = d THEN Decided(d) + 1 ELSE Decided(d)
<1> DEFINE O == ToSet(outcomes) \cup {o}
           k == Len(outcomes) + 1
           D == {n \in DOMAIN outcomes : outcomes[n].disposition = d}
           E == {n \in DOMAIN outcomes' : outcomes'[n].disposition = d}
<1>1. /\ k - 1 \in Nat /\ DOMAIN outcomes = 1..(k - 1)
      /\ \A n \in DOMAIN outcomes : outcomes[n] \in ToSet(outcomes)
  BY DEF ToSet
<1>2. outcomes \in Seq(O) /\ <<o>> \in Seq(O)
  BY <1>1
<1>3. /\ outcomes' \in Seq(O) /\ Len(outcomes') = k /\ DOMAIN outcomes' = 1..k
      /\ outcomes'[k] = o
      /\ \A n \in DOMAIN outcomes : outcomes'[n] = outcomes[n]
  <2> HIDE DEF O
  <2>1. QED
    BY <1>1, <1>2, SMTT(30)
<1>4. outcomes' \in Seq(ToSet(outcomes'))
  <2>1. \A n \in 1..Len(outcomes') : outcomes'[n] \in ToSet(outcomes')
    BY <1>3, SMTT(30) DEF ToSet
  <2>2. QED
    BY <1>1, <1>3, <2>1, SMTT(30)
<1>5. IsFiniteSet(D) /\ Cardinality(D) \in Nat /\ k \notin D
  <2>1. IsFiniteSet(1..(k - 1))
    BY <1>1, FS_Interval
  <2>2. D \subseteq 1..(k - 1)
    BY <1>1
  <2>3. IsFiniteSet(D)
    BY <2>1, <2>2, FS_Subset, SMTT(30)
  <2>4. QED
    BY <1>1, <2>2, <2>3, FS_CardinalityType
<1>6. CASE o.disposition = d
  <2>1. E = D \cup {k}
    BY <1>1, <1>3, <1>6
  <2> HIDE DEF D, E, k
  <2>2. Cardinality(E) = Cardinality(D) + 1
    BY <1>5, <2>1, FS_AddElement, Zenon
  <2>3. QED
    BY <1>4, <1>5, <1>6, <2>2, Zenon DEF Decided, D, E
<1>7. CASE o.disposition # d
  <2>1. E = D
    BY <1>1, <1>3, <1>7
  <2>3. QED
    BY <1>4, <1>5, <1>7, <2>1, ZenonT(40) DEF Decided
<1>8. QED
  BY <1>6, <1>7

\* What a step does to the state, the schedule and the outcomes: nothing, a
\* lost host's teardown, the move to Reconciling, or a decision.
Quiet == state' = state /\ Scheduled' = Scheduled /\ outcomes' = outcomes
Lost ==
  \E epoch : /\ state' = State("Stopping", Attempt(epoch, fresh, None), None)
             /\ Scheduled' = Scheduled \cup {Effect(fresh, epoch, fresh, "StopProtocol")}
             /\ outcomes' = outcomes
Stale ==
  state' = State("Reconciling", None, None) /\ Scheduled' = Scheduled /\ outcomes' = outcomes
Commits(d) ==
  /\ state' = d.next /\ outcomes' = outcomes \o d.outcomes
  /\ Scheduled' = Scheduled \cup ToSet(d.effects)

\* Every step is one of these, and the decision is one of the reducer's.
LEMMA StepKinds ==
    ASSUME Shaped, Identified, Accounted, outcomes \in Seq(ToSet(outcomes)), [Next]_vars
    PROVE  \/ Quiet \/ Lost \/ Stale
           \/ \E d : /\ Commits(d)
                     /\ Keeps(d) \/ Starts(d) \/ Queues(d) \/ Halts(d) \/ Tears(d) \/ Cancels(d)
<1> DEFINE Goal == \/ Quiet \/ Lost \/ Stale
                   \/ \E d : /\ Commits(d)
                             /\ \/ Keeps(d) \/ Starts(d) \/ Queues(d)
                                \/ Halts(d) \/ Tears(d) \/ Cancels(d)
<1>1. ASSUME UNCHANGED <<state, outcomes>>, DOMAIN reports' = DOMAIN reports PROVE Goal
  BY <1>1 DEF Quiet, Scheduled
<1>2. ASSUME HandleCommand PROVE Goal
  <2> DEFINE c == Head(commands)
             d == Reduce(state, c, fresh)
  <2>1. CASE c.kind = "HostLost"
    <3>1. BeginHostLostTeardown(c.epoch) /\ settled' = settled
      BY <1>2, <2>1, SMTT(30) DEF HandleCommand
    <3>2. Lost
      BY <3>1, LostAccounts, SMTT(30) DEF Lost, BeginHostLostTeardown
    <3>3. QED
      BY <3>2, SMTT(30)
  <2>2. CASE c.kind # "HostLost"
    <3>1. CommitDecision(d, inflight) /\ settled' = settled
      BY <1>2, <2>2, SMTT(30) DEF HandleCommand
    <3>2. Scheduled' = Scheduled \cup ToSet(d.effects)
      BY <3>1, DecisionAccounts, SMTT(30)
    <3>3. Keeps(d) \/ Starts(d) \/ Queues(d) \/ Halts(d) \/ Tears(d) \/ Cancels(d)
      BY ReduceCases, SMTT(30)
    <3> HIDE DEF d
    <3>4. QED
      BY <3>1, <3>2, <3>3, SMTT(30) DEF Commits, CommitDecision
  <2>3. QED
    BY <2>1, <2>2
<1>3. ASSUME HandleCompletion PROVE Goal
  <2> DEFINE c == Head(completions)
  <2>1. CASE c.fence \in ToSet(inflight)
    <3>1. SettleCurrent(c.fence) \/ UNCHANGED <<state, reports, outcomes>>
      BY <1>3, <2>1 DEF HandleCompletion
    <3>2. outcomes \o << >> = outcomes
      <4>1. ASSUME NEW S, NEW s \in Seq(S) PROVE s \o << >> = s
        BY <4>1
      <4>2. QED
        BY <4>1
    <3>3. QED
      BY <1>1, <2>1, <3>1, <3>2, SettleAccounts, SMTT(30) DEF Scheduled, Quiet
  <2>2. CASE c.fence \notin ToSet(inflight)
    <3>1. ApplyStale(c.fence, c.disposition) \/ UNCHANGED <<state, reports, outcomes>>
      BY <1>3, <2>2 DEF HandleCompletion
    <3>2. QED
      BY <1>1, <3>1, SMTT(30) DEF ApplyStale, EnterReconciling, Scheduled, Stale
  <2>3. QED
    BY <2>1, <2>2, SMTT(30)
<1>4. QED
  BY <1>1, <1>2, <1>3, Zenon
     DEF Next, Pump, Submit, Report, RegisterLateHandle, PumpBegin, CommandsDrained, PumpEnd, vars

\* The teardown's batch is three effects, one of each request.
LEMMA TeardownOfThree ==
    ASSUME NEW id \in Nat, NEW epoch, NEW b,
           b = [n \in 1..3 |-> Effect(id + n - 1, epoch, 0, TeardownRequests[n])]
    PROVE  /\ Cardinality(ToSet(b)) = 3
           /\ {e.request : e \in ToSet(b)} = ToSet(TeardownRequests)
           /\ \A e \in ToSet(b) : e.attempt = 0
<1> DEFINE E(n) == Effect(id + n - 1, epoch, 0, TeardownRequests[n])
<1>1. /\ \A n \in 1..3 : b[n] = E(n) /\ E(n).id = id + n - 1 /\ E(n).attempt = 0
                         /\ E(n).request = TeardownRequests[n]
      /\ DOMAIN b = 1..3
  BY DEF Effect
<1> HIDE DEF E
<1>2. ToSet(b) = {E(1), E(2), E(3)}
  <2>1. ToSet(b) = {b[n] : n \in 1..3}
    BY <1>1 DEF ToSet
  <2>2. 1..3 = {1, 2, 3}
    OBVIOUS
  <2>3. QED
    BY <1>1, <2>1, <2>2, SMTT(30)
<1>3. E(1) # E(2) /\ E(1) # E(3) /\ E(2) # E(3)
  BY <1>1
<1>4. Cardinality({E(1), E(2), E(3)}) = 3
  <2>1. IsFiniteSet({E(1)}) /\ Cardinality({E(1)}) = 1
    BY FS_Singleton, Zenon
  <2>2. IsFiniteSet({E(1)} \cup {E(2)}) /\ Cardinality({E(1)} \cup {E(2)}) = 2
    <3>1. E(2) \notin {E(1)}
      BY <1>3, Zenon
    <3>2. /\ IsFiniteSet({E(1)} \cup {E(2)})
          /\ Cardinality({E(1)} \cup {E(2)}) = Cardinality({E(1)}) + 1
      BY <2>1, <3>1, FS_AddElement, Zenon
    <3>3. QED
      BY <2>1, <3>2
  <2>3. Cardinality(({E(1)} \cup {E(2)}) \cup {E(3)}) = 3
    <3>1. E(3) \notin {E(1)} \cup {E(2)}
      BY <1>3, Zenon
    <3>2. Cardinality(({E(1)} \cup {E(2)}) \cup {E(3)})
            = Cardinality({E(1)} \cup {E(2)}) + 1
      BY <2>2, <3>1, FS_AddElement, Zenon
    <3>3. QED
      BY <2>2, <3>2
  <2>4. ({E(1)} \cup {E(2)}) \cup {E(3)} = {E(1), E(2), E(3)}
    OBVIOUS
  <2>5. QED
    BY <2>3, <2>4
<1>5. /\ ToSet(TeardownRequests) =
           {TeardownRequests[1], TeardownRequests[2], TeardownRequests[3]}
  <2>1. DOMAIN TeardownRequests = {1, 2, 3}
    BY DEF TeardownRequests
  <2>2. QED
    BY <2>1 DEF ToSet
<1>6. 1 \in 1..3 /\ 2 \in 1..3 /\ 3 \in 1..3
  OBVIOUS
<1>7. /\ E(1).request = TeardownRequests[1] /\ E(1).attempt = 0
      /\ E(2).request = TeardownRequests[2] /\ E(2).attempt = 0
      /\ E(3).request = TeardownRequests[3] /\ E(3).attempt = 0
  BY <1>1, <1>6, Zenon
<1>8. /\ {e.request : e \in ToSet(b)} = ToSet(TeardownRequests)
      /\ \A e \in ToSet(b) : e.attempt = 0
  BY <1>2, <1>5, <1>7, SMTT(20)
<1>9. QED
  BY <1>2, <1>4, <1>8, ZenonT(40)

\* Effects of other attempts and requests are no part of the teardown.
LEMMA TornFrame ==
    ASSUME Torn, Scheduled \subseteq Scheduled',
           \A e \in Scheduled' \ Scheduled :
              e.attempt # 0 \/ e.request \notin ToSet(TeardownRequests),
           \/ state'.tag # "Connected"
           \/ state'.tag = state.tag /\ state'.attempt = state.attempt
    PROVE  Torn'
<1>1. Teardown(0)' = Teardown(0)
  BY DEF Teardown
<1>2. QED
  BY <1>1 DEF Torn

\* Every step keeps the teardown to one batch.
LEMMA TornStep ==
    ASSUME Shaped, Identified, Accounted, Cancelled, Torn, [Next]_vars PROVE Torn'
<1>0. /\ \A tag, attempt, queued : /\ State(tag, attempt, queued).tag = tag
                                   /\ State(tag, attempt, queued).attempt = attempt
      /\ \A id, epoch, attempt, request :
            /\ Effect(id, epoch, attempt, request).request = request
            /\ Effect(id, epoch, attempt, request).attempt = attempt
      /\ ToSet(<< >>) = {} /\ \A e : ToSet(<<e>>) = {e}
      /\ fresh # 0 /\ fresh \in Nat
  <2>1. \A tag, attempt, queued : /\ State(tag, attempt, queued).tag = tag
                                  /\ State(tag, attempt, queued).attempt = attempt
    BY DEF State
  <2>2. \A id, epoch, attempt, request :
            /\ Effect(id, epoch, attempt, request).request = request
            /\ Effect(id, epoch, attempt, request).attempt = attempt
    BY DEF Effect
  <2>3. ToSet(<< >>) = {} /\ \A e : ToSet(<<e>>) = {e}
    BY DEF ToSet
  <2>4. fresh # 0 /\ fresh \in Nat
    BY DEF Identified
  <2>5. QED
    BY <2>1, <2>2, <2>3, <2>4, SMTT(30)
<1>r. ToSet(TeardownRequests) = {"StopProtocol", "StopPacket", "BeginPlatformStop"}
  <2>1. DOMAIN TeardownRequests = {1, 2, 3}
    BY DEF TeardownRequests
  <2>2. QED
    BY <2>1 DEF ToSet, TeardownRequests
<1>s. \A r \in {"ConnectProtocol", "RevokeInteraction", "RevokeQueuedConnect"} :
         r \notin ToSet(TeardownRequests)
  BY <1>r
<1>1. \/ Quiet \/ Lost \/ Stale
      \/ \E d : /\ Commits(d)
                /\ Keeps(d) \/ Starts(d) \/ Queues(d) \/ Halts(d) \/ Tears(d) \/ Cancels(d)
  BY StepKinds DEF Cancelled
<1>2. CASE Quiet
  <2>1. Scheduled' = Scheduled /\ state' = state
    BY <1>2 DEF Quiet
  <2>2. QED
    BY <2>1, TornFrame
<1>3. CASE Lost
  <2>1. PICK epoch :
          /\ state' = State("Stopping", Attempt(epoch, fresh, None), None)
          /\ Scheduled' = Scheduled \cup {Effect(fresh, epoch, fresh, "StopProtocol")}
    BY <1>3 DEF Lost
  <2>2. state'.tag # "Connected"
    BY <1>0, <2>1
  <2>3. \A e \in {Effect(fresh, epoch, fresh, "StopProtocol")} : e.attempt # 0
    BY <1>0
  <2>4. QED
    BY <2>1, <2>2, <2>3, TornFrame, SMTT(30)
<1>4. CASE Stale
  <2>1. Scheduled' = Scheduled /\ state'.tag # "Connected"
    BY <1>0, <1>4 DEF Stale
  <2>2. QED
    BY <2>1, TornFrame
<1>5. ASSUME NEW d, Commits(d),
             \A e \in ToSet(d.effects) : e.request \notin ToSet(TeardownRequests),
             d.next.tag # "Connected" \/ d.next = state
      PROVE  Torn'
  <2>1. Scheduled' = Scheduled \cup ToSet(d.effects) /\ state' = d.next
    BY <1>5 DEF Commits
  <2>2. QED
    BY <1>5, <2>1, TornFrame, SMTT(30)
<1>6. ASSUME NEW d, Commits(d), Keeps(d) PROVE Torn'
  <2>1. ToSet(d.effects) = {} /\ d.next = state
    BY <1>0, <1>6 DEF Keeps
  <2>2. QED
    BY <1>5, <1>6, <2>1, SMTT(30)
<1>7. ASSUME NEW d, Commits(d), Starts(d) PROVE Torn'
  <2>1. PICK i : d = StartConnect(i, fresh)
    BY <1>7 DEF Starts
  <2>2. /\ d.next = State("Connecting", Attempt(i.epoch, fresh, i), None)
        /\ d.effects = <<Effect(fresh, i.epoch, fresh, "ConnectProtocol")>>
    BY <2>1 DEF StartConnect, Decision
  <2>3. d.next.tag # "Connected" /\ \A e \in ToSet(d.effects) : e.request = "ConnectProtocol"
    BY <1>0, <2>2
  <2>4. QED
    BY <1>s, <1>5, <1>7, <2>3, SMTT(30)
<1>8. ASSUME NEW d, Commits(d), Queues(d) PROVE Torn'
  <2>1. PICK i : d = Decision(State("Stopping", state.attempt, i), << >>,
                              <<Outcome(i, "AcceptedQueued")>>)
    BY <1>8 DEF Queues
  <2>2. d.next = State("Stopping", state.attempt, i) /\ d.effects = << >>
    BY <2>1 DEF Decision
  <2>3. QED
    BY <1>0, <1>5, <1>8, <2>2, SMTT(30)
<1>9. ASSUME NEW d, Commits(d), Halts(d) PROVE Torn'
  <2> DEFINE h == Effect(fresh, state.attempt.epoch, state.attempt.id, "RevokeInteraction")
  <2>1. \A e \in ToSet(d.effects) : e.request \notin ToSet(TeardownRequests)
    <3>1. h.request = "RevokeInteraction"
      BY <1>0
    <3>2. d.effects = << >> \/ d.effects = <<h>>
      BY <1>9 DEF Halts
    <3> HIDE DEF h
    <3>3. ToSet(d.effects) \subseteq {h}
      BY <1>0, <3>2, ZenonT(40)
    <3>4. QED
      BY <1>s, <3>1, <3>3, SMTT(30)
  <2>2. QED
    BY <1>0, <1>5, <1>9, <2>1, SMTT(30) DEF Halts
<1>10. ASSUME NEW d, Commits(d), Cancels(d) PROVE Torn'
  <2> DEFINE e == Effect(fresh, state.queued.epoch, None, "RevokeQueuedConnect")
  <2>1. ToSet(d.effects) = {e} /\ e.request \notin ToSet(TeardownRequests)
    BY <1>0, <1>s, <1>10 DEF Cancels
  <2>2. d.next.tag # "Connected"
    BY <1>0, <1>10 DEF Cancels
  <2>3. QED
    BY <1>5, <1>10, <2>1, <2>2
<1>11. ASSUME NEW d, Commits(d), Tears(d) PROVE Torn'
  <2> DEFINE b == d.effects
  <2>1. state.attempt.id = 0 /\ Teardown(0) = {}
    BY <1>11, SMTT(30) DEF Tears, Torn
  <2> DEFINE epoch == state.attempt.epoch
  <2>2. b = [n \in 1..3 |-> Effect(fresh + n - 1, epoch, 0, TeardownRequests[n])]
    BY <1>11, <2>1 DEF Tears
  <2> HIDE DEF b, epoch
  <2>3. /\ Cardinality(ToSet(b)) = 3
        /\ {e.request : e \in ToSet(b)} = ToSet(TeardownRequests)
        /\ \A e \in ToSet(b) : e.attempt = 0
    <3>1. fresh \in Nat
      BY <1>0, SMTT(30)
    <3>2. QED
      BY <2>2, <3>1, TeardownOfThree, ZenonT(40)
  <2>4. Scheduled' = Scheduled \cup ToSet(b) /\ state'.tag # "Connected"
    BY <1>0, <1>11 DEF Commits, Tears, b
  <2>5. Teardown(0)' = ToSet(b)
    BY <2>1, <2>3, <2>4, SMTT(30) DEF Teardown
  <2>6. QED
    BY <2>3, <2>4, <2>5, SMTT(30) DEF Torn
<1>12. QED
  BY <1>1, <1>2, <1>3, <1>4, <1>6, <1>7, <1>8, <1>9, <1>10, <1>11, SMTT(30)

\* A decision without an outcome, and without a revocation, cancels nothing.
LEMMA CancelledFrame ==
    ASSUME Cancelled, outcomes' = outcomes, Scheduled \subseteq Scheduled',
           \A e \in Scheduled' \ Scheduled : e.request # "RevokeQueuedConnect",
           state'.queued = None \/ state'.queued = state.queued
    PROVE  Cancelled'
<1>1. Revokes' = Revokes
  BY DEF Revokes
<1>2. \A d : Decided(d)' = Decided(d)
  BY DEF Decided
<1>3. Waiting' <= Waiting /\ Waiting' \in Nat /\ Waiting \in Nat
  BY DEF Waiting
<1>4. Decided("AcceptedQueued") \in Nat
  <2> DEFINE D == {n \in DOMAIN outcomes : outcomes[n].disposition = "AcceptedQueued"}
  <2>1. Len(outcomes) \in Nat /\ D \subseteq 1..Len(outcomes)
    BY DEF Cancelled
  <2>2. IsFiniteSet(D)
    BY <2>1, FS_Interval, FS_Subset, SMTT(30)
  <2>3. QED
    BY <2>2, FS_CardinalityType, SMTT(30) DEF Decided
<1> DEFINE c == Decided("CancelledBeforeStart")
           a == Decided("AcceptedQueued")
<1>5. c' = c /\ a' = a /\ c + Waiting <= a /\ c \in Nat /\ a \in Nat
  BY <1>2, <1>4, FS_CardinalityType, SMTT(30) DEF Cancelled
<1> HIDE DEF c, a
<1>6. c + Waiting' <= a
  <2>1. \A x, y, v, w \in Nat : x + v <= y /\ w <= v => x + w <= y
    OBVIOUS
  <2>2. QED
    BY <1>3, <1>5, <2>1, ZenonT(40)
<1>7. QED
  BY <1>1, <1>5, <1>6, SMTT(30) DEF Cancelled, c, a

\* Nor does an outcome that is neither an acceptance into the queue nor a
\* cancellation.
LEMMA CancelledAnswer ==
    ASSUME Cancelled, NEW o, outcomes' = outcomes \o <<o>>, Scheduled \subseteq Scheduled',
           o.disposition \notin {"AcceptedQueued", "CancelledBeforeStart"},
           \A e \in Scheduled' \ Scheduled : e.request # "RevokeQueuedConnect",
           state'.queued = None \/ state'.queued = state.queued
    PROVE  Cancelled'
<1>1. Revokes' = Revokes
  BY DEF Revokes
<1> DEFINE c == Decided("CancelledBeforeStart")
           a == Decided("AcceptedQueued")
<1>2. /\ outcomes' \in Seq(ToSet(outcomes'))
      /\ c' = c /\ a' = a /\ c \in Nat /\ a \in Nat
  BY OutcomeCounts DEF Cancelled
<1>3. c + Waiting <= a /\ c = Cardinality(Revokes)
  BY DEF Cancelled
<1> HIDE DEF c, a
<1>4. Waiting' <= Waiting /\ Waiting' \in Nat /\ Waiting \in Nat
  BY DEF Waiting
<1>5. c' + Waiting' <= a' /\ c' = Cardinality(Revokes')
  BY <1>1, <1>2, <1>3, <1>4, SMTT(30)
<1>6. QED
  BY <1>1, <1>2, <1>5 DEF Cancelled, c, a

\* An acceptance into the queue makes room for one cancellation.
LEMMA CancelledQueue ==
    ASSUME Cancelled, NEW o, outcomes' = outcomes \o <<o>>, Scheduled' = Scheduled,
           o.disposition = "AcceptedQueued", state.queued = None
    PROVE  Cancelled'
<1>1. Revokes' = Revokes
  BY DEF Revokes
<1> DEFINE c == Decided("CancelledBeforeStart")
           a == Decided("AcceptedQueued")
<1>2. /\ outcomes' \in Seq(ToSet(outcomes'))
      /\ c' = c /\ a' = a + 1 /\ c \in Nat /\ a \in Nat
  BY OutcomeCounts DEF Cancelled
<1>3. c + Waiting <= a /\ c = Cardinality(Revokes)
  BY DEF Cancelled
<1> HIDE DEF c, a
<1>4. Waiting = 0 /\ Waiting' \in {0, 1}
  BY DEF Waiting
<1>5. c' + Waiting' <= a' /\ c' = Cardinality(Revokes')
  BY <1>1, <1>2, <1>3, <1>4, SMTT(30)
<1>6. QED
  BY <1>1, <1>2, <1>5, SMTT(30) DEF Cancelled, c, a

\* A cancellation uses it and schedules the revocation.
LEMMA CancelledOnce ==
    ASSUME Cancelled, Identified, NEW o, outcomes' = outcomes \o <<o>>,
           NEW e, e.id = fresh, e.request = "RevokeQueuedConnect",
           Scheduled' = Scheduled \cup {e},
           o.disposition = "CancelledBeforeStart", state.queued # None, state'.queued = None
    PROVE  Cancelled'
<1>1. Revokes' = Revokes \cup {e} /\ e \notin Revokes /\ IsFiniteSet(Revokes)
  BY DEF Revokes, Identified, Cancelled
<1>2. IsFiniteSet(Revokes') /\ Cardinality(Revokes') = Cardinality(Revokes) + 1
  BY <1>1, FS_AddElement, SMTT(30)
<1> DEFINE c == Decided("CancelledBeforeStart")
           a == Decided("AcceptedQueued")
<1>3. /\ outcomes' \in Seq(ToSet(outcomes'))
      /\ c' = c + 1 /\ a' = a /\ c \in Nat /\ a \in Nat
  BY OutcomeCounts, SMTT(30) DEF Cancelled
<1>4. c + Waiting <= a /\ c = Cardinality(Revokes)
  BY DEF Cancelled
<1> HIDE DEF c, a
<1>5. Waiting = 1 /\ Waiting' = 0
  BY DEF Waiting
<1>6. c' + Waiting' <= a' /\ c' = Cardinality(Revokes')
  BY <1>2, <1>3, <1>4, <1>5, SMTT(30)
<1>7. QED
  BY <1>2, <1>3, <1>6, SMTT(30) DEF Cancelled, c, a

\* Every step keeps the cancellations to the queued connects.
LEMMA CancelledStep ==
    ASSUME Shaped, Identified, Accounted, Cancelled, [Next]_vars PROVE Cancelled'
<1>0. /\ \A tag, attempt, queued : State(tag, attempt, queued).queued = queued
      /\ \A id, epoch, attempt, request :
            /\ Effect(id, epoch, attempt, request).request = request
            /\ Effect(id, epoch, attempt, request).id = id
      /\ \A i, disposition : Outcome(i, disposition).disposition = disposition
      /\ ToSet(<< >>) = {} /\ \A e : ToSet(<<e>>) = {e}
  BY DEF State, Effect, Outcome, ToSet
<1>e. outcomes \o << >> = outcomes
  <2>1. ASSUME NEW S, NEW s \in Seq(S) PROVE s \o << >> = s
    BY <2>1
  <2>2. QED
    BY <2>1 DEF Cancelled
<1>1. \/ Quiet \/ Lost \/ Stale
      \/ \E d : /\ Commits(d)
                /\ Keeps(d) \/ Starts(d) \/ Queues(d) \/ Halts(d) \/ Tears(d) \/ Cancels(d)
  BY StepKinds DEF Cancelled
<1>2. CASE Quiet
  BY <1>2, CancelledFrame, SMTT(30) DEF Quiet
<1>3. CASE Lost
  <2>1. PICK epoch :
          /\ state' = State("Stopping", Attempt(epoch, fresh, None), None)
          /\ Scheduled' = Scheduled \cup {Effect(fresh, epoch, fresh, "StopProtocol")}
          /\ outcomes' = outcomes
    BY <1>3 DEF Lost
  <2>2. state'.queued = None
    BY <1>0, <2>1, SMTT(30)
  <2>3. \A e \in Scheduled' \ Scheduled : e.request # "RevokeQueuedConnect"
    BY <1>0, <2>1, SMTT(30)
  <2>4. QED
    BY <2>1, <2>2, <2>3, CancelledFrame, SMTT(30)
<1>4. CASE Stale
  BY <1>0, <1>4, CancelledFrame, SMTT(30) DEF Stale
<1>5. ASSUME NEW d, Commits(d), Keeps(d) PROVE Cancelled'
  <2>1. Scheduled' = Scheduled /\ state' = state /\ outcomes' = outcomes \o d.outcomes
    BY <1>0, <1>5, SMTT(30) DEF Keeps, Commits
  <2>2. CASE d.outcomes = << >>
    BY <1>e, <2>1, <2>2, CancelledFrame, SMTT(30)
  <2>3. CASE d.outcomes # << >>
    <3>1. PICK o : /\ d.outcomes = <<o>>
                   /\ o.disposition \notin {"AcceptedQueued", "CancelledBeforeStart"}
      BY <1>0, <1>5, <2>3, SMTT(30) DEF Keeps
    <3>2. QED
      BY <2>1, <3>1, CancelledAnswer, SMTT(30)
  <2>4. QED
    BY <2>2, <2>3, SMTT(30)
<1>6. ASSUME NEW d, Commits(d), Starts(d) PROVE Cancelled'
  <2>1. PICK i : d = StartConnect(i, fresh)
    BY <1>6 DEF Starts
  <2> DEFINE o == Outcome(i, "Accepted")
             e == Effect(fresh, i.epoch, fresh, "ConnectProtocol")
  <2>2. /\ d.next = State("Connecting", Attempt(i.epoch, fresh, i), None)
        /\ d.effects = <<e>> /\ d.outcomes = <<o>>
    BY <2>1, SMTT(30) DEF StartConnect, Decision
  <2>3. o.disposition = "Accepted" /\ e.request = "ConnectProtocol" /\ d.next.queued = None
    BY <1>0, <2>2, SMTT(30)
  <2> HIDE DEF o, e
  <2>4. /\ outcomes' = outcomes \o <<o>> /\ Scheduled' = Scheduled \cup {e}
        /\ state'.queued = None
    BY <1>0, <1>6, <2>2, <2>3, SMTT(30) DEF Commits
  <2>5. QED
    BY <2>3, <2>4, CancelledAnswer, SMTT(30)
<1>7. ASSUME NEW d, Commits(d), Queues(d) PROVE Cancelled'
  <2>1. PICK i : d = Decision(State("Stopping", state.attempt, i), << >>,
                              <<Outcome(i, "AcceptedQueued")>>)
    BY <1>7 DEF Queues
  <2> DEFINE o == Outcome(i, "AcceptedQueued")
  <2>2. d.effects = << >> /\ d.outcomes = <<o>> /\ o.disposition = "AcceptedQueued"
    BY <1>0, <2>1, SMTT(30) DEF Decision
  <2> HIDE DEF o
  <2>3. outcomes' = outcomes \o <<o>> /\ Scheduled' = Scheduled /\ state.queued = None
    BY <1>0, <1>7, <2>2, ZenonT(40) DEF Commits, Queues
  <2>4. QED
    BY <2>2, <2>3, CancelledQueue, SMTT(30)
<1>8. ASSUME NEW d, Commits(d), Halts(d) PROVE Cancelled'
  <2> DEFINE h == Effect(fresh, state.attempt.epoch, state.attempt.id, "RevokeInteraction")
  <2>1. h.request = "RevokeInteraction" /\ state'.queued = None /\ outcomes' = outcomes
    BY <1>0, <1>e, <1>8 DEF Halts, Commits
  <2>2. d.effects = << >> \/ d.effects = <<h>>
    BY <1>8 DEF Halts
  <2> HIDE DEF h
  <2>3. Scheduled' = Scheduled \cup ToSet(d.effects) /\ ToSet(d.effects) \subseteq {h}
    BY <1>0, <1>8, <2>2, ZenonT(40) DEF Commits
  <2>4. QED
    BY <2>1, <2>3, CancelledFrame
<1>9. ASSUME NEW d, Commits(d), Tears(d) PROVE Cancelled'
  <2>1. state'.queued = None /\ outcomes' = outcomes
    BY <1>0, <1>e, <1>9 DEF Tears, Commits
  <2>2. \A n \in 1..3 : TeardownRequests[n] # "RevokeQueuedConnect"
    BY DEF TeardownRequests
  <2>3. \A e \in ToSet(d.effects) : e.request # "RevokeQueuedConnect"
    BY <1>0, <1>9, <2>2, SMTT(30) DEF Tears, ToSet
  <2>4. QED
    BY <1>9, <2>1, <2>3, CancelledFrame DEF Commits
<1>10. ASSUME NEW d, Commits(d), Cancels(d) PROVE Cancelled'
  <2> DEFINE o == Outcome(state.queued, "CancelledBeforeStart")
             e == Effect(fresh, state.queued.epoch, None, "RevokeQueuedConnect")
  <2>1. /\ o.disposition = "CancelledBeforeStart"
        /\ e.request = "RevokeQueuedConnect" /\ e.id = fresh
    BY <1>0, SMTT(30)
  <2>2. d.effects = <<e>> /\ d.outcomes = <<o>> /\ d.next.queued = None /\ state.queued # None
    BY <1>0, <1>10, SMTT(30) DEF Cancels
  <2> HIDE DEF o, e
  <2>3. /\ outcomes' = outcomes \o <<o>> /\ Scheduled' = Scheduled \cup {e}
        /\ state'.queued = None
    BY <1>0, <1>10, <2>2, SMTT(30) DEF Commits
  <2>4. QED
    BY <2>1, <2>2, <2>3, CancelledOnce, SMTT(30)
<1>11. QED
  BY <1>1, <1>2, <1>3, <1>4, <1>5, <1>6, <1>7, <1>8, <1>9, <1>10, SMTT(30)

-----------------------------------------------------------------------------
(* The invariant and the theorems.                                         *)

ActorInv == Shaped /\ Identified /\ Accounted /\ CleanupsOnce /\ Torn /\ Cancelled

\* The actor starts accounted for: nothing scheduled, nothing decided.
LEMMA ActorInit == ASSUME Init PROVE ActorInv
<1>1. /\ Scheduled = {} /\ settled = << >> /\ inflight = << >> /\ lateHandles = << >>
      /\ outcomes = << >> /\ fresh = 1 /\ state \in Restored
  BY DEF Init, Scheduled
<1>2. ToSet(<< >>) = {} /\ DOMAIN << >> = {} /\ \A S : << >> \in Seq(S)
  BY DEF ToSet
<1>3. IsInjective(<< >>)
  BY DEF IsInjective
<1>4. /\ Shaped /\ state.queued = None
      /\ state.tag = "Connected" => state.attempt.id = 0
  BY <1>1 DEF Restored, State, Attempt, Shaped, Tags
<1>5. Identified
  BY <1>1 DEF Identified
<1>6. Accounted
  BY <1>1, <1>2, <1>3, SMTT(30) DEF Accounted
<1>7. CleanupsOnce
  BY <1>1, <1>2, SMTT(30) DEF CleanupsOnce
<1>8. Cardinality({}) = 0 /\ IsFiniteSet({})
  BY FS_EmptySet, SMTT(30)
<1>9. Torn
  <2>1. Teardown(0) = {}
    BY <1>1 DEF Teardown
  <2>2. {e.request : e \in Teardown(0)} = {}
    BY <2>1
  <2>3. QED
    BY <1>4, <1>8, <2>1, <2>2, SMTT(30) DEF Torn
<1>10. Cancelled
  <2>1. Revokes = {}
    BY <1>1 DEF Revokes
  <2>2. \A d : Decided(d) = 0
    <3>1. SUFFICES ASSUME NEW d PROVE Decided(d) = 0
      OBVIOUS
    <3>2. {n \in DOMAIN outcomes : outcomes[n].disposition = d} = {}
      BY <1>1, <1>2
    <3>3. QED
      BY <1>8, <3>2 DEF Decided
  <2>3. Waiting = 0
    BY <1>4 DEF Waiting
  <2>4. QED
    BY <1>1, <1>2, <1>8, <2>1, <2>2, <2>3, SMTT(30) DEF Cancelled
<1>11. QED
  BY <1>4, <1>5, <1>6, <1>7, <1>9, <1>10, SMTT(30) DEF ActorInv

\* The invariant holds of every behaviour of the actor.
LEMMA ActorInvariant == Spec => []ActorInv
<1>1. Init => ActorInv
  BY ActorInit
<1>2. ActorInv /\ [Next]_vars => ActorInv'
  <2>1. SUFFICES ASSUME ActorInv, [Next]_vars PROVE ActorInv'
    OBVIOUS
  <2>2. Shaped /\ Identified /\ Accounted /\ CleanupsOnce /\ Torn /\ Cancelled
    BY <2>1 DEF ActorInv
  <2>3. Shaped' /\ Identified' /\ Accounted'
    BY <2>1, <2>2, AccountStep, SMTT(30)
  <2>4. CleanupsOnce'
    BY <2>1, <2>2, CleanupStep, SMTT(30)
  <2>5. Torn'
    BY <2>1, <2>2, TornStep, SMTT(30)
  <2>6. Cancelled'
    BY <2>1, <2>2, CancelledStep
  <2>7. QED
    BY <2>3, <2>4, <2>5, <2>6, SMTT(30) DEF ActorInv
<1>3. QED
  BY <1>1, <1>2, PTL DEF Spec

\* The settled effects and the ones in flight are the scheduled ones, each once.
LEMMA AllAccounted ==
    ASSUME Accounted
    PROVE  IsInjective(settled \o inflight) /\ ToSet(settled \o inflight) = Scheduled
<1> DEFINE E == Scheduled
           s == settled
           t == inflight
<1>1. /\ s \in Seq(E) /\ t \in Seq(E) /\ IsInjective(s) /\ IsInjective(t)
      /\ ToSet(s) \cap ToSet(t) = {}
  BY DEF Accounted
<1>2. ToSet(s) \cup ToSet(t) = E
  BY DEF Accounted
<1> HIDE DEF E, s, t
<1>3. IsInjective(s \o t) /\ ToSet(s \o t) = ToSet(s) \cup ToSet(t)
  BY <1>1, JoinInjective
<1>4. QED
  BY <1>2, <1>3 DEF E, s, t

(* Every effect the actor schedules is in flight or settled, never both,   *)
(* and settled once however often its runner reports; the cleanup of a     *)
(* late handle runs once, when its entry is consumed.                      *)
THEOREM EffectsSettledOnce == Spec => []SettledOnce
<1>1. ActorInv => SettledOnce
  <2>1. SUFFICES ASSUME Accounted, CleanupsOnce PROVE SettledOnce
    BY DEF ActorInv
  <2>2. IsInjective(settled \o inflight) /\ ToSet(settled \o inflight) = Scheduled
    BY <2>1, AllAccounted
  <2>3. QED
    BY <2>1, <2>2 DEF SettledOnce, CleanupsOnce
<1>2. QED
  BY <1>1, ActorInvariant, PTL

(* A runtime that is stopping, reconciling or failed dirty stays so and    *)
(* schedules no ConnectProtocol, whatever commands and completions come.   *)
THEOREM DownIsFinal == Spec => NeverForwardAgain
<1>1. ActorInv /\ [Next]_vars
        => [state.tag \in Down =>
              /\ state'.tag \in Down
              /\ \A e \in DOMAIN reports' \ Scheduled : e.request # "ConnectProtocol"]_vars
  BY DownStep, SMTT(30) DEF ActorInv
<1>2. QED
  BY <1>1, ActorInvariant, PTL DEF Spec, NeverForwardAgain

(* However many Stop commands arrive, a connected session is torn down by  *)
(* one batch of three effects, and a queued connect is cancelled once.     *)
THEOREM TornDownOnce == Spec => []TeardownBatch
<1>1. ActorInv => TeardownBatch
  <2>1. SUFFICES ASSUME Torn, Cancelled PROVE TeardownBatch
    BY DEF ActorInv
  <2> DEFINE c == Decided("CancelledBeforeStart")
             a == Decided("AcceptedQueued")
  <2>2. c + Waiting <= a /\ Waiting \in {0, 1} /\ c \in Nat
    BY <2>1, FS_CardinalityType DEF Cancelled, Waiting
  <2>3. a \in Nat
    <3> DEFINE D == {n \in DOMAIN outcomes : outcomes[n].disposition = "AcceptedQueued"}
    <3>1. Len(outcomes) \in Nat /\ D \subseteq 1..Len(outcomes)
      BY <2>1 DEF Cancelled
    <3>2. IsFiniteSet(D)
      BY <3>1, FS_Interval, FS_Subset, SMTT(30)
    <3>3. QED
      BY <3>2, FS_CardinalityType DEF Decided
  <2>4. c <= a
    <3> HIDE DEF c, a
    <3>1. QED
      BY <2>2, <2>3
  <2>5. QED
    BY <2>1, <2>4, ZenonT(40) DEF TeardownBatch, Torn, Cancelled, Revokes
<1>2. QED
  BY <1>1, ActorInvariant, PTL

=============================================================================
