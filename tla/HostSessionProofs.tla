------------------------- MODULE HostSessionProofs --------------------------
(***************************************************************************)
(* The Windows core's session, for every number of requests, engine        *)
(* generations and faults, and every form of the engine.                   *)
(*                                                                         *)
(* Three arguments share the types, the locks and the bookkeeping of       *)
(* dispatches: what a stop must reach (Obligations), why a stop that asks  *)
(* no engine is right (LocalStops), and why no late event undoes a stop    *)
(* in progress (QuietStop).                                                *)
(***************************************************************************)
EXTENDS HostSession, TLAPS

Provisioning == {"spawned", "captured", "rebound", "restored"}
Routing == {"route", "routed", "gate"} \cup Provisioning
Holding == Routing \cup {"apply", "failing"}
Done == {"ok", "failing", "err"}
AttemptLabels == {"idle", "admitted", "ok", "err"} \cup Holding
StopLabels == {"idle", "target", "rpc", "local", "finish", "ok", "cancelled", "err"}

Compositions == [phase : Phases, open : BOOLEAN, joined : SUBSET Sides, op : Ops \cup {None}]
Processes == {r \in [alive : BOOLEAN, op : Attempts \cup {None}, up : BOOLEAN,
                     late : Attempts \cup {None}, latest : Events \cup {NoEvent}] :
                 r.up => r.op # None}
Streams == [proc : Procs \cup {None}, open : BOOLEAN, q : Seq(Events)]

DispatchStates == [id : Attempts \cup {None}, cancelled : BOOLEAN, stopReq : BOOLEAN]
Workers == [pc : {"idle", "taken", "armed", "running"},
            origin : Attempts \cup {None}, id : Reconnects \cup {None}]
Slots == [gen : Gens, link : [Gens -> Procs \cup {None}],
          mode : {"auto", "service", "oneshot"}, form : {"auto", "service", "oneshot"}]
LockStates == [route : Attempts \cup {None}, sup : Attempts \cup {None, "monitor"},
               engine : [Gens -> Attempts \cup {None}]]
Monitors == [pc : {"watch", "spawned", "rebound"}, watch : Procs \cup {None}, seen : Gens]
Provisions == [proc : Procs \cup {None}, op : Ops \cup {None}]
Forwarders == [pc : {"begin", "attach", "live"}, gen : Gens]

\* The types that the record and function updates of the model rely on.
Types ==
    /\ comp \in Compositions /\ disp \in DispatchStates /\ worker \in Workers
    /\ slot \in Slots /\ lock \in LockStates /\ sup \in Procs \cup {None}
    /\ mon \in Monitors /\ prov \in Provisions /\ fw \in Forwarders
    /\ stream \in Streams /\ eng \in [Procs -> Processes]
    /\ pc \in [Ops -> AttemptLabels \cup StopLabels]
    /\ \A a \in Attempts : pc[a] \in AttemptLabels
    /\ \A s \in Stops : pc[s] \in StopLabels
    /\ tgt \in [Ops -> Gens] /\ cap \in [Stops -> Attempts \cup {None}]
    /\ sent \subseteq Attempts

\* connect_route_lock is held from the lookup of the route to the end of the
\* attempt, the supervisor's lock while a process is provisioned, and the
\* engine client's lock while ApplyTunnel is under way.
Locks ==
    /\ \A a \in Attempts : /\ lock.route = a <=> pc[a] \in Holding
                           /\ lock.sup = a <=> pc[a] \in Provisioning
                           /\ pc[a] = "apply" => lock.engine[tgt[a]] = a
    /\ lock.sup = "monitor" <=> mon.pc # "watch"
    /\ lock.sup # None => /\ prov.proc \in Procs \ {Service}
                          /\ \A g \in Gens : slot.link[g] # prov.proc
    /\ lock.sup \in Attempts => slot.gen < MaxGen
    /\ \A o \in Ops : tgt[o] <= slot.gen

\* An attempt is passed on once, and is current from its start until the next.
Dispatches ==
    /\ \A a \in sent : pc[a] \in Done
    /\ disp.id # None => pc[disp.id] # "idle"
    /\ disp.id = None => \A a \in Attempts : pc[a] \in {"idle", "err"} /\ a \notin sent
    /\ worker.pc \in {"taken", "armed"} => /\ worker.id # None /\ worker.origin # None
                                           /\ pc[worker.id] = "idle"
    /\ worker.pc = "running" => worker.id # None
    /\ \A s \in Stops : /\ cap[s] # None => pc[cap[s]] # "idle"
                        /\ pc[s] # "idle" /\ cap[s] = disp.id /\ disp.id # None
                           => disp.cancelled

\* The stop obligation: who owes a stop, and what a stop on its way covers.
Since(st, g) == \A h \in g .. st.gen : st.link[h] = st.link[st.gen]

Owes(a) == Since(slot, tgt[a]) /\ (pc[a] = "apply" \/ \E p \in Procs : eng[p].op = a)

Obligations ==
    /\ \A p \in Procs : eng[p].op # None => /\ eng[p].op \in sent
                                            /\ slot.link[tgt[eng[p].op]] = p
    /\ \A a \in Attempts :
          /\ Owes(a) => disp.stopReq
          /\ pc[a] = "apply" /\ Since(slot, tgt[a]) => tgt[a] = slot.gen
    /\ \A s \in Stops, a \in Attempts :
          cap[s] = disp.id /\ Owes(a) =>
              /\ pc[s] \notin {"local", "finish"}
              /\ pc[s] = "rpc" => tgt[a] <= tgt[s]

Confirmed(a) == \E t \in Stops : pc[t] = "ok" /\ cap[t] = a

LocalStops ==
    /\ disp.id # None /\ ~disp.stopReq => Unapplied(disp.id) \/ Confirmed(disp.id)
    /\ \A s \in Stops :
          pc[s] \in {"local", "cancelled"} /\ cap[s] # None =>
              \/ Unapplied(cap[s]) /\ Cancelled(cap[s])
              \/ Confirmed(cap[s])

\* A composition in Stopping is not open to a late Connected.
QuietStop ==
    /\ comp.phase = "Stopping" => /\ disp.id = None \/ disp.cancelled
                                  /\ comp.op # None
                                  /\ comp.op \in Attempts => Unapplied(comp.op)
    /\ comp.phase = "Connecting" =>
          /\ comp.op \in Attempts
          /\ comp.op = disp.id \/ (Unapplied(comp.op) /\ pc[comp.op] # "idle")
          /\ \A a \in Attempts : pc[a] \in Routing => Unapplied(comp.op)
    /\ \A a \in Attempts :
          pc[a] \in {"captured", "rebound"} /\ prov.op # None =>
              prov.op \in Attempts /\ Unapplied(prov.op) /\ pc[prov.op] # "idle"
    /\ \A p \in Procs : eng[p].latest.kind = "Connected" => eng[p].latest.op \in sent
    /\ \A i \in 1 .. Len(stream.q) :
          stream.q[i].kind = "Connected" => stream.q[i].op \in sent

Inv == Types /\ Locks /\ Dispatches /\ Obligations /\ LocalStops /\ QuietStop

-----------------------------------------------------------------------------
(* The host composition and the status streams *)

\* Every operation of the host composition keeps its type.
LEMMA CompositionTypes ==
    ASSUME NEW c \in Compositions
    PROVE  /\ \A op \in Ops \cup {None} : Connecting(c, op) \in Compositions
           /\ \A side \in Sides : Join(c, side) \in Compositions
           /\ Reopen(c) \in Compositions /\ ConnectFailed(c) \in Compositions
           /\ ConnectionLost(c) \in Compositions /\ LinkTerminal(c) \in Compositions
  BY Zenon DEF Compositions, Phases, Sides, Connecting, Join, Reopen, ConnectFailed,
         ConnectionLost, LinkTerminal

\* A rebuilt composition is a composition.
LEMMA FreshType == Fresh \in Compositions
  BY DEF Fresh, Compositions, Phases, Sides

\* The two halves of a stop keep the type of the composition.
LEMMA StopTypes ==
    ASSUME NEW c \in Compositions
    PROVE  /\ SynthesizeDataJoin(c) \in Compositions
           /\ \A op \in Ops : Disconnect(c, op) \in Compositions
<1>1. SynthesizeDataJoin(c) \in Compositions
  BY CompositionTypes DEF SynthesizeDataJoin, Sides
<1>2. ASSUME NEW op \in Ops PROVE Disconnect(c, op) \in Compositions
  <2>1. [c EXCEPT !.phase = "Stopping", !.open = FALSE, !.joined = {}, !.op = op]
           \in Compositions
    BY Zenon DEF Compositions, Phases
  <2>. QED
    BY <2>1, CompositionTypes DEF Disconnect, Sides
<1>. QED
  BY <1>1, <1>2

\* What a process and its stream look like after an event was published.
LEMMA Published ==
    ASSUME Types, NEW p \in Procs, NEW r \in Processes, NEW e \in Events,
           PublishAs(p, r, e)
    PROVE  /\ eng' \in [Procs -> Processes] /\ stream' \in Streams
           /\ \A x \in Procs : eng'[x].op = IF x = p THEN r.op ELSE eng[x].op
           /\ \A x \in Procs : \/ eng'[x].latest = eng[x].latest
                               \/ x = p /\ eng'[x].latest \in {r.latest, e}
           /\ stream'.q = stream.q \/ stream'.q = Append(stream.q, e)
<1>1. eng \in [Procs -> Processes] /\ stream \in Streams
  BY DEF Types
<1>2. CASE Suppressed(p, e)
  BY <1>1, <1>2 DEF PublishAs, Processes
<1>3. CASE ~Suppressed(p, e)
  <2>1. eng' = [eng EXCEPT ![p] = [r EXCEPT !.latest = e]]
    BY <1>3 DEF PublishAs
  <2>2. /\ [r EXCEPT !.latest = e] \in Processes
        /\ [r EXCEPT !.latest = e].op = r.op /\ [r EXCEPT !.latest = e].latest = e
    BY DEF Processes
  <2>3. Append(stream.q, e) \in Seq(Events)
    BY <1>1 DEF Streams
  <2>4. /\ stream' \in Streams
        /\ stream'.q = stream.q \/ stream'.q = Append(stream.q, e)
    BY <1>1, <1>3, <2>3, Zenon DEF PublishAs, Streams
  <2>. QED
    BY <1>1, <2>1, <2>2, <2>4
<1>. QED
  BY <1>2, <1>3

\* The absence of a request or process is none of them.
LEMMA NoneIsNoRequest ==
    ASSUME SessionConstants PROVE None \notin Ops /\ None \notin Attempts /\ None \notin Procs
  BY DEF SessionConstants, Ops, Procs

-----------------------------------------------------------------------------
(* Steps that leave requests, dispatches, slot and locks alone *)

\* Only the engines, their streams, the composition and the two loops move; an
\* engine takes no new work and the composition enters neither Stopping nor
\* Connecting.
LEMMA PassiveStep ==
    ASSUME SessionConstants, Inv,
           UNCHANGED <<disp, worker, slot, lock, sup, pc, tgt, cap, prov, sent>>,
           comp' \in Compositions, eng' \in [Procs -> Processes], stream' \in Streams,
           fw' \in Forwarders,
           mon' \in Monitors,
           mon'.pc = "watch" <=> mon.pc = "watch",
           comp'.phase \in {"Stopping", "Connecting"}
               => comp'.phase = comp.phase /\ comp'.op = comp.op,
           \A x \in Procs : eng'[x].op \in {eng[x].op, None},
           \A x \in Procs : eng'[x].latest.kind = "Connected" => eng'[x].latest.op \in sent,
           \A i \in 1 .. Len(stream'.q) :
               stream'.q[i].kind = "Connected" => stream'.q[i].op \in sent
    PROVE  Inv'
<1>1. Types'
  BY SMT DEF Inv, Types
<1>2. Locks'
  BY Zenon DEF Inv, Locks
<1>3. Dispatches'
  BY Zenon DEF Inv, Dispatches
<1>4. Obligations'
  <2>1. \A a \in Attempts : Owes(a)' => Owes(a)
    BY NoneIsNoRequest, Zenon DEF Owes
  <2>2. \A p \in Procs : eng'[p].op # None => eng'[p].op = eng[p].op
    BY Zenon
  <2>. QED
    BY <2>1, <2>2, Zenon DEF Inv, Obligations
<1>5. LocalStops'
  BY Zenon DEF Inv, LocalStops, Unapplied, Cancelled, Confirmed
<1>6. QuietStop'
  BY Zenon DEF Inv, QuietStop, Unapplied
<1>. QED
  BY <1>1, <1>2, <1>3, <1>4, <1>5, <1>6 DEF Inv

\* No event claims a tunnel for an attempt that never left the host.
Honest(e) == e.kind = "Connected" => e.op \in sent

\* What an engine publishes is queued and remembered; a Connected stays one of an
\* attempt that was passed on.
LEMMA PublishedHonestly ==
    ASSUME Inv, NEW p \in Procs, NEW r \in Processes, NEW e \in Events,
           PublishAs(p, r, e), r.latest = eng[p].latest, Honest(e)
    PROVE  /\ eng' \in [Procs -> Processes] /\ stream' \in Streams
           /\ \A x \in Procs : eng'[x].op = IF x = p THEN r.op ELSE eng[x].op
           /\ \A x \in Procs : Honest(eng'[x].latest)
           /\ \A i \in 1 .. Len(stream'.q) : Honest(stream'.q[i])
<1>1. Types /\ stream.q \in Seq(Events)
  BY DEF Inv, Types, Streams
<1>2. /\ \A x \in Procs : Honest(eng[x].latest)
      /\ \A i \in 1 .. Len(stream.q) : Honest(stream.q[i])
  BY DEF Inv, QuietStop, Honest
<1>3. \A i \in 1 .. Len(Append(stream.q, e)) : Honest(Append(stream.q, e)[i])
  BY <1>1, <1>2
<1>4. /\ eng' \in [Procs -> Processes] /\ stream' \in Streams
      /\ \A x \in Procs : eng'[x].op = IF x = p THEN r.op ELSE eng[x].op
      /\ \A x \in Procs : \/ eng'[x].latest = eng[x].latest
                          \/ x = p /\ eng'[x].latest \in {r.latest, e}
      /\ stream'.q = stream.q \/ stream'.q = Append(stream.q, e)
  BY <1>1, Published
<1>5. \A x \in Procs : Honest(eng'[x].latest)
  BY <1>2, <1>4, Zenon
<1>6. \A i \in 1 .. Len(stream'.q) : Honest(stream'.q[i])
  BY <1>2, <1>3, <1>4, Zenon
<1>. QED
  BY <1>4, <1>5, <1>6, Zenon

\* Composition d follows c without entering Stopping or Connecting.
Calm(c, d) ==
    /\ d \in Compositions
    /\ d.phase \in {"Stopping", "Connecting"} => d.phase = c.phase /\ d.op = c.op

\* The operations of the composition that neither start a stop nor an attempt.
LEMMA CalmOperations ==
    ASSUME NEW c \in Compositions
    PROVE  /\ Calm(c, c) /\ Calm(c, Fresh)
           /\ Calm(c, Join(c, "data")) /\ Calm(c, SynthesizeDataJoin(c))
           /\ Calm(c, ConnectFailed(c)) /\ Calm(c, ConnectionLost(c))
           /\ Calm(c, LinkTerminal(c))
<1>1. Calm(c, c)
  BY DEF Calm
<1>2. Calm(c, Fresh)
  BY FreshType, Zenon DEF Calm, Fresh
<1>3. Calm(c, Join(c, "data"))
  <2>1. Join(c, "data") \in Compositions
    BY CompositionTypes DEF Sides
  <2>. QED
    BY <2>1, Zenon DEF Calm, Join, Compositions
<1>4. Calm(c, SynthesizeDataJoin(c))
  BY <1>1, <1>3, Zenon DEF SynthesizeDataJoin
<1>5. Calm(c, ConnectFailed(c))
  BY CompositionTypes DEF Calm, ConnectFailed, Compositions
<1>6. Calm(c, ConnectionLost(c))
  BY CompositionTypes, Zenon DEF Calm, ConnectionLost, Compositions
<1>7. Calm(c, LinkTerminal(c))
  BY CompositionTypes, Zenon DEF Calm, LinkTerminal, Compositions
<1>. QED
  BY <1>1, <1>2, <1>3, <1>4, <1>5, <1>6, <1>7

\* Reopening after a teardown starts neither.
LEMMA CalmReopen ==
    ASSUME NEW c \in Compositions, NEW d, Calm(c, d)
    PROVE  Calm(c, Reopen(d))
<1>1. d \in Compositions /\ Reopen(d) \in Compositions
  BY CompositionTypes DEF Calm
<1>2. CASE d.phase = "Stopped"
  BY <1>1, <1>2 DEF Calm, Reopen, Compositions
<1>3. CASE d.phase # "Stopped"
  BY <1>3 DEF Reopen
<1>. QED
  BY <1>2, <1>3

\* Neither does any engine event.
LEMMA CalmHandle ==
    ASSUME NEW c \in Compositions, NEW e
    PROVE  Calm(c, Handle(c, e))
<1>1. CASE Ignored(c, e)
  <2>1. Handle(c, e) = c
    BY <1>1 DEF Handle, Ignored, Stale
  <2>. QED
    BY <2>1, CalmOperations, Zenon
<1>2. CASE ~Ignored(c, e) /\ e.kind = "Connected"
  <2>1. Handle(c, e) = [c EXCEPT !.phase = "Connected"]
    BY <1>2, Zenon DEF Handle
  <2>. QED
    BY <2>1 DEF Calm, Compositions, Phases
<1>3. CASE ~Ignored(c, e) /\ e.kind = "Stopped"
  BY <1>3, CalmOperations, CalmReopen, Zenon DEF Handle
<1>4. CASE ~Ignored(c, e) /\ e.kind \notin {"Connected", "Stopped"}
  BY <1>4, CalmOperations, Zenon DEF Handle
<1>. QED
  BY <1>1, <1>2, <1>3, <1>4

\* An engine reports on the work it has, or on none, and takes no new work.
LEMMA EngineReports ==
    ASSUME SessionConstants, Inv, NEW p \in Procs, NEW r \in Processes, NEW e \in Events,
           PublishAs(p, r, e), r.latest = eng[p].latest, Honest(e),
           r.op \in {eng[p].op, None},
           UNCHANGED <<comp, disp, worker, slot, lock, sup, fw, mon, pc, tgt, cap, prov, sent>>
    PROVE  Inv'
<1>1. /\ eng' \in [Procs -> Processes] /\ stream' \in Streams
      /\ \A x \in Procs : eng'[x].op = IF x = p THEN r.op ELSE eng[x].op
      /\ \A x \in Procs : Honest(eng'[x].latest)
      /\ \A i \in 1 .. Len(stream'.q) : Honest(stream'.q[i])
  BY PublishedHonestly
<1>2. \A x \in Procs : eng'[x].op \in {eng[x].op, None}
  BY <1>1, Zenon
<1>3. /\ comp \in Compositions /\ fw \in Forwarders
      /\ mon \in Monitors
  BY Zenon DEF Inv, Types
<1>. QED
  BY <1>1, <1>2, <1>3, PassiveStep, Zenon DEF Honest

\* The end of a process adds nothing to its status stream.
LEMMA StreamAfterExitHonest ==
    ASSUME stream \in Streams, NEW p, NEW t \in StreamAfterExit(p),
           \A i \in 1 .. Len(stream.q) : Honest(stream.q[i])
    PROVE  t \in Streams /\ \A i \in 1 .. Len(t.q) : Honest(t.q[i])
<1>1. CASE t = stream
  BY <1>1
<1>2. ASSUME NEW q \in {<<>>, stream.q}, t = [stream EXCEPT !.open = FALSE, !.q = q]
      PROVE  t \in Streams /\ \A i \in 1 .. Len(t.q) : Honest(t.q[i])
  <2>1. q \in Seq(Events) /\ \A i \in 1 .. Len(q) : Honest(q[i])
    <3>1. CASE q = <<>>
      BY <3>1
    <3>2. CASE q = stream.q
      BY <3>2, Zenon DEF Streams
    <3>. QED
      BY <1>2, <3>1, <3>2, Zenon
  <2>2. t \in Streams /\ t.q = q
    BY <1>2, <2>1, Zenon DEF Streams
  <2>. QED
    BY <2>1, <2>2, Zenon
<1>. QED
  BY <1>1, <1>2, Zenon DEF StreamAfterExit

\* The engine on its own: assemblies that end, lost tunnels and crashes.
LEMMA EngineStepInv ==
    ASSUME SessionConstants, Inv, NEW p \in Procs,
           EngineStep(p) \/ EngineDrops(p) \/ EngineCrashes(p)
    PROVE  Inv'
<1>0. /\ Types /\ eng[p] \in Processes /\ comp \in Compositions /\ stream \in Streams
      /\ \A x \in Procs : Honest(eng[x].latest) /\ eng[x].op \in Attempts \cup {None}
      /\ \A i \in 1 .. Len(stream.q) : Honest(stream.q[i])
      /\ \A x \in Procs : eng[x].op # None => eng[x].op \in sent
  BY DEF Inv, Types, QuietStop, Obligations, Honest, Processes
<1>1. ASSUME EngineUp(p) PROVE Inv'
  <2> DEFINE r == [eng[p] EXCEPT !.up = TRUE]
             e == Event("Connected", eng[p].op)
  <2>1. /\ r \in Processes /\ r.latest = eng[p].latest /\ r.op = eng[p].op
        /\ e \in Events /\ Honest(e) /\ PublishAs(p, r, e)
    BY <1>0, <1>1, Zenon DEF EngineUp, Processes, Event, Events, Kinds, Honest, Ops
  <2>2. UNCHANGED <<comp, disp, worker, slot, lock, sup, fw, mon, pc, tgt, cap, prov, sent>>
    BY <1>1, Zenon DEF EngineUp
  <2> HIDE DEF r, e
  <2>. QED
    BY <1>0, <2>1, <2>2, EngineReports, Zenon
<1>2. ASSUME EngineFails(p) PROVE Inv'
  <2> DEFINE r == [eng[p] EXCEPT !.op = None]
             e == Event("Failed", eng[p].op)
  <2>1. /\ r \in Processes /\ r.latest = eng[p].latest /\ r.op = None
        /\ e \in Events /\ Honest(e) /\ PublishAs(p, r, e)
    BY <1>0, <1>2 DEF EngineFails, Processes, Event, Events, Kinds, Terminal, Honest, Ops
  <2>2. UNCHANGED <<comp, disp, worker, slot, lock, sup, fw, mon, pc, tgt, cap, prov, sent>>
    BY <1>2, Zenon DEF EngineFails
  <2> HIDE DEF r, e
  <2>. QED
    BY <1>0, <2>1, <2>2, EngineReports, Zenon
<1>3. ASSUME EngineCancelled(p) PROVE Inv'
  <2> DEFINE r == [eng[p] EXCEPT !.late = None]
             e == Event("Failed", eng[p].late)
  <2>1. /\ r \in Processes /\ r.latest = eng[p].latest /\ r.op = eng[p].op
        /\ e \in Events /\ Honest(e) /\ PublishAs(p, r, e)
    BY <1>0, <1>3 DEF EngineCancelled, Processes, Event, Events, Kinds, Terminal, Honest, Ops
  <2>2. UNCHANGED <<comp, disp, worker, slot, lock, sup, fw, mon, pc, tgt, cap, prov, sent>>
    BY <1>3, Zenon DEF EngineCancelled
  <2> HIDE DEF r, e
  <2>. QED
    BY <1>0, <2>1, <2>2, EngineReports, Zenon
<1>4. ASSUME EngineDrops(p) PROVE Inv'
  <2> DEFINE r == [eng[p] EXCEPT !.op = None, !.up = FALSE]
             e == Event("Lost", eng[p].op)
  <2>1. /\ r \in Processes /\ r.latest = eng[p].latest /\ r.op = None
        /\ e \in Events /\ Honest(e) /\ PublishAs(p, r, e)
    BY <1>0, <1>4, Zenon DEF EngineDrops, Processes, Event, Events, Kinds, Terminal, Honest, Ops
  <2>2. UNCHANGED <<comp, disp, worker, slot, lock, sup, fw, mon, pc, tgt, cap, prov, sent>>
    BY <1>4, Zenon DEF EngineDrops
  <2> HIDE DEF r, e
  <2>. QED
    BY <1>0, <2>1, <2>2, EngineReports, Zenon
<1>5. ASSUME EngineCrashes(p) PROVE Inv'
  <2>1. Process(FALSE) \in Processes /\ Process(FALSE).op = None
        /\ Honest(Process(FALSE).latest)
    BY Zenon DEF Process, Processes, NoEvent, Event, Honest
  <2>2. eng' = [eng EXCEPT ![p] = Process(FALSE)] /\ eng \in [Procs -> Processes]
    BY <1>0, <1>5, Zenon DEF EngineCrashes, Types
  <2>3. /\ eng' \in [Procs -> Processes]
        /\ \A x \in Procs : eng'[x].op \in {eng[x].op, None} /\ Honest(eng'[x].latest)
    BY <1>0, <2>1, <2>2, Zenon
  <2>4. stream' \in Streams /\ \A i \in 1 .. Len(stream'.q) : Honest(stream'.q[i])
    BY <1>0, <1>5, StreamAfterExitHonest DEF EngineCrashes
  <2>5. UNCHANGED <<comp, disp, worker, slot, lock, sup, fw, mon, pc, tgt, cap, prov, sent>>
    BY <1>5, Zenon DEF EngineCrashes
  <2>. QED
    BY <2>3, <2>4, <2>5, <1>0, PassiveStep, Zenon DEF Honest, Types
<1>. QED
  BY <1>1, <1>2, <1>3, <1>4, <1>5, Zenon DEF EngineStep

\* The passive step of the loops, in terms of the composition and the stream.
LEMMA LoopStep ==
    ASSUME SessionConstants, Inv,
           UNCHANGED <<disp, worker, slot, lock, sup, pc, tgt, cap, prov, sent, eng>>,
           Calm(comp, comp'), stream' \in Streams,
           \A i \in 1 .. Len(stream'.q) : Honest(stream'.q[i]),
           fw' \in Forwarders,
           mon' \in Monitors,
           mon'.pc = "watch" <=> mon.pc = "watch"
    PROVE  Inv'
<1>1. /\ comp' \in Compositions
      /\ comp'.phase \in {"Stopping", "Connecting"}
             => comp'.phase = comp.phase /\ comp'.op = comp.op
  BY DEF Calm
<1>2. /\ eng' \in [Procs -> Processes]
      /\ \A x \in Procs : eng'[x].op \in {eng[x].op, None}
      /\ \A x \in Procs : eng'[x].latest.kind = "Connected" => eng'[x].latest.op \in sent
  BY Zenon DEF Inv, Types, QuietStop
<1>. QED
  BY <1>1, <1>2, PassiveStep, Zenon DEF Honest

\* The forwarder without a stream.
LEMMA NoStreamType == NoStream \in Streams /\ Len(NoStream.q) = 0
  BY DEF NoStream, Streams

\* The forwarder, the snapshot, the service manager and the idle main loop.
LEMMA LoopStepInv ==
    ASSUME SessionConstants, Inv,
           \/ ServiceRestarts \/ StreamBreaks \/ WorkerSkips \/ ForwarderStep
           \/ SnapshotFindsNoSession \/ MonitorSwap \/ MonitorGivesUp \/ RespawnRebind
    PROVE  Inv'
<1>0. /\ Types /\ comp \in Compositions /\ stream \in Streams /\ eng \in [Procs -> Processes]
      /\ slot \in Slots
      /\ sup \in Procs \cup {None}
      /\ fw \in Forwarders
      /\ mon \in Monitors
      /\ \A x \in Procs : Honest(eng[x].latest)
      /\ \A i \in 1 .. Len(stream.q) : Honest(stream.q[i])
  BY Zenon DEF Inv, Types, QuietStop, Honest
<1>00. Calm(comp, comp)
  BY <1>0, CalmOperations, Zenon
<1>1. ASSUME ServiceRestarts PROVE Inv'
  <2>1. /\ Process(TRUE) \in Processes /\ Process(TRUE).op = None
        /\ Honest(Process(TRUE).latest)
    BY Zenon DEF Process, Processes, NoEvent, Event, Honest
  <2>2. eng' = [eng EXCEPT ![Service] = Process(TRUE)]
    BY <1>1, Zenon DEF ServiceRestarts
  <2>3. /\ eng' \in [Procs -> Processes]
        /\ \A x \in Procs : eng'[x].op \in {eng[x].op, None} /\ Honest(eng'[x].latest)
    BY <1>0, <2>1, <2>2, Zenon
  <2>4. UNCHANGED <<comp, disp, worker, slot, lock, sup, fw, stream, mon, pc, tgt, cap, prov,
                    sent>>
    BY <1>1, Zenon DEF ServiceRestarts
  <2>. QED
    BY <1>0, <2>3, <2>4, PassiveStep, Zenon DEF Honest
<1>2. ASSUME StreamBreaks PROVE Inv'
  <2>1. stream' \in Streams /\ stream'.q = stream.q
    BY <1>0, <1>2, Zenon DEF StreamBreaks, Streams
  <2>. QED
    BY <1>0, <1>00, <1>2, <2>1, LoopStep, Zenon DEF StreamBreaks
<1>3. ASSUME WorkerSkips PROVE Inv'
  BY <1>0, <1>00, <1>3, LoopStep, Zenon DEF WorkerSkips
<1>4. ASSUME ForwarderBegins PROVE Inv'
  <2>1. fw' \in Forwarders
    BY <1>0, <1>4, Zenon DEF ForwarderBegins, Forwarders, Slots
  <2>. QED
    BY <1>0, <1>00, <1>4, <2>1, LoopStep, Zenon DEF ForwarderBegins
<1>5. ASSUME ForwarderAttaches PROVE Inv'
  <2>1. fw' \in Forwarders
    BY <1>0, <1>5, Zenon DEF ForwarderAttaches, Forwarders, Slots
  <2> DEFINE p == slot.link[fw.gen]
             q == IF eng[p].latest = NoEvent THEN <<>> ELSE <<eng[p].latest>>
  <2>2. p \in Procs /\ stream' = [proc |-> p, open |-> TRUE, q |-> q]
    BY <1>0, <1>5, Zenon DEF ForwarderAttaches, Alive, ProcOf, Forwarders, Slots
  <2>3. eng[p].latest \in Events \cup {NoEvent} /\ Honest(eng[p].latest)
    BY <1>0, <2>2, Zenon DEF Processes
  <2>4. q \in Seq(Events) /\ \A i \in 1 .. Len(q) : Honest(q[i])
    <3>1. CASE eng[p].latest = NoEvent
      BY <3>1
    <3>2. CASE eng[p].latest # NoEvent
      BY <2>3, <3>2
    <3>. QED
      BY <3>1, <3>2
  <2> HIDE DEF q, p
  <2>5. stream' \in Streams /\ stream'.q = q
    BY <2>2, <2>4, Zenon DEF Streams
  <2>. QED
    BY <1>0, <1>00, <1>5, <2>1, <2>4, <2>5, LoopStep, Zenon DEF ForwarderAttaches
<1>6. ASSUME ForwarderRefused \/ ForwarderEof PROVE Inv'
  <2>1. ForwarderRetries
    BY <1>6, Zenon DEF ForwarderRefused, ForwarderEof
  <2>2. fw' \in Forwarders
    BY <1>0, <2>1, Zenon DEF ForwarderRetries, Forwarders, Slots
  <2>3. Calm(comp, comp')
    BY <1>0, <2>1, CalmOperations, Zenon DEF ForwarderRetries
  <2>4. stream' \in Streams /\ Len(stream'.q) = 0
    BY <2>1, NoStreamType, Zenon DEF ForwarderRetries
  <2>5. \A i \in 1 .. Len(stream'.q) : Honest(stream'.q[i])
    BY <2>4
  <2>. QED
    BY <1>0, <2>1, <2>2, <2>3, <2>4, <2>5, LoopStep, Zenon DEF ForwarderRetries
<1>7. ASSUME ForwarderSwapped PROVE Inv'
  <2>1. fw' \in Forwarders
    BY <1>0, <1>7, Zenon DEF ForwarderSwapped, Forwarders, Slots
  <2>2. stream' \in Streams /\ Len(stream'.q) = 0
    BY <1>7, NoStreamType, Zenon DEF ForwarderSwapped
  <2>3. \A i \in 1 .. Len(stream'.q) : Honest(stream'.q[i])
    BY <2>2
  <2>. QED
    BY <1>0, <1>00, <1>7, <2>1, <2>2, <2>3, LoopStep, Zenon DEF ForwarderSwapped
<1>8. ASSUME ForwarderEvent PROVE Inv'
  <2>1. Calm(comp, comp')
    BY <1>0, <1>8, CalmHandle, Zenon DEF ForwarderEvent
  <2>2. stream' \in Streams /\ stream'.q = Tail(stream.q)
    <3>1. stream.q \in Seq(Events) /\ stream.q # <<>>
      BY <1>0, <1>8, Zenon DEF ForwarderEvent, Streams
    <3>2. Tail(stream.q) \in Seq(Events)
      BY <3>1
    <3>. QED
      BY <1>0, <1>8, <3>2, Zenon DEF ForwarderEvent, Streams
  <2>3. \A i \in 1 .. Len(Tail(stream.q)) : Honest(Tail(stream.q)[i])
    <3>1. stream.q \in Seq(Events) /\ stream.q # <<>>
      BY <1>0, <1>8, Zenon DEF ForwarderEvent, Streams
    <3>. QED
      BY <1>0, <3>1
  <2>. QED
    BY <1>0, <1>8, <2>1, <2>2, <2>3, LoopStep, Zenon DEF ForwarderEvent
<1>9. ASSUME SnapshotFindsNoSession PROVE Inv'
  BY <1>0, <1>9, CalmOperations, LoopStep, Zenon DEF SnapshotFindsNoSession
<1>10. ASSUME MonitorSwap PROVE Inv'
  <2>1. /\ mon' \in Monitors
        /\ mon'.pc = mon.pc
    BY <1>0, <1>10, Zenon DEF MonitorSwap, Monitors, Slots
  <2>. QED
    BY <1>0, <1>00, <1>10, <2>1, LoopStep, Zenon DEF MonitorSwap
<1>11. ASSUME MonitorGivesUp PROVE Inv'
  <2>1. /\ mon' \in Monitors
        /\ mon'.pc = mon.pc
    BY <1>0, <1>11, Zenon DEF MonitorGivesUp, Monitors, Slots
  <2>2. Calm(comp, comp')
    BY <1>0, <1>11, CalmOperations, Zenon DEF MonitorGivesUp
  <2>. QED
    BY <1>0, <1>11, <2>1, <2>2, LoopStep, Zenon DEF MonitorGivesUp
<1>12. ASSUME RespawnRebind PROVE Inv'
  <2>1. /\ mon' \in Monitors
        /\ mon.pc = "spawned" /\ mon'.pc = "rebound"
    BY <1>0, <1>12, Zenon DEF RespawnRebind, Monitors, Slots
  <2>2. Calm(comp, comp')
    BY <1>0, <1>12, CalmOperations, Zenon DEF RespawnRebind
  <2>. QED
    BY <1>0, <1>12, <2>1, <2>2, LoopStep, Zenon DEF RespawnRebind
<1>. QED
  BY <1>1, <1>2, <1>3, <1>4, <1>5, <1>6, <1>7, <1>8, <1>9, <1>10, <1>11, <1>12, Zenon
     DEF ForwarderStep

-----------------------------------------------------------------------------
(* The reconnect worker and the admission of an attempt *)

\* The worker goes on by itself.
LEMMA WorkerMoves ==
    ASSUME Inv,
           UNCHANGED <<comp, disp, slot, lock, sup, fw, stream, eng, mon, pc, tgt, cap, prov,
                       sent>>,
           worker' \in Workers,
           worker'.pc \in {"taken", "armed"} => /\ worker'.id # None /\ worker'.origin # None
                                                /\ pc[worker'.id] = "idle",
           worker'.pc = "running" => worker'.id # None
    PROVE  Inv'
<1>1. Types'
  BY SMT DEF Inv, Types, Workers
<1>2. Locks'
  BY Zenon DEF Inv, Locks
<1>3. Dispatches'
  BY Zenon DEF Inv, Dispatches
<1>4. Obligations'
  BY Zenon DEF Inv, Obligations, Owes
<1>5. LocalStops'
  BY Zenon DEF Inv, LocalStops, Unapplied, Cancelled, Confirmed
<1>6. QuietStop'
  BY Zenon DEF Inv, QuietStop, Unapplied
<1>. QED
  BY <1>1, <1>2, <1>3, <1>4, <1>5, <1>6, Zenon DEF Inv

\* The reconnect worker up to the admission of its attempt.
LEMMA WorkerStepInv ==
    ASSUME SessionConstants, Inv,
           \/ WorkerArms \/ WorkerSuperseded \/ WorkerRefused \/ WorkerReturns
           \/ \E a \in Reconnects : WorkerTakes(a)
    PROVE  Inv'
<1>0. /\ worker \in Workers /\ disp.id \in Attempts \cup {None}
      /\ worker.pc \in {"taken", "armed"} => /\ worker.id # None /\ worker.origin # None
                                             /\ pc[worker.id] = "idle"
  BY Zenon DEF Inv, Types, DispatchStates, Dispatches
<1>1. ASSUME NEW a \in Reconnects, WorkerTakes(a) PROVE Inv'
  <2>1. a # None /\ disp.id # None /\ pc[a] = "idle"
    BY <1>1, NoneIsNoRequest, Zenon DEF WorkerTakes, MayReconnect, Attempts
  <2>2. worker' \in Workers /\ worker'.pc = "taken" /\ worker'.id = a /\ worker'.origin = disp.id
    BY <1>0, <1>1, Zenon DEF WorkerTakes, Workers
  <2>. QED
    BY <1>1, <2>1, <2>2, WorkerMoves, Zenon DEF WorkerTakes
<1>2. ASSUME WorkerArms PROVE Inv'
  <2>1. /\ worker' \in Workers /\ worker'.pc = "armed" /\ worker.pc = "taken"
        /\ worker'.id = worker.id /\ worker'.origin = worker.origin
    BY <1>0, <1>2, Zenon DEF WorkerArms, Workers
  <2>. QED
    BY <1>0, <1>2, <2>1, WorkerMoves, Zenon DEF WorkerArms
<1>3. ASSUME WorkerSuperseded \/ WorkerRefused \/ WorkerReturns PROVE Inv'
  <2>1. worker' \in Workers /\ worker'.pc = "idle"
    BY <1>0, <1>3, Zenon DEF WorkerSuperseded, WorkerRefused, WorkerReturns, Workers
  <2>. QED
    BY <1>3, <2>1, WorkerMoves, Zenon DEF WorkerSuperseded, WorkerRefused, WorkerReturns
<1>. QED
  BY <1>1, <1>2, <1>3, Zenon

\* A request moves, the others stay where they are.
LEMMA Moved ==
    ASSUME Types, NEW o \in Ops, NEW l, Goto(o, l)
    PROVE  \A x \in Ops : pc'[x] = IF x = o THEN l ELSE pc[x]
  BY Zenon DEF Types, Goto

\* A step of one attempt moves no other request.
LEMMA AttemptMoved ==
    ASSUME SessionConstants, Types, NEW a \in Attempts, NEW l, Goto(a, l)
    PROVE  /\ pc'[a] = l /\ \A x \in Attempts \ {a} : pc'[x] = pc[x]
           /\ \A s \in Stops : pc'[s] = pc[s]
  BY Moved, Zenon DEF Ops, SessionConstants

\* A step of one stop moves no other request.
LEMMA StopMoved ==
    ASSUME SessionConstants, Types, NEW s \in Stops, NEW l, Goto(s, l)
    PROVE  /\ pc'[s] = l /\ \A x \in Stops \ {s} : pc'[x] = pc[x]
           /\ \A a \in Attempts : pc'[a] = pc[a]
  BY Moved, Zenon DEF Ops, SessionConstants

\* Requests stay within their labels.
LEMMA MovedTypes ==
    ASSUME SessionConstants, Types, NEW o \in Ops, NEW l, Goto(o, l),
           o \in Attempts => l \in AttemptLabels, o \in Stops => l \in StopLabels
    PROVE  /\ pc' \in [Ops -> AttemptLabels \cup StopLabels]
           /\ \A a \in Attempts : pc'[a] \in AttemptLabels
           /\ \A s \in Stops : pc'[s] \in StopLabels
<1>1. o \in Attempts \/ o \in Stops
  BY DEF Ops
<1>2. pc' = [pc EXCEPT ![o] = l] /\ pc \in [Ops -> AttemptLabels \cup StopLabels]
  BY Zenon DEF Types, Goto
<1>3. pc' \in [Ops -> AttemptLabels \cup StopLabels]
  BY <1>1, <1>2, Zenon
<1>4. \A x \in Ops : pc'[x] = IF x = o THEN l ELSE pc[x]
  BY Moved, Zenon
<1>. QED
  BY <1>3, <1>4, Zenon DEF Types, Ops

\* A fresh attempt becomes the current dispatch and inherits stop_required.
LEMMA AdmissionInv ==
    ASSUME SessionConstants, Inv, NEW a \in Attempts, pc[a] = "idle", Admitted(a),
           UNCHANGED <<slot, lock, sup, fw, stream, eng, mon, tgt, cap, prov, sent>>,
           worker' \in Workers,
           worker'.pc \in {"taken", "armed"} => worker' = worker /\ worker.id # a,
           worker'.pc = "running" => worker'.id # None
    PROVE  Inv'
<1>1. /\ Types /\ Locks /\ Dispatches /\ Obligations /\ LocalStops /\ QuietStop
      /\ a \in Ops /\ a # None
  BY NoneIsNoRequest, Zenon DEF Inv, Ops
<1>0. /\ comp \in Compositions /\ sent \subseteq Attempts
      /\ disp \in DispatchStates
      /\ \A s \in Stops : cap[s] \in Attempts \cup {None}
  BY <1>1, Zenon DEF Types
<1>2. /\ pc'[a] = "admitted" /\ \A x \in Attempts \ {a} : pc'[x] = pc[x]
      /\ \A s \in Stops : pc'[s] = pc[s]
  BY <1>1, AttemptMoved, Zenon DEF Admitted
<1>3. /\ comp' \in Compositions /\ comp'.phase = "Connecting" /\ comp'.op = a
  <2>1. comp' = Connecting(comp, a) /\ Admits(comp)
    BY Zenon DEF Admitted
  <2>2. comp' \in Compositions
    BY <1>0, <1>1, <2>1, CompositionTypes, Zenon
  <2>. QED
    BY <1>0, <2>1, <2>2, Zenon DEF Connecting, Compositions
<1>4. disp' \in DispatchStates
  BY <1>0, Zenon DEF Admitted, Dispatch, DispatchStates
<1>12. disp'.id = a /\ ~disp'.cancelled /\ disp'.stopReq = disp.stopReq
  BY Zenon DEF Admitted, Dispatch
<1>5. /\ pc' \in [Ops -> AttemptLabels \cup StopLabels]
      /\ \A x \in Attempts : pc'[x] \in AttemptLabels
      /\ \A s \in Stops : pc'[s] \in StopLabels
  <2>1. Goto(a, "admitted") /\ "admitted" \in AttemptLabels /\ a \notin Stops
    BY Zenon DEF Admitted, AttemptLabels, SessionConstants
  <2>. QED
    BY <1>1, <2>1, MovedTypes, Zenon
<1>6. Types'
  BY <1>1, <1>3, <1>4, <1>5, SMT DEF Types, Workers
<1>7. Locks'
  <2>1. \A x \in Attempts : /\ pc'[x] \in Holding <=> pc[x] \in Holding
                            /\ pc'[x] \in Provisioning <=> pc[x] \in Provisioning
                            /\ pc'[x] = "apply" <=> pc[x] = "apply"
    BY <1>2, Zenon DEF Holding, Routing, Provisioning
  <2>. QED
    BY <1>1, <2>1, Zenon DEF Locks
<1>8. Dispatches'
  <2>1. \A x \in Attempts : pc'[x] = "idle" <=> pc[x] = "idle" /\ x # a
    BY <1>2, Zenon
  <2>2. a \notin sent
    BY <1>1, Zenon DEF Dispatches, Done
  <2>3. \A x \in sent : pc'[x] \in Done
    BY <1>0, <1>1, <1>2, <2>2, Zenon DEF Dispatches
  <2>4. \A s \in Stops : cap[s] \in Attempts \cup {None} /\ cap[s] # a
    BY <1>0, <1>1, Zenon DEF Dispatches
  <2>5. worker'.pc \in {"taken", "armed"} => /\ worker'.id # None /\ worker'.origin # None
                                             /\ pc'[worker'.id] = "idle"
    BY <1>1, <2>1, Zenon DEF Dispatches, Workers, Attempts
  <2>. QED
    BY <1>1, <1>2, <1>12, <2>1, <2>3, <2>4, <2>5, Zenon DEF Dispatches
<1>9. Obligations'
  <2>1. \A x \in Attempts : Owes(x)' <=> Owes(x)
    BY <1>1, <1>2, Zenon DEF Owes
  <2>2. \A s \in Stops : cap[s] # a
    BY <1>1, Zenon DEF Dispatches
  <2>. QED
    BY <1>1, <1>2, <1>12, <2>1, <2>2, Zenon DEF Obligations
<1>10. LocalStops'
  <2>1. Unapplied(a)'
    BY <1>1, <1>2, Zenon DEF Unapplied, Dispatches, Done
  <2>2. \A x \in Attempts : Unapplied(x)' <=> Unapplied(x)
    BY <1>1, <1>2, Zenon DEF Unapplied, Ops
  <2>3. \A x \in Attempts : Confirmed(x) => Confirmed(x)'
    BY <1>1, <1>2, Zenon DEF Confirmed, Ops
  <2>4. \A s \in Stops : /\ pc'[s] = pc[s] /\ cap[s] \in Attempts \cup {None} /\ cap[s] # a
    BY <1>0, <1>1, <1>2, Zenon DEF Dispatches
  <2>5. \A s \in Stops : Cancelled(cap[s])'
    BY <1>12, <2>4, Zenon DEF Cancelled
  <2>. QED
    BY <1>1, <1>12, <2>1, <2>2, <2>3, <2>4, <2>5, Zenon DEF LocalStops
<1>11. QuietStop'
  <2>1. Unapplied(a)'
    BY <1>1, <1>2, Zenon DEF Unapplied, Dispatches, Done
  <2>2. \A x \in Attempts : Unapplied(x) => Unapplied(x)'
    BY <1>1, <1>2, Zenon DEF Unapplied, Ops
  <2>3. \A x \in Attempts : pc'[x] \in {"captured", "rebound"} => pc[x] \in {"captured", "rebound"}
    BY <1>2, Zenon DEF Ops
  <2>4. \A x \in Attempts : pc[x] # "idle" => pc'[x] # "idle"
    BY <1>2, Zenon DEF Ops
  <2>. QED
    BY <1>1, <1>3, <1>12, <2>1, <2>2, <2>3, <2>4, Zenon DEF QuietStop
<1>. QED
  BY <1>6, <1>7, <1>8, <1>9, <1>10, <1>11, Zenon DEF Inv

\* The two ways to be admitted: a Connect, and a reconnect of the session it
\* started from.
LEMMA AdmittedInv ==
    ASSUME SessionConstants, Inv,
           WorkerConnects \/ \E a \in Connects : Connect(a)
    PROVE  Inv'
<1>0. /\ worker \in Workers
      /\ worker.pc \in {"taken", "armed"} => /\ worker.id # None /\ pc[worker.id] = "idle"
      /\ worker.pc = "running" => worker.id # None
  BY Zenon DEF Inv, Types, Workers, Dispatches
<1>1. ASSUME NEW a \in Connects, Connect(a) PROVE Inv'
  <2>1. a \in Attempts /\ a \notin Reconnects /\ a # None /\ pc[a] = "idle" /\ Admitted(a)
    BY <1>1, NoneIsNoRequest, Zenon DEF Connect, Attempts, SessionConstants
  <2>2. worker.id # a
    BY <1>0, <2>1, Zenon DEF Workers
  <2>. QED
    BY <1>0, <1>1, <2>1, <2>2, AdmissionInv, Zenon DEF Connect
<1>2. ASSUME WorkerConnects PROVE Inv'
  <2>1. /\ worker.id \in Attempts /\ pc[worker.id] = "idle" /\ Admitted(worker.id)
        /\ worker.id # None
    BY <1>0, <1>2, Zenon DEF WorkerConnects, Workers, Attempts
  <2>2. worker' \in Workers /\ worker'.pc = "running" /\ worker'.id = worker.id
    BY <1>0, <1>2, Zenon DEF WorkerConnects, Workers
  <2>. QED
    BY <1>2, <2>1, <2>2, AdmissionInv, Zenon DEF WorkerConnects
<1>. QED
  BY <1>1, <1>2, Zenon

-----------------------------------------------------------------------------
(* Attempts on their way to the engine *)

\* An attempt moves on, or gives up, without being passed to an engine and
\* without a swap of the slot.
LEMMA MoveInv ==
    ASSUME SessionConstants, Inv, NEW a \in Attempts, NEW l \in AttemptLabels,
           l \notin {"idle", "apply"}, Goto(a, l), pc[a] # "err",
           pc[a] = "idle" => l = "err" /\ worker.id # a,
           a \in sent => l \in Done,
           UNCHANGED <<disp, worker, sup, fw, mon, cap, sent>>,
           comp' \in Compositions, prov' \in Provisions, lock' \in LockStates,
           slot' \in Slots, slot'.gen = slot.gen, slot'.link = slot.link,
           tgt' = tgt \/ (tgt' = [tgt EXCEPT ![a] = slot.gen] /\ a \notin sent),
           eng' \in [Procs -> Processes], stream' \in Streams,
           \A x \in Procs : eng'[x].op \in {eng[x].op, None},
           Locks', QuietStop'
    PROVE  Inv'
<1>1. /\ Types /\ Dispatches /\ Obligations /\ LocalStops
      /\ a \in Ops /\ a \notin Stops /\ a # None /\ slot.gen \in Gens
  BY NoneIsNoRequest, Zenon DEF Inv, Types, Slots, Ops, SessionConstants
<1>2. /\ pc'[a] = l /\ \A x \in Attempts \ {a} : pc'[x] = pc[x]
      /\ \A s \in Stops : pc'[s] = pc[s]
  BY <1>1, AttemptMoved, Zenon
<1>3. /\ pc' \in [Ops -> AttemptLabels \cup StopLabels]
      /\ \A x \in Attempts : pc'[x] \in AttemptLabels
      /\ \A s \in Stops : pc'[s] \in StopLabels
  BY <1>1, MovedTypes, Zenon
<1>4. tgt' \in [Ops -> Gens] /\ \A x \in Ops \ {a} : tgt'[x] = tgt[x]
  <2>1. tgt \in [Ops -> Gens]
    BY <1>1, Zenon DEF Types
  <2>. QED
    BY <1>1, <2>1, Zenon
<1>5. Types'
  BY <1>1, <1>3, <1>4, SMT DEF Types
<1>6. \A x \in Attempts : Unapplied(x) => Unapplied(x)'
  BY <1>2, Zenon DEF Unapplied
<1>7. \A s \in Stops : cap[s] \in Attempts \cup {None}
  BY <1>1, Zenon DEF Types
<1>8. Dispatches'
  <2>1. \A x \in Attempts : pc'[x] = "idle" <=> pc[x] = "idle" /\ x # a
    BY <1>2, Zenon
  <2>2. \A x \in sent : pc'[x] \in Done
    BY <1>1, <1>2, Zenon DEF Dispatches, Types
  <2>3. worker.pc \in {"taken", "armed"} => worker.id \in Attempts /\ worker.id # a
    BY <1>1, Zenon DEF Dispatches, Types, Workers, Attempts
  <2>4. disp.id \in Attempts \cup {None}
    BY <1>1, Zenon DEF Types, DispatchStates
  <2>5. disp.id = None => l = "err"
    BY <1>1, Zenon DEF Dispatches
  <2>6. disp.id # None => pc'[disp.id] # "idle"
    BY <1>1, <2>1, <2>4, Zenon DEF Dispatches
  <2>7. disp.id = None => \A x \in Attempts : pc'[x] \in {"idle", "err"} /\ x \notin sent
    BY <1>1, <1>2, <2>5, Zenon DEF Dispatches
  <2>8. \A s \in Stops : cap[s] # None => pc'[cap[s]] # "idle"
    BY <1>1, <1>7, <2>1, Zenon DEF Dispatches
  <2>9. worker.pc \in {"taken", "armed"} => pc'[worker.id] = "idle"
    BY <1>1, <2>1, <2>3, Zenon DEF Dispatches
  <2>10. /\ worker.pc \in {"taken", "armed"} => worker.id # None /\ worker.origin # None
         /\ worker.pc = "running" => worker.id # None
    BY <1>1, Zenon DEF Dispatches
  <2>11. \A s \in Stops : pc'[s] # "idle" /\ cap[s] = disp.id /\ disp.id # None => disp.cancelled
    BY <1>1, <1>2, Zenon DEF Dispatches
  <2>. QED
    BY <2>2, <2>6, <2>7, <2>8, <2>9, <2>10, <2>11, Zenon DEF Dispatches
<1>9. Obligations'
  <2>1. \A p \in Procs : eng'[p].op # None => eng'[p].op = eng[p].op /\ eng[p].op \in sent
    BY <1>1, Zenon DEF Obligations
  <2>2. \A x \in sent : tgt'[x] = tgt[x] /\ x \in Attempts
    BY <1>1, <1>4, Zenon DEF Types, Ops
  <2>3. \A g : Since(slot', g) <=> Since(slot, g)
    BY Zenon DEF Since
  <2>4. \A x \in Attempts : pc'[x] = "apply" => pc[x] = "apply" /\ tgt'[x] = tgt[x]
    BY <1>2, <1>4, Zenon DEF Ops
  <2>5. \A x \in Attempts : Owes(x)' => Owes(x) /\ tgt'[x] = tgt[x]
    <3>1. ASSUME NEW x \in Attempts, Owes(x)'
          PROVE  /\ tgt'[x] = tgt[x] /\ Since(slot', tgt'[x])
                 /\ pc[x] = "apply" \/ \E p \in Procs : eng[p].op = x
      <4>1. x # None
        BY NoneIsNoRequest, Zenon
      <4>. QED
        BY <2>1, <2>2, <2>4, <3>1, <4>1, Zenon DEF Owes
    <3>. QED
      BY <2>3, <3>1, Zenon DEF Owes
  <2>6. \A p \in Procs : eng'[p].op # None => /\ eng'[p].op \in sent
                                             /\ slot.link[tgt'[eng'[p].op]] = p
    <3>1. ASSUME NEW p \in Procs, eng'[p].op # None
          PROVE  eng'[p].op \in sent /\ slot.link[tgt'[eng'[p].op]] = p
      <4>1. /\ eng'[p].op = eng[p].op /\ eng[p].op # None /\ eng[p].op \in sent
            /\ slot.link[tgt[eng[p].op]] = p
        BY <1>1, <2>1, <3>1, Zenon DEF Obligations
      <4>2. tgt'[eng[p].op] = tgt[eng[p].op]
        BY <2>2, <4>1, Zenon
      <4>. QED
        BY <4>1, <4>2, Zenon
    <3>. QED
      BY <3>1, Zenon
  <2>7. \A x \in Attempts : /\ Owes(x)' => disp.stopReq
                            /\ pc'[x] = "apply" /\ Since(slot', tgt'[x]) => tgt'[x] = slot.gen
    BY <1>1, <2>3, <2>4, <2>5, Zenon DEF Obligations
  <2>8. \A s \in Stops : tgt'[s] = tgt[s]
    BY <1>1, <1>4, Zenon DEF Ops
  <2>9. \A s \in Stops, x \in Attempts :
          cap[s] = disp.id /\ Owes(x)' => /\ pc'[s] \notin {"local", "finish"}
                                          /\ pc'[s] = "rpc" => tgt'[x] <= tgt'[s]
    BY <1>1, <1>2, <2>5, <2>8, Zenon DEF Obligations
  <2>. QED
    BY <2>6, <2>7, <2>9, Zenon DEF Obligations
<1>10. LocalStops'
  <2>1. \A x \in Attempts : Confirmed(x) => Confirmed(x)'
    BY <1>2, Zenon DEF Confirmed
  <2>2. disp.id \in Attempts \cup {None}
    BY <1>1, Zenon DEF Types, DispatchStates
  <2>. QED
    BY <1>1, <1>2, <1>6, <1>7, <2>1, <2>2, Zenon DEF LocalStops, Cancelled
<1>. QED
  BY <1>5, <1>8, <1>9, <1>10, Zenon DEF Inv

\* A step of an attempt that touches neither dispatch nor engine opens no stop to a
\* late Connected.
LEMMA MoveQuiet ==
    ASSUME SessionConstants, Inv, NEW a \in Attempts, NEW l \in AttemptLabels,
           l \notin {"idle", "apply"}, Goto(a, l), Calm(comp, comp'),
           UNCHANGED <<disp, sent>>,
           l \in Routing =>
               pc[a] \in Routing \/ (comp.phase = "Connecting" => Unapplied(comp.op)),
           l \in {"captured", "rebound"} => pc[a] \in {"captured", "rebound"},
           prov'.op \in {prov.op, None},
           \A x \in Procs : Honest(eng'[x].latest),
           \A i \in 1 .. Len(stream'.q) : Honest(stream'.q[i])
    PROVE  QuietStop'
<1>1. Types /\ QuietStop
  BY Zenon DEF Inv
<1>2. /\ pc'[a] = l /\ \A x \in Attempts \ {a} : pc'[x] = pc[x]
  BY <1>1, AttemptMoved, Zenon
<1>4. \A x \in Attempts : pc[x] # "idle" => pc'[x] # "idle"
  BY <1>2, Zenon
<1>5. comp'.phase \in {"Stopping", "Connecting"} => comp'.phase = comp.phase /\ comp'.op = comp.op
  BY Zenon DEF Calm
<1>6. comp'.phase = "Stopping" => /\ disp.id = None \/ disp.cancelled
                                  /\ comp'.op # None
                                  /\ comp'.op \in Attempts => Unapplied(comp.op)'
  BY <1>1, <1>2, <1>5, Zenon DEF QuietStop, Unapplied
<1>7. comp'.phase = "Connecting" =>
          /\ comp'.op \in Attempts
          /\ comp'.op = disp.id \/ (Unapplied(comp.op)' /\ pc'[comp'.op] # "idle")
          /\ \A x \in Attempts : pc'[x] \in Routing => Unapplied(comp.op)'
  BY <1>1, <1>2, <1>4, <1>5, Zenon DEF QuietStop, Unapplied
<1>8. \A x \in Attempts :
          pc'[x] \in {"captured", "rebound"} /\ prov'.op # None =>
              prov'.op \in Attempts /\ Unapplied(prov.op)' /\ pc'[prov'.op] # "idle"
  BY <1>1, <1>2, <1>4, Zenon DEF QuietStop, Unapplied
<1>. QED
  BY <1>6, <1>7, <1>8, Zenon DEF QuietStop, Honest

\* Attempt a, moving to l, takes and releases locks on its own behalf only.
OwnLocks(a, l) ==
    /\ lock'.route = a <=> l \in Holding
    /\ \A x \in Attempts \ {a} : lock'.route = x <=> lock.route = x
    /\ lock'.sup = a <=> l \in Provisioning
    /\ lock'.sup \in {lock.sup, None} /\ (lock'.sup = lock.sup \/ lock.sup = a)
    /\ \A x \in Attempts \ {a} : pc[x] = "apply" =>
          lock'.engine[tgt[x]] = lock.engine[tgt[x]]

\* The locks after a move that hands none of them to anybody else.
LEMMA LockMove ==
    ASSUME SessionConstants, Inv, NEW a \in Attempts, NEW l \in AttemptLabels,
           l # "apply", Goto(a, l), UNCHANGED mon,
           slot'.gen = slot.gen, slot'.link = slot.link, prov'.proc = prov.proc,
           tgt' = tgt \/ tgt' = [tgt EXCEPT ![a] = slot.gen],
           OwnLocks(a, l)
    PROVE  Locks'
<1>1. /\ Types /\ Locks /\ a # None /\ a # "monitor" /\ slot.gen \in Nat
      /\ None # "monitor"
  <2>1. slot.gen \in Gens
    BY Zenon DEF Inv, Types, Slots
  <2>2. slot.gen \in Nat
    BY <2>1 DEF Gens, SessionConstants
  <2>. QED
    BY <2>2, NoneIsNoRequest, Zenon DEF Inv, SessionConstants
<1>2. /\ pc'[a] = l /\ \A x \in Attempts \ {a} : pc'[x] = pc[x]
  BY <1>1, AttemptMoved, Zenon
<1>3. \A x \in Ops \ {a} : tgt'[x] = tgt[x]
  BY <1>1, Zenon DEF Types
<1>4. \A x \in Ops : tgt'[x] <= slot.gen
  <2>1. tgt'[a] = tgt[a] \/ tgt'[a] = slot.gen
    BY <1>1, Zenon DEF Types, Ops
  <2>2. slot.gen <= slot.gen
    BY <1>1
  <2>. QED
    BY <1>1, <1>3, <2>1, <2>2, Zenon DEF Locks
<1>9. /\ lock.sup = "monitor" <=> mon.pc # "watch"
      /\ lock.sup # None => /\ prov.proc \in Procs \ {Service}
                            /\ \A g \in Gens : slot.link[g] # prov.proc
      /\ lock.sup \in Attempts => slot.gen < MaxGen
  BY <1>1, SMT DEF Locks
<1>5. ASSUME NEW x \in Attempts
      PROVE  /\ lock'.route = x <=> pc'[x] \in Holding
             /\ lock'.sup = x <=> pc'[x] \in Provisioning
             /\ pc'[x] = "apply" => lock'.engine[tgt'[x]] = x
  <2>1. CASE x = a
    BY <1>2, <2>1, Zenon DEF OwnLocks
  <2>2. CASE x # a
    <3>1. pc'[x] = pc[x] /\ tgt'[x] = tgt[x] /\ x # None
      BY <1>2, <1>3, <2>2, NoneIsNoRequest, Zenon DEF Ops
    <3>2. lock'.sup = x <=> lock.sup = x
      BY <2>2, <3>1, Zenon DEF OwnLocks
    <3>3. lock'.route = x <=> lock.route = x
      BY <2>2, Zenon DEF OwnLocks
    <3>4. pc[x] = "apply" => lock'.engine[tgt[x]] = lock.engine[tgt[x]]
      BY <2>2, Zenon DEF OwnLocks
    <3>5. lock.route = x <=> pc[x] \in Holding
      BY <1>1, SMT DEF Locks
    <3>6. lock.sup = x <=> pc[x] \in Provisioning
      BY <1>1, SMT DEF Locks
    <3>7. pc[x] = "apply" => lock.engine[tgt[x]] = x
      BY <1>1, SMT DEF Locks
    <3>. QED
      BY <3>1, <3>2, <3>3, <3>4, <3>5, <3>6, <3>7, Zenon
  <2>. QED
    BY <2>1, <2>2
<1>6. lock'.sup = "monitor" <=> mon'.pc # "watch"
  BY <1>1, <1>9, Zenon DEF OwnLocks
<1>7. /\ lock'.sup # None => /\ prov'.proc \in Procs \ {Service}
                             /\ \A g \in Gens : slot'.link[g] # prov'.proc
      /\ lock'.sup \in Attempts => slot'.gen < MaxGen
  BY <1>1, <1>9, NoneIsNoRequest, Zenon DEF OwnLocks
<1>. QED
  BY <1>4, <1>5, <1>6, <1>7, Zenon DEF Locks

\* The labels at which an attempt holds connect_route_lock, routes or provisions.
LEMMA HoldingFacts ==
    /\ \A l \in {"route", "routed", "gate"} : l \in Holding /\ l \in Routing /\ l \notin Provisioning
    /\ "failing" \in Holding /\ "failing" \notin Routing /\ "failing" \notin Provisioning
    /\ "apply" \in Holding /\ "apply" \notin Routing /\ "apply" \notin Provisioning
    /\ \A l \in {"idle", "admitted", "ok", "err"} :
          l \notin Holding /\ l \notin Routing /\ l \notin Provisioning
    /\ \A l \in Provisioning : l \in Holding /\ l \in Routing
    /\ Provisioning = {"spawned", "captured", "rebound", "restored"}
    /\ AttemptLabels = {"idle", "admitted", "ok", "err"} \cup Holding
    /\ {"failing", "err", "ok"} \subseteq Done /\ Done \subseteq {"failing", "err", "ok"}
  BY Zenon DEF Holding, Routing, Provisioning, AttemptLabels, Done

\* What every step of an attempt may take for granted.
LEMMA MoveContext ==
    ASSUME SessionConstants, Inv, NEW a \in Attempts
    PROVE  /\ Calm(comp, comp) /\ comp \in Compositions /\ prov \in Provisions
           /\ lock \in LockStates /\ slot \in Slots /\ eng \in [Procs -> Processes]
           /\ stream \in Streams
           /\ \A x \in Procs : eng[x].op \in {eng[x].op, None}
           /\ \A x \in Procs : Honest(eng[x].latest)
           /\ \A i \in 1 .. Len(stream.q) : Honest(stream.q[i])
           /\ a \in sent => pc[a] \in Done
           /\ lock.route = a <=> pc[a] \in Holding
           /\ lock.sup = a <=> pc[a] \in Provisioning
           /\ a # None /\ Types
<1>1. Types /\ Locks /\ Dispatches /\ QuietStop /\ comp \in Compositions /\ a # None
  BY NoneIsNoRequest, Zenon DEF Inv, Types
<1>2. Calm(comp, comp)
  BY <1>1, CalmOperations, Zenon
<1>3. /\ prov \in Provisions /\ lock \in LockStates /\ slot \in Slots
      /\ eng \in [Procs -> Processes] /\ stream \in Streams
  BY <1>1, Zenon DEF Types
<1>4. /\ \A x \in Procs : Honest(eng[x].latest)
      /\ \A i \in 1 .. Len(stream.q) : Honest(stream.q[i])
  BY <1>1, Zenon DEF QuietStop, Honest
<1>5. /\ a \in sent => pc[a] \in Done
      /\ lock.route = a <=> pc[a] \in Holding
      /\ lock.sup = a <=> pc[a] \in Provisioning
  BY <1>1, Zenon DEF Locks, Dispatches
<1>. QED
  BY <1>1, <1>2, <1>3, <1>4, <1>5, Zenon

\* Moves that change nothing but the attempt and the route lock.
LEMMA PlainMove ==
    ASSUME SessionConstants, Inv, NEW a \in Attempts, NEW l \in AttemptLabels,
           l \notin {"idle", "apply"}, l \notin Provisioning, Goto(a, l), pc[a] # "err",
           pc[a] \notin Provisioning,
           pc[a] = "idle" => l = "err" /\ worker.id # a,
           a \in sent => l \in Done,
           l \in Routing =>
               pc[a] \in Routing \/ (comp.phase = "Connecting" => Unapplied(comp.op)),
           UNCHANGED <<disp, worker, sup, fw, mon, cap, sent, prov, eng, stream>>,
           Calm(comp, comp'), slot' \in Slots, slot'.gen = slot.gen, slot'.link = slot.link,
           tgt' = tgt \/ (tgt' = [tgt EXCEPT ![a] = slot.gen] /\ a \notin sent),
           lock' \in LockStates, OwnLocks(a, l)
    PROVE  Inv'
<1>1. /\ prov \in Provisions /\ eng \in [Procs -> Processes] /\ stream \in Streams
      /\ \A x \in Procs : eng[x].op \in {eng[x].op, None}
      /\ \A x \in Procs : Honest(eng[x].latest)
      /\ \A i \in 1 .. Len(stream.q) : Honest(stream.q[i])
      /\ lock.sup = a <=> pc[a] \in Provisioning
  BY MoveContext, Zenon
<1>2. comp' \in Compositions
  BY Zenon DEF Calm
<1>3. l \notin {"captured", "rebound"}
  BY HoldingFacts, Zenon
<1>4. Locks'
  BY <1>1, LockMove, Zenon
<1>5. QuietStop'
  BY <1>1, <1>3, MoveQuiet, Zenon
<1>. QED
  BY <1>1, <1>2, <1>4, <1>5, MoveInv, Zenon

\* A step that keeps the locks and the labels that go with them.
LEMMA KeptLocks ==
    ASSUME SessionConstants, Inv, NEW a \in Attempts, NEW l, lock' = lock,
           pc[a] \in Holding <=> l \in Holding, pc[a] \in Provisioning <=> l \in Provisioning
    PROVE  OwnLocks(a, l) /\ lock' \in LockStates
  BY MoveContext, Zenon DEF OwnLocks

\* The route lock is given back at the end of an attempt.
LEMMA RouteFreed ==
    ASSUME SessionConstants, Inv, NEW a \in Attempts, NEW l, Free(a),
           l \notin Holding, l \notin Provisioning, pc[a] \notin Provisioning
    PROVE  OwnLocks(a, l) /\ lock' \in LockStates
<1>1. /\ lock \in LockStates /\ a # None
      /\ lock.sup = a <=> pc[a] \in Provisioning
  BY MoveContext, Zenon
<1>2. lock' = [lock EXCEPT !.route = IF @ = a THEN None ELSE @]
  BY Zenon DEF Free
<1>3. /\ lock' \in LockStates /\ lock'.sup = lock.sup /\ lock'.engine = lock.engine
      /\ lock'.route = IF lock.route = a THEN None ELSE lock.route
  BY <1>1, <1>2, Zenon DEF LockStates
<1>4. \A x \in Attempts : x # None
  BY NoneIsNoRequest, Zenon
<1>. QED
  BY <1>1, <1>3, <1>4, Zenon DEF OwnLocks

\* The engine client is given back when ApplyTunnel could not be delivered.
LEMMA EngineFreed ==
    ASSUME SessionConstants, Inv, NEW a \in Attempts, pc[a] = "apply",
           lock' = [lock EXCEPT !.engine[tgt[a]] = None]
    PROVE  OwnLocks(a, "failing") /\ lock' \in LockStates
<1>1. /\ lock \in LockStates /\ a # None /\ tgt[a] \in Gens
      /\ lock.sup = a <=> pc[a] \in Provisioning
      /\ lock.route = a <=> pc[a] \in Holding
  BY MoveContext, Zenon DEF Types, Ops
<1>2. pc[a] \in Holding /\ pc[a] \notin Provisioning
      /\ "failing" \in Holding /\ "failing" \notin Provisioning
  BY HoldingFacts, Zenon
<1>3. /\ lock' \in LockStates /\ lock'.sup = lock.sup /\ lock'.route = lock.route
  BY <1>1, Zenon DEF LockStates
<1>4. \A x \in Attempts \ {a} : pc[x] # "apply"
  <2>1. ASSUME NEW x \in Attempts, pc[x] = "apply" PROVE x = a
    <3>1. lock.route = x <=> pc[x] \in Holding
      BY MoveContext, Zenon
    <3>. QED
      BY <1>1, <1>2, <2>1, <3>1, Zenon
  <2>. QED
    BY <2>1, Zenon
<1>. QED
  BY <1>1, <1>2, <1>3, <1>4, Zenon DEF OwnLocks

\* Attempts that go on, or give up, and touch nothing but themselves, the route
\* lock, the form of the engine and, reporting a failure, the composition.
LEMMA PlainMoves ==
    ASSUME SessionConstants, Inv, NEW a \in Attempts,
           \/ ConnectRefused(a) \/ ConnectCancelled(a) \/ RouteLock(a) \/ RouteFails(a)
           \/ \E form \in Forms : RouteReuse(a, form)
           \/ RouteTarget(a) \/ GateFails(a) \/ ApplyUnreachable(a) \/ ReportFailure(a)
    PROVE  Inv'
<1>0. /\ Calm(comp, comp) /\ comp \in Compositions /\ slot \in Slots
      /\ lock \in LockStates /\ a # None
      /\ a \in sent => pc[a] \in Done
      /\ lock.route = a <=> pc[a] \in Holding
      /\ lock.sup = a <=> pc[a] \in Provisioning
      /\ QuietStop
  BY MoveContext, Zenon DEF Inv
<1>00. /\ \A l \in {"route", "routed", "gate"} :
              /\ l \in Holding /\ l \in Routing /\ l \notin Provisioning /\ l \in AttemptLabels
              /\ l \notin Done
       /\ \A l \in {"idle", "admitted", "ok", "err"} :
              /\ l \notin Holding /\ l \notin Routing /\ l \notin Provisioning
              /\ l \in AttemptLabels
       /\ \A l \in {"failing", "apply"} :
              /\ l \in Holding /\ l \notin Routing /\ l \notin Provisioning /\ l \in AttemptLabels
       /\ \A l \in {"idle", "admitted", "apply"} : l \notin Done
       /\ \A l \in {"ok", "failing", "err"} : l \in Done
  BY Zenon DEF Holding, Routing, Provisioning, AttemptLabels, Done
<1>1. ASSUME ConnectRefused(a) PROVE Inv'
  <2>1. worker.id # a
    <3>1. worker.id \in Reconnects \cup {None}
      BY Zenon DEF Inv, Types, Workers
    <3>2. a \in Connects /\ Connects \cap Reconnects = {}
      BY <1>1, Zenon DEF ConnectRefused, SessionConstants
    <3>. QED
      BY <1>0, <3>1, <3>2, Zenon
  <2>2. pc[a] = "idle" /\ Goto(a, "err") /\ lock' = lock
    BY <1>1, Zenon DEF ConnectRefused
  <2>3. OwnLocks(a, "err") /\ lock' \in LockStates
    BY <1>00, <2>2, KeptLocks, Zenon
  <2>4. UNCHANGED <<comp, disp, worker, slot, sup, fw, mon, cap, sent, prov, eng, stream, tgt>>
    BY <1>1, Zenon DEF ConnectRefused
  <2>. QED
    BY <1>0, <1>00, <2>1, <2>2, <2>3, <2>4, PlainMove, Zenon
<1>2. ASSUME ConnectCancelled(a) PROVE Inv'
  <2>2. pc[a] \in {"admitted", "routed", "gate"} /\ Goto(a, "err") /\ Free(a)
    BY <1>2, Zenon DEF ConnectCancelled
  <2>3. OwnLocks(a, "err") /\ lock' \in LockStates
    BY <1>00, <2>2, RouteFreed, Zenon
  <2>4. UNCHANGED <<comp, disp, worker, slot, sup, fw, mon, cap, sent, prov, eng, stream, tgt>>
    BY <1>2, Zenon DEF ConnectCancelled
  <2>. QED
    BY <1>0, <1>00, <2>2, <2>3, <2>4, PlainMove, Zenon
<1>3. ASSUME RouteLock(a) PROVE Inv'
  <2>2. pc[a] = "admitted" /\ Goto(a, "route") /\ lock' = [lock EXCEPT !.route = a]
        /\ lock.route = None /\ disp.id = a
    BY <1>3, Zenon DEF RouteLock, Cancelled
  <2>3. /\ lock' \in LockStates /\ lock'.sup = lock.sup /\ lock'.engine = lock.engine
        /\ lock'.route = a
    BY <1>0, <2>2, Zenon DEF LockStates
  <2>7. \A x \in Attempts : x # None
    BY NoneIsNoRequest, Zenon
  <2>4. OwnLocks(a, "route")
    BY <1>0, <1>00, <2>2, <2>3, <2>7, Zenon DEF OwnLocks
  <2>5. UNCHANGED <<comp, disp, worker, slot, sup, fw, mon, cap, sent, prov, eng, stream, tgt>>
    BY <1>3, Zenon DEF RouteLock
  <2>6. comp.phase = "Connecting" => Unapplied(comp.op)
    BY <1>0, <1>00, <2>2, Zenon DEF QuietStop, Unapplied
  <2>. QED
    BY <1>0, <1>00, <2>2, <2>3, <2>4, <2>5, <2>6, PlainMove, Zenon
<1>4. ASSUME RouteFails(a) PROVE Inv'
  <2>1. /\ pc[a] = "route"
        /\ UNCHANGED <<comp, disp, worker, slot, sup, fw, mon, cap, sent, prov, eng, stream, tgt>>
    BY <1>4, Zenon DEF RouteFails
  <2>2. CASE Cancelled(a)
    <3>1. Goto(a, "err") /\ Free(a)
      BY <1>4, <2>2, Zenon DEF RouteFails
    <3>2. OwnLocks(a, "err") /\ lock' \in LockStates
      BY <1>00, <2>1, <3>1, RouteFreed, Zenon
    <3>. QED
      BY <1>0, <1>00, <2>1, <3>1, <3>2, PlainMove, Zenon
  <2>3. CASE ~Cancelled(a)
    <3>1. Goto(a, "failing") /\ lock' = lock
      BY <1>4, <2>3, Zenon DEF RouteFails
    <3>2. OwnLocks(a, "failing") /\ lock' \in LockStates
      BY <1>00, <2>1, <3>1, KeptLocks, Zenon
    <3>. QED
      BY <1>0, <1>00, <2>1, <3>1, <3>2, PlainMove, Zenon
  <2>. QED
    BY <2>2, <2>3, SMTT(20)
<1>5. ASSUME NEW form \in Forms, RouteReuse(a, form) PROVE Inv'
  <2>1. /\ pc[a] = "route" /\ Goto(a, "routed") /\ lock' = lock
        /\ UNCHANGED <<comp, disp, worker, sup, fw, mon, cap, sent, prov, eng, stream, tgt>>
    BY <1>5, Zenon DEF RouteReuse
  <2>2. slot' \in Slots /\ slot'.gen = slot.gen /\ slot'.link = slot.link
    <3>1. form \in {"auto", "service", "oneshot"}
      BY Zenon DEF SessionConstants
    <3>. QED
      BY <1>0, <1>5, <3>1, Zenon DEF RouteReuse, Slots
  <2>3. OwnLocks(a, "routed") /\ lock' \in LockStates
    BY <1>00, <2>1, KeptLocks, Zenon
  <2>. QED
    BY <1>0, <1>00, <2>1, <2>2, <2>3, PlainMove, Zenon
<1>6. ASSUME RouteTarget(a) PROVE Inv'
  <2>1. /\ pc[a] = "routed" /\ Goto(a, "gate") /\ lock' = lock
        /\ UNCHANGED <<comp, disp, worker, sup, fw, mon, cap, sent, prov, eng, stream>>
        /\ tgt' = [tgt EXCEPT ![a] = slot.gen]
    BY <1>6, Zenon DEF RouteTarget
  <2>2. slot' \in Slots /\ slot'.gen = slot.gen /\ slot'.link = slot.link
    BY <1>0, <1>6, Zenon DEF RouteTarget, Slots
  <2>3. OwnLocks(a, "gate") /\ lock' \in LockStates
    BY <1>00, <2>1, KeptLocks, Zenon
  <2>4. a \notin sent
    BY <1>0, <1>00, <2>1, Zenon
  <2>. QED
    BY <1>0, <1>00, <2>1, <2>2, <2>3, <2>4, PlainMove, Zenon
<1>7. ASSUME GateFails(a) PROVE Inv'
  <2>1. /\ pc[a] = "gate" /\ Goto(a, "failing") /\ lock' = lock
        /\ UNCHANGED <<comp, disp, worker, slot, sup, fw, mon, cap, sent, prov, eng, stream, tgt>>
    BY <1>7, Zenon DEF GateFails
  <2>2. OwnLocks(a, "failing") /\ lock' \in LockStates
    BY <1>00, <2>1, KeptLocks, Zenon
  <2>. QED
    BY <1>0, <1>00, <2>1, <2>2, PlainMove, Zenon
<1>8. ASSUME ApplyUnreachable(a) PROVE Inv'
  <2>1. /\ pc[a] = "apply" /\ Goto(a, "failing")
        /\ UNCHANGED <<comp, disp, worker, slot, sup, fw, mon, cap, sent, prov, eng, stream, tgt>>
    BY <1>8, Zenon DEF ApplyUnreachable
  <2>2. OwnLocks(a, "failing") /\ lock' \in LockStates
    BY <1>8, EngineFreed, Zenon DEF ApplyUnreachable
  <2>. QED
    BY <1>0, <1>00, <2>1, <2>2, PlainMove, Zenon
<1>9. ASSUME ReportFailure(a) PROVE Inv'
  <2>1. /\ pc[a] = "failing" /\ Goto(a, "err") /\ Free(a)
        /\ UNCHANGED <<disp, worker, slot, sup, fw, mon, cap, sent, prov, eng, stream, tgt>>
    BY <1>9, Zenon DEF ReportFailure
  <2>2. OwnLocks(a, "err") /\ lock' \in LockStates
    BY <1>00, <2>1, RouteFreed, Zenon
  <2>3. Calm(comp, comp')
    BY <1>0, <1>9, CalmOperations, Zenon DEF ReportFailure
  <2>. QED
    BY <1>0, <1>00, <2>1, <2>2, <2>3, PlainMove, Zenon
<1>. QED
  BY <1>1, <1>2, <1>3, <1>4, <1>5, <1>6, <1>7, <1>8, <1>9, Zenon

-----------------------------------------------------------------------------
(* Provisioning a process *)

\* The process that a provisioning ends or starts has no work.
LEMMA ProcessTypes ==
    ASSUME NEW live \in BOOLEAN
    PROVE  /\ Process(live) \in Processes /\ Process(live).op = None
           /\ Honest(Process(live).latest)
  BY Zenon DEF Process, Processes, NoEvent, Event, Honest

\* The process that Replace spawns was in no generation of the slot and holds no
\* tunnel.
LEMMA Replaced ==
    ASSUME SessionConstants, Inv, Replace
    PROVE  /\ prov' \in Provisions /\ prov'.op = None /\ prov'.proc \in Procs \ {Service}
           /\ \A g \in Gens : slot.link[g] # prov'.proc
           /\ slot.gen < MaxGen
           /\ eng' \in [Procs -> Processes] /\ stream' \in Streams
           /\ \A x \in Procs : eng'[x].op \in {eng[x].op, None} /\ Honest(eng'[x].latest)
           /\ \A i \in 1 .. Len(stream'.q) : Honest(stream'.q[i])
<1>0. /\ eng \in [Procs -> Processes] /\ stream \in Streams
      /\ \A x \in Procs : Honest(eng[x].latest)
      /\ \A i \in 1 .. Len(stream.q) : Honest(stream.q[i])
  BY Zenon DEF Inv, Types, QuietStop, Honest
<1>1. NewProc \in Spare
  BY Zenon DEF Replace, NewProc
<1>2. NewProc \in Procs \ {Service} /\ \A g \in Gens : slot.link[g] # NewProc
  BY <1>1, Zenon DEF Spare
<1>3. prov' = [proc |-> NewProc, op |-> None] /\ slot.gen < MaxGen
  BY Zenon DEF Replace
<1>4. /\ prov' \in Provisions /\ prov'.op = None /\ prov'.proc \in Procs \ {Service}
      /\ \A g \in Gens : slot.link[g] # prov'.proc
  BY <1>2, <1>3, Zenon DEF Provisions
<1>5. \A live \in BOOLEAN : /\ Process(live) \in Processes /\ Process(live).op = None
                            /\ Honest(Process(live).latest)
  BY ProcessTypes, Zenon
<1>6. eng' = [p \in Procs |-> IF p = NewProc THEN Process(TRUE)
                              ELSE IF p = sup THEN Process(FALSE) ELSE eng[p]]
  BY Zenon DEF Replace
<1>7. ASSUME NEW x \in Procs
      PROVE  eng'[x] \in Processes /\ eng'[x].op \in {eng[x].op, None} /\ Honest(eng'[x].latest)
  <2>1. eng'[x] \in {Process(TRUE), Process(FALSE), eng[x]}
    BY <1>6, Zenon
  <2>2. eng[x] \in Processes /\ Honest(eng[x].latest)
    BY <1>0, Zenon
  <2>3. TRUE \in BOOLEAN /\ FALSE \in BOOLEAN
    OBVIOUS
  <2>. QED
    BY <1>5, <2>1, <2>2, <2>3, Zenon
<1>8. eng' \in [Procs -> Processes]
  <2>1. \A x \in Procs : (IF x = NewProc THEN Process(TRUE)
                          ELSE IF x = sup THEN Process(FALSE) ELSE eng[x]) \in Processes
    BY <1>0, <1>5, Zenon
  <2>. QED
    BY <1>6, <2>1, Zenon
<1>9. stream' \in Streams /\ \A i \in 1 .. Len(stream'.q) : Honest(stream'.q[i])
  <2>1. stream' = stream \/ stream' \in StreamAfterExit(sup)
    BY Zenon DEF Replace
  <2>2. CASE stream' = stream
    BY <1>0, <2>2, Zenon
  <2>3. CASE stream' \in StreamAfterExit(sup)
    BY <1>0, <2>3, StreamAfterExitHonest, Zenon
  <2>. QED
    BY <2>1, <2>2, <2>3, SMTT(20)
<1>. QED
  BY <1>3, <1>4, <1>7, <1>8, <1>9, Zenon

\* The supervisor's lock is taken, by an attempt or by the main loop, for a
\* process that no generation of the slot leads to.
LEMMA ProvisionInv ==
    ASSUME SessionConstants, Inv, NEW a \in Attempts, Provision(a)
    PROVE  Inv'
<1>0. /\ Calm(comp, comp) /\ comp \in Compositions /\ slot \in Slots
      /\ lock \in LockStates /\ a # None /\ a \in Ops
      /\ Types /\ Locks /\ None # "monitor" /\ a # "monitor"
  BY MoveContext, Zenon DEF Inv, SessionConstants, Ops
<1>1. /\ pc[a] = "route" /\ lock.sup = None /\ Goto(a, "spawned") /\ Replace
      /\ lock' = [lock EXCEPT !.sup = a]
      /\ UNCHANGED <<comp, disp, worker, slot, sup, fw, mon, tgt, cap, sent>>
  BY Zenon DEF Provision
<1>2. /\ prov' \in Provisions /\ prov'.op = None /\ prov'.proc \in Procs \ {Service}
      /\ \A g \in Gens : slot.link[g] # prov'.proc
      /\ slot.gen < MaxGen
      /\ eng' \in [Procs -> Processes] /\ stream' \in Streams
      /\ \A x \in Procs : eng'[x].op \in {eng[x].op, None}
      /\ \A x \in Procs : Honest(eng'[x].latest)
      /\ \A i \in 1 .. Len(stream'.q) : Honest(stream'.q[i])
  BY <1>1, Replaced, Zenon
<1>3. /\ lock' \in LockStates /\ lock'.sup = a /\ lock'.engine = lock.engine
      /\ lock'.route = lock.route
  BY <1>0, <1>1, Zenon DEF LockStates
<1>4. /\ "spawned" \in Holding /\ "spawned" \in Routing /\ "spawned" \in Provisioning
      /\ "route" \in Holding /\ "route" \in Routing /\ "spawned" \in AttemptLabels
      /\ "route" \notin Done
  BY Zenon DEF Holding, Routing, Provisioning, AttemptLabels, Done
<1>5. /\ pc'[a] = "spawned" /\ \A x \in Attempts \ {a} : pc'[x] = pc[x]
  BY <1>0, <1>1, AttemptMoved, Zenon
<1>6. ASSUME NEW x \in Attempts
      PROVE  /\ lock'.route = x <=> pc'[x] \in Holding
             /\ lock'.sup = x <=> pc'[x] \in Provisioning
             /\ pc'[x] = "apply" => lock'.engine[tgt'[x]] = x
  <2>1. lock.route = x <=> pc[x] \in Holding
    BY <1>0, SMTT(20) DEF Locks
  <2>2. lock.sup = x <=> pc[x] \in Provisioning
    BY <1>0, SMTT(20) DEF Locks
  <2>3. pc[x] = "apply" => lock.engine[tgt[x]] = x
    BY <1>0, SMTT(20) DEF Locks
  <2>4. x # None
    BY NoneIsNoRequest, Zenon
  <2>5. CASE x = a
    BY <1>1, <1>3, <1>4, <1>5, <2>1, <2>5, Zenon
  <2>6. CASE x # a
    BY <1>1, <1>3, <1>5, <2>1, <2>2, <2>3, <2>4, <2>6, Zenon
  <2>. QED
    BY <2>5, <2>6, SMTT(20)
<1>7. /\ lock'.sup = "monitor" <=> mon'.pc # "watch"
      /\ \A o \in Ops : tgt'[o] <= slot'.gen
  BY <1>0, <1>1, <1>3, Zenon DEF Locks
<1>8. Locks'
  <2>1. /\ prov'.proc \in Procs \ {Service} /\ \A g \in Gens : slot'.link[g] # prov'.proc
        /\ slot'.gen < MaxGen
    BY <1>1, <1>2, Zenon
  <2>. QED
    BY <1>6, <1>7, <2>1, Zenon DEF Locks
<1>9. QuietStop'
  BY <1>0, <1>1, <1>2, <1>4, MoveQuiet, Zenon
<1>10. a \notin sent
  BY <1>1, <1>4, MoveContext, Zenon
<1>. QED
  BY <1>0, <1>1, <1>2, <1>3, <1>4, <1>8, <1>9, <1>10, MoveInv, Zenon

\* An attempt that holds the supervisor's lock and keeps it.
LEMMA ProvisioningKept ==
    ASSUME SessionConstants, Inv, NEW a \in Attempts, NEW l \in Provisioning,
           pc[a] \in Provisioning, Goto(a, l),
           UNCHANGED <<disp, worker, slot, lock, sup, fw, stream, eng, mon, tgt, cap, sent>>,
           comp' \in Compositions, prov' \in Provisions, prov'.proc = prov.proc, QuietStop'
    PROVE  Inv'
<1>0. /\ slot \in Slots /\ lock \in LockStates /\ eng \in [Procs -> Processes]
      /\ stream \in Streams
      /\ \A x \in Procs : eng[x].op \in {eng[x].op, None}
      /\ a \in sent => pc[a] \in Done
  BY MoveContext, Zenon
<1>1. /\ \A k \in Provisioning : /\ k \in Holding /\ k \notin {"idle", "apply", "err"}
                                 /\ k \in AttemptLabels /\ k \notin Done
  BY Zenon DEF Holding, Routing, Provisioning, AttemptLabels, Done
<1>2. OwnLocks(a, l)
  BY <1>1, KeptLocks, Zenon
<1>3. Locks'
  BY <1>1, <1>2, LockMove, Zenon
<1>4. a \notin sent
  BY <1>0, <1>1, Zenon
<1>. QED
  BY <1>0, <1>1, <1>3, <1>4, MoveInv, Zenon

\* The composition is captured, rebuilt and restored while the route is held.
LEMMA ProvisioningInv ==
    ASSUME SessionConstants, Inv, NEW a \in Attempts,
           ProvisionCapture(a) \/ ProvisionRebind(a) \/ ProvisionRestore(a)
    PROVE  Inv'
<1>0. /\ Calm(comp, comp) /\ comp \in Compositions /\ prov \in Provisions
      /\ \A x \in Procs : Honest(eng[x].latest)
      /\ \A i \in 1 .. Len(stream.q) : Honest(stream.q[i])
      /\ Types /\ QuietStop /\ Dispatches
  BY MoveContext, Zenon DEF Inv
<1>1. /\ \A k \in {"spawned", "captured", "rebound", "restored"} :
              /\ k \in Provisioning /\ k \in Routing /\ k \in AttemptLabels
              /\ k \notin {"idle", "apply"}
  BY Zenon DEF Holding, Routing, Provisioning, AttemptLabels
<1>2. ASSUME ProvisionRebind(a) PROVE Inv'
  <2>1. /\ pc[a] = "captured" /\ Goto(a, "rebound") /\ comp' = Fresh
        /\ UNCHANGED <<disp, worker, slot, lock, sup, fw, stream, eng, mon, tgt, cap, sent, prov>>
    BY <1>2, Zenon DEF ProvisionRebind
  <2>2. Calm(comp, comp')
    BY <1>0, <2>1, CalmOperations, Zenon
  <2>3. QuietStop'
    BY <1>0, <1>1, <2>1, <2>2, MoveQuiet, Zenon
  <2>. QED
    BY <1>0, <1>1, <2>1, <2>2, <2>3, ProvisioningKept, Zenon DEF Calm
<1>3. ASSUME ProvisionCapture(a) PROVE Inv'
  <2>1. /\ pc[a] = "spawned" /\ Goto(a, "captured")
        /\ prov' = [prov EXCEPT !.op = IF comp.phase = "Connecting" THEN comp.op ELSE None]
        /\ UNCHANGED <<comp, disp, worker, slot, lock, sup, fw, stream, eng, mon, tgt, cap, sent>>
    BY <1>3, Zenon DEF ProvisionCapture
  <2>2. /\ prov' \in Provisions /\ prov'.proc = prov.proc
        /\ prov'.op = IF comp.phase = "Connecting" THEN comp.op ELSE None
    BY <1>0, <2>1, Zenon DEF Provisions, Compositions
  <2>3. /\ pc'[a] = "captured" /\ \A x \in Attempts \ {a} : pc'[x] = pc[x]
    BY <1>0, <2>1, AttemptMoved, Zenon
  <2>4. \A x \in Attempts : pc[x] # "idle" => pc'[x] # "idle"
    BY <2>3, Zenon
  <2>5. \A x \in Attempts : Unapplied(x) => Unapplied(x)'
    BY <2>1, <2>3, Zenon DEF Unapplied
  <2>6. comp.phase = "Connecting" =>
            comp.op \in Attempts /\ Unapplied(comp.op) /\ pc[comp.op] # "idle"
    <3>1. comp.op = disp.id /\ comp.op \in Attempts => pc[comp.op] # "idle"
      BY <1>0, NoneIsNoRequest, Zenon DEF Dispatches
    <3>2. comp.phase = "Connecting" =>
            /\ comp.op \in Attempts
            /\ comp.op = disp.id \/ pc[comp.op] # "idle"
            /\ \A x \in Attempts : pc[x] \in Routing => Unapplied(comp.op)
      BY <1>0, Zenon DEF QuietStop
    <3>. QED
      BY <1>1, <2>1, <3>1, <3>2, Zenon
  <2>7. comp.phase = "Stopping" => /\ disp.id = None \/ disp.cancelled
                                   /\ comp.op # None
                                   /\ comp.op \in Attempts => Unapplied(comp.op)'
    BY <1>0, <2>1, <2>5, Zenon DEF QuietStop, Unapplied
  <2>8. comp.phase = "Connecting" => Unapplied(comp.op)' /\ pc'[comp.op] # "idle"
    BY <2>1, <2>4, <2>5, <2>6, Zenon DEF Unapplied
  <2>9. prov'.op # None => /\ prov'.op \in Attempts /\ prov'.op \notin sent'
                           /\ pc'[prov'.op] # "apply" /\ pc'[prov'.op] # "idle"
    <3>1. prov'.op # None => comp.phase = "Connecting" /\ prov'.op = comp.op
      BY <2>2, Zenon
    <3>. QED
      BY <2>1, <2>6, <2>8, <3>1, Zenon DEF Unapplied
  <2>10. QuietStop'
    <3>1. \A x \in Attempts :
             pc'[x] \in {"captured", "rebound"} /\ prov'.op # None =>
                 prov'.op \in Attempts /\ Unapplied(prov.op)' /\ pc'[prov'.op] # "idle"
      BY <2>9, Zenon DEF Unapplied
    <3>. QED
      BY <1>0, <2>1, <2>6, <2>7, <2>8, <3>1, Zenon DEF QuietStop, Honest
  <2>. QED
    BY <1>0, <1>1, <2>1, <2>2, <2>10, ProvisioningKept, Zenon
<1>4. ASSUME ProvisionRestore(a) PROVE Inv'
  <2>1. /\ pc[a] = "rebound" /\ Goto(a, "restored")
        /\ comp' = IF prov.op = None THEN comp ELSE Connecting(comp, prov.op)
        /\ UNCHANGED <<disp, worker, slot, lock, sup, fw, stream, eng, mon, tgt, cap, sent, prov>>
    BY <1>4, Zenon DEF ProvisionRestore
  <2>2. CASE prov.op = None
    <3>1. comp' = comp
      BY <2>1, <2>2, Zenon
    <3>2. QuietStop'
      BY <1>0, <1>1, <2>1, <3>1, MoveQuiet, Zenon
    <3>. QED
      BY <1>0, <1>1, <2>1, <3>1, <3>2, ProvisioningKept, Zenon
  <2>3. CASE prov.op # None
    <3>1. comp' = Connecting(comp, prov.op) /\ prov.op \in Ops \cup {None}
      BY <1>0, <2>1, <2>3, Zenon DEF Provisions
    <3>2. comp' \in Compositions
      BY <1>0, <3>1, CompositionTypes, Zenon
    <3>3. /\ comp'.op = prov.op
          /\ comp'.phase = "Stopping" => comp.phase = "Stopping"
      BY <1>0, <3>1, Zenon DEF Connecting, Compositions
    <3>4. /\ pc'[a] = "restored" /\ \A x \in Attempts \ {a} : pc'[x] = pc[x]
      BY <1>0, <2>1, AttemptMoved, Zenon
    <3>5. prov.op \in Attempts /\ Unapplied(prov.op) /\ pc[prov.op] # "idle"
      BY <1>0, <2>1, <2>3, Zenon DEF QuietStop
    <3>6. Unapplied(prov.op)' /\ pc'[prov.op] # "idle"
      BY <2>1, <3>4, <3>5, Zenon DEF Unapplied
    <3>7. comp'.phase = "Stopping" => disp.id = None \/ disp.cancelled
      BY <1>0, <3>3, Zenon DEF QuietStop
    <3>8. Unapplied(comp.op)'
      BY <2>1, <3>3, <3>6, Zenon DEF Unapplied
    <3>9. QuietStop'
      BY <1>0, <2>1, <2>3, <3>3, <3>5, <3>6, <3>7, <3>8, Zenon DEF QuietStop, Honest
    <3>. QED
      BY <1>0, <1>1, <2>1, <3>2, <3>9, ProvisioningKept, Zenon
  <2>. QED
    BY <2>2, <2>3, SMTT(20)
<1>. QED
  BY <1>2, <1>3, <1>4, Zenon

\* A new process that does not answer is given up with the supervisor's lock.
LEMMA ProvisionFailsInv ==
    ASSUME SessionConstants, Inv, NEW a \in Attempts, ProvisionFails(a)
    PROVE  Inv'
<1>0. /\ Calm(comp, comp) /\ comp \in Compositions /\ slot \in Slots /\ prov \in Provisions
      /\ lock \in LockStates /\ a # None /\ eng \in [Procs -> Processes] /\ stream \in Streams
      /\ \A x \in Procs : Honest(eng[x].latest)
      /\ \A i \in 1 .. Len(stream.q) : Honest(stream.q[i])
      /\ lock.route = a <=> pc[a] \in Holding
      /\ lock.sup = a <=> pc[a] \in Provisioning
      /\ a \in sent => pc[a] \in Done
  BY MoveContext, Zenon
<1>1. /\ pc[a] = "spawned" /\ eng' = [eng EXCEPT ![prov.proc] = Process(FALSE)]
      /\ lock' = [lock EXCEPT !.sup = None, !.route = IF Cancelled(a) THEN None ELSE @]
      /\ UNCHANGED <<comp, disp, worker, slot, sup, fw, stream, mon, tgt, cap, prov, sent>>
  BY Zenon DEF ProvisionFails
<1>2. /\ "spawned" \in Holding /\ "spawned" \in Provisioning /\ "spawned" \notin Done
      /\ \A l \in {"err", "failing"} : /\ l \in AttemptLabels /\ l \notin Provisioning
                                       /\ l \notin Routing /\ l \notin {"idle", "apply"}
      /\ "err" \notin Holding /\ "failing" \in Holding
  BY Zenon DEF Holding, Routing, Provisioning, AttemptLabels, Done
<1>3. /\ eng' \in [Procs -> Processes]
      /\ \A x \in Procs : eng'[x].op \in {eng[x].op, None}
      /\ \A x \in Procs : Honest(eng'[x].latest)
  <2>1. /\ Process(FALSE) \in Processes /\ Process(FALSE).op = None
        /\ Honest(Process(FALSE).latest)
    BY ProcessTypes, Zenon
  <2>2. \A x \in Procs : eng'[x] = eng[x] \/ eng'[x] = Process(FALSE)
    BY <1>0, <1>1, Zenon
  <2>3. eng' \in [Procs -> Processes]
    BY <1>0, <1>1, <2>1, Zenon
  <2>. QED
    BY <1>0, <2>1, <2>2, <2>3, Zenon
<1>4. /\ lock' \in LockStates /\ lock'.sup = None /\ lock'.engine = lock.engine
      /\ lock'.route = IF Cancelled(a) THEN None ELSE lock.route
  BY <1>0, <1>1, Zenon DEF LockStates
<1>5. lock.route = a /\ lock.sup = a /\ a \notin sent /\ \A x \in Attempts : x # None
  BY <1>0, <1>1, <1>2, NoneIsNoRequest, Zenon
<1>6. PICK l \in {"err", "failing"} : Goto(a, l) /\ (l = "err" <=> Cancelled(a))
  BY Zenon DEF ProvisionFails
<1>7. OwnLocks(a, l)
  BY <1>0, <1>2, <1>4, <1>5, <1>6, Zenon DEF OwnLocks
<1>8. Locks'
  BY <1>1, <1>2, <1>6, <1>7, LockMove, Zenon
<1>9. QuietStop'
  BY <1>0, <1>1, <1>2, <1>3, <1>6, MoveQuiet, Zenon
<1>. QED
  BY <1>0, <1>1, <1>2, <1>3, <1>4, <1>5, <1>6, <1>8, <1>9, MoveInv, Zenon

-----------------------------------------------------------------------------
(* Swaps of the engine slot *)

\* Work that is current after a swap was current before it, and on process p.
LEMMA SinceSwap ==
    ASSUME slot \in Slots, SessionConstants, NEW p \in Procs, NEW st \in Slots,
           slot.gen < MaxGen, st.gen = slot.gen + 1,
           st.link = [slot.link EXCEPT ![slot.gen + 1] = p]
    PROVE  /\ \A g \in Gens : g <= slot.gen => st.link[g] = slot.link[g]
           /\ st.link[st.gen] = p
           /\ \A g \in Gens : g <= slot.gen /\ Since(st, g) =>
                 Since(slot, g) /\ slot.link[slot.gen] = p
<1>1. /\ slot.gen \in Nat /\ MaxGen \in Nat /\ slot.gen + 1 \in Gens /\ slot.gen \in Gens
      /\ slot.link \in [Gens -> Procs \cup {None}]
  BY SMTT(20) DEF Slots, Gens, SessionConstants
<1>2. st.link[st.gen] = p
  BY <1>1, SMTT(20)
<1>3. \A g \in Gens : g <= slot.gen => st.link[g] = slot.link[g]
  BY <1>1, SMTT(20) DEF Gens
<1>4. ASSUME NEW g \in Gens, g <= slot.gen, Since(st, g)
      PROVE  Since(slot, g) /\ slot.link[slot.gen] = p
  <2>1. \A h \in g .. slot.gen : h \in Gens /\ h <= slot.gen /\ h \in g .. st.gen
    BY <1>1, SMTT(20) DEF Gens
  <2>2. \A h \in g .. slot.gen : slot.link[h] = p
    BY <1>2, <1>3, <1>4, <2>1, Zenon DEF Since
  <2>3. slot.gen \in g .. slot.gen
    BY <1>1, <1>4, SMTT(20) DEF Gens
  <2>. QED
    BY <2>2, <2>3, Zenon DEF Since
<1>. QED
  BY <1>2, <1>3, <1>4, Zenon

\* The slot moves to another process: what is under way on the one before is
\* no longer current, and nothing becomes current by it.
LEMMA SwapInv ==
    ASSUME SessionConstants, Inv, slot.gen < MaxGen, NEW p \in Procs,
           slot' \in Slots, slot'.gen = slot.gen + 1,
           slot'.link = [slot.link EXCEPT ![slot.gen + 1] = p],
           UNCHANGED <<comp, disp, worker, fw, stream, tgt, cap, prov, sent>>,
           pc' \in [Ops -> AttemptLabels \cup StopLabels],
           \A x \in Attempts : pc'[x] \in AttemptLabels,
           \A x \in Attempts : pc'[x] = pc[x] \/ (pc[x] \in Routing /\ pc'[x] = "routed"),
           \A s \in Stops : pc'[s] = pc[s],
           eng' \in [Procs -> Processes],
           \A x \in Procs : eng'[x].op \in {eng[x].op, None},
           \A x \in Procs : Honest(eng'[x].latest),
           sup' \in Procs \cup {None}, mon' \in Monitors, lock' \in LockStates,
           (\A x \in Attempts : pc[x] # "apply") \/ (\A g \in Gens : slot.link[g] # p),
           Locks'
    PROVE  Inv'
<1>1. /\ Types /\ Locks /\ Dispatches /\ Obligations /\ LocalStops /\ QuietStop
      /\ slot \in Slots /\ tgt \in [Ops -> Gens] /\ sent \subseteq Attempts
      /\ \A s \in Stops : cap[s] \in Attempts \cup {None} /\ pc[s] \in StopLabels
      /\ disp.id \in Attempts \cup {None} /\ slot.gen \in Gens
  <2>1. Types /\ Locks /\ Dispatches /\ Obligations /\ LocalStops /\ QuietStop
    BY Zenon DEF Inv
  <2>. QED
    BY <2>1, Zenon DEF Types, DispatchStates, Slots
<1>2. /\ \A g \in Gens : g <= slot.gen => slot'.link[g] = slot.link[g]
      /\ \A g \in Gens : g <= slot.gen /\ Since(slot', g) =>
             Since(slot, g) /\ slot.link[slot.gen] = p
  BY <1>1, SinceSwap, Zenon
<1>3. \A o \in Ops : tgt[o] \in Gens /\ tgt[o] <= slot.gen
  BY <1>1, Zenon DEF Locks
<1>4. Types'
  <2>1. \A s \in Stops : pc'[s] \in StopLabels
    BY <1>1, Zenon
  <2>. QED
    BY <1>1, <2>1, SMT DEF Types
<1>5. \A x \in Attempts : /\ pc'[x] = "idle" <=> pc[x] = "idle"
                          /\ pc[x] \in Done \cup {"err"} => pc'[x] = pc[x]
                          /\ pc'[x] = "apply" <=> pc[x] = "apply"
                          /\ pc'[x] \in Routing => pc[x] \in Routing
                          /\ pc'[x] \in {"captured", "rebound"} => pc[x] = pc'[x]
  BY Zenon DEF Done, Routing, Provisioning
<1>6. Dispatches'
  <2>1. \A x \in sent : pc'[x] \in Done
    BY <1>1, <1>5, Zenon DEF Dispatches
  <2>2. \A x \in Attempts : pc[x] \in {"idle", "err"} => pc'[x] \in {"idle", "err"}
    BY <1>5, Zenon
  <2>3. worker.pc \in {"taken", "armed"} => worker.id \in Attempts
    BY <1>1, Zenon DEF Dispatches, Types, Workers, Attempts
  <2>. QED
    <3>1. disp.id # None => pc'[disp.id] # "idle"
      BY <1>1, <1>5, Zenon DEF Dispatches
    <3>2. disp.id = None => \A x \in Attempts : pc'[x] \in {"idle", "err"} /\ x \notin sent
      BY <1>1, <2>2, Zenon DEF Dispatches
    <3>3. worker.pc \in {"taken", "armed"} => pc'[worker.id] = "idle"
      BY <1>1, <1>5, <2>3, Zenon DEF Dispatches
    <3>4. \A s \in Stops : cap[s] # None => pc'[cap[s]] # "idle"
      BY <1>1, <1>5, Zenon DEF Dispatches
    <3>5. /\ worker.pc \in {"taken", "armed"} => worker.id # None /\ worker.origin # None
          /\ worker.pc = "running" => worker.id # None
      BY <1>1, Zenon DEF Dispatches
    <3>6. \A s \in Stops : pc'[s] # "idle" /\ cap[s] = disp.id /\ disp.id # None => disp.cancelled
      BY <1>1, Zenon DEF Dispatches
    <3>. QED
      BY <2>1, <3>1, <3>2, <3>3, <3>4, <3>5, <3>6, Zenon DEF Dispatches
<1>7. Obligations'
  <2>1. ASSUME NEW x \in Attempts, Since(slot', tgt[x])
        PROVE  Since(slot, tgt[x]) /\ slot.link[slot.gen] = p
    BY <1>2, <1>3, <2>1, Zenon DEF Ops
  <2>2. ASSUME NEW x \in Attempts, Owes(x)' PROVE Owes(x)
    <3>1. Since(slot', tgt[x])
          /\ (pc'[x] = "apply" \/ \E q \in Procs : eng'[q].op = x)
      BY <2>2, Zenon DEF Owes
    <3>2. pc[x] = "apply" \/ \E q \in Procs : eng[q].op = x
      BY <1>5, <3>1, NoneIsNoRequest, Zenon
    <3>. QED
      BY <2>1, <3>1, <3>2, Zenon DEF Owes
  <2>3. ASSUME NEW x \in Attempts, pc'[x] = "apply" PROVE ~Since(slot', tgt[x])
    <3>1. \A g \in Gens : slot.link[g] # p
      BY <1>5, <2>3, Zenon
    <3>. QED
      BY <1>1, <2>1, <3>1, Zenon
  <2>4. ASSUME NEW q \in Procs, eng'[q].op # None
        PROVE  eng'[q].op \in sent /\ slot'.link[tgt[eng'[q].op]] = q
    <3>1. /\ eng'[q].op = eng[q].op /\ eng[q].op \in sent /\ slot.link[tgt[eng[q].op]] = q
      BY <1>1, <2>4, Zenon DEF Obligations
    <3>2. eng[q].op \in Ops
      BY <1>1, <3>1, Zenon DEF Ops
    <3>3. slot'.link[tgt[eng[q].op]] = slot.link[tgt[eng[q].op]]
      BY <1>2, <1>3, <3>2, Zenon
    <3>. QED
      BY <3>1, <3>3, Zenon
  <2>5. \A x \in Attempts : Owes(x)' => disp.stopReq
    BY <1>1, <2>2, Zenon DEF Obligations
  <2>6. \A s \in Stops, x \in Attempts : cap[s] = disp.id /\ Owes(x)' =>
              /\ pc[s] \notin {"local", "finish"}
              /\ pc[s] = "rpc" => tgt[x] <= tgt[s]
    BY <1>1, <2>2, Zenon DEF Obligations
  <2>. QED
    BY <2>3, <2>4, <2>5, <2>6, Zenon DEF Obligations
<1>8. \A x \in Attempts : Unapplied(x) => Unapplied(x)'
  BY <1>5, Zenon DEF Unapplied
<1>9. LocalStops'
  <2>1. \A x : Confirmed(x) => Confirmed(x)'
    BY Zenon DEF Confirmed
  <2>. QED
    BY <1>1, <1>8, <2>1, Zenon DEF LocalStops, Cancelled
<1>10. QuietStop'
  BY <1>1, <1>5, <1>8, Zenon DEF QuietStop, Honest, Unapplied
<1>. QED
  BY <1>4, <1>6, <1>7, <1>9, <1>10, Zenon DEF Inv

\* A swap adds one generation and leaves the earlier ones alone.
LEMMA SwappedSlot ==
    ASSUME SessionConstants, slot \in Slots, slot.gen < MaxGen, NEW p \in Procs
    PROVE  /\ Swapped(p) \in Slots
           /\ Swapped(p).gen = slot.gen + 1
           /\ Swapped(p).link = [slot.link EXCEPT ![slot.gen + 1] = p]
<1>1. slot.gen + 1 \in Gens /\ slot.gen \in Nat
  BY SMTT(20) DEF Slots, Gens, SessionConstants
<1>. QED
  BY <1>1, Zenon DEF Swapped, Slots

\* The service enters the slot.
LEMMA RouteDialInv ==
    ASSUME SessionConstants, Inv, NEW a \in Attempts, RouteDial(a)
    PROVE  Inv'
<1>0. /\ Types /\ Locks /\ slot \in Slots /\ lock \in LockStates /\ a \in Ops /\ a \notin Stops
      /\ eng \in [Procs -> Processes] /\ prov \in Provisions
      /\ \A x \in Procs : Honest(eng[x].latest)
      /\ lock.route = a <=> pc[a] \in Holding
      /\ sup \in Procs \cup {None} /\ mon \in Monitors
  BY MoveContext, Zenon DEF Inv, Types, Ops, SessionConstants
<1>1. /\ pc[a] = "route" /\ slot.gen < MaxGen /\ Goto(a, "routed")
      /\ eng' = IF eng[Service].alive THEN eng ELSE [eng EXCEPT ![Service] = Process(TRUE)]
      /\ slot' = [Swapped(Service) EXCEPT !.mode = "service", !.form = "service"]
      /\ UNCHANGED <<comp, disp, worker, lock, sup, fw, stream, mon, tgt, cap, prov, sent>>
  BY Zenon DEF RouteDial
<1>2. /\ "route" \in Holding /\ "routed" \in Holding /\ "route" \in Routing
      /\ "routed" \notin Provisioning /\ "route" \notin Provisioning
      /\ "routed" \in AttemptLabels
  BY Zenon DEF Holding, Routing, Provisioning, AttemptLabels
<1>3. Service \in Procs /\ slot.gen \in Nat
  BY <1>0, SMTT(20) DEF Service, Procs, Slots, Gens, SessionConstants
<1>4. /\ slot' \in Slots /\ slot'.gen = slot.gen + 1
      /\ slot'.link = [slot.link EXCEPT ![slot.gen + 1] = Service]
  <2>1. /\ Swapped(Service) \in Slots /\ Swapped(Service).gen = slot.gen + 1
        /\ Swapped(Service).link = [slot.link EXCEPT ![slot.gen + 1] = Service]
    BY <1>0, <1>1, <1>3, SwappedSlot, Zenon
  <2>2. /\ slot' \in Slots /\ slot'.gen = Swapped(Service).gen
        /\ slot'.link = Swapped(Service).link
    BY <1>1, <2>1, Zenon DEF Slots
  <2>. QED
    BY <2>1, <2>2, Zenon
<1>5. /\ eng' \in [Procs -> Processes]
      /\ \A x \in Procs : eng'[x].op \in {eng[x].op, None}
      /\ \A x \in Procs : Honest(eng'[x].latest)
  <2>1. /\ Process(TRUE) \in Processes /\ Process(TRUE).op = None
        /\ Honest(Process(TRUE).latest)
    BY ProcessTypes, Zenon
  <2>2. \A x \in Procs : eng'[x] = eng[x] \/ eng'[x] = Process(TRUE)
    BY <1>0, <1>1, <1>3, Zenon
  <2>3. eng' \in [Procs -> Processes]
    BY <1>0, <1>1, <2>1, Zenon
  <2>. QED
    BY <1>0, <2>1, <2>2, <2>3, Zenon
<1>6. /\ pc'[a] = "routed" /\ \A x \in Attempts \ {a} : pc'[x] = pc[x]
      /\ \A s \in Stops : pc'[s] = pc[s]
  BY <1>0, <1>1, AttemptMoved, Zenon
<1>7. /\ pc' \in [Ops -> AttemptLabels \cup StopLabels]
      /\ \A x \in Attempts : pc'[x] \in AttemptLabels
  BY <1>0, <1>1, <1>2, MovedTypes, Zenon
<1>8. lock.route = a /\ \A x \in Attempts \ {a} : pc[x] \notin Holding
  <2>1. \A x \in Attempts : lock.route = x <=> pc[x] \in Holding
    BY <1>0, SMTT(20) DEF Locks
  <2>. QED
    BY <1>1, <1>2, <2>1, Zenon
<1>9. \A x \in Attempts : pc[x] # "apply" /\ lock.sup # x
  <2>1. \A x \in Attempts : lock.sup = x <=> pc[x] \in Provisioning
    BY <1>0, SMTT(20) DEF Locks
  <2>2. /\ "apply" \in Holding /\ \A l \in Provisioning : l \in Holding
    BY Zenon DEF Holding, Routing
  <2>. QED
    BY <1>1, <1>2, <1>8, <2>1, <2>2, Zenon
<1>10. Locks'
  <2>1. ASSUME NEW x \in Attempts
        PROVE  /\ lock'.route = x <=> pc'[x] \in Holding
               /\ lock'.sup = x <=> pc'[x] \in Provisioning
               /\ pc'[x] # "apply"
    <3>1. CASE x = a
      BY <1>1, <1>2, <1>6, <1>8, <1>9, <3>1, Zenon
    <3>2. CASE x # a
      <4>1. /\ lock.route = x <=> pc[x] \in Holding
            /\ lock.sup = x <=> pc[x] \in Provisioning
        BY <1>0, SMTT(20) DEF Locks
      <4>. QED
        BY <1>1, <1>6, <1>9, <3>2, <4>1, Zenon
    <3>. QED
      BY <3>1, <3>2, SMTT(20)
  <2>2. \A o \in Ops : tgt'[o] <= slot'.gen
    <3>1. \A o \in Ops : tgt[o] \in Nat /\ tgt[o] <= slot.gen
      BY <1>0, SMTT(20) DEF Locks, Types, Gens
    <3>. QED
      BY <1>1, <1>3, <1>4, <3>1, SMTT(20)
  <2>3. lock'.sup # None => /\ prov'.proc \in Procs \ {Service}
                            /\ \A g \in Gens : slot'.link[g] # prov'.proc
    <3>1. lock.sup # None => /\ prov.proc \in Procs \ {Service}
                             /\ \A g \in Gens : slot.link[g] # prov.proc
      BY <1>0, Zenon DEF Locks
    <3>2. \A g \in Gens : slot'.link[g] \in {slot.link[g], Service}
      BY <1>0, <1>4, Zenon DEF Slots
    <3>. QED
      BY <1>1, <3>1, <3>2, Zenon
  <2>4. lock'.sup = "monitor" <=> mon'.pc # "watch"
    BY <1>0, <1>1, Zenon DEF Locks
  <2>. QED
    BY <1>1, <1>9, <2>1, <2>2, <2>3, <2>4, Zenon DEF Locks
<1>11. \A x \in Attempts : pc'[x] = pc[x] \/ (pc[x] \in Routing /\ pc'[x] = "routed")
  BY <1>1, <1>2, <1>6, Zenon
<1>. QED
  BY <1>0, <1>1, <1>3, <1>4, <1>5, <1>6, <1>7, <1>9, <1>10, <1>11, SwapInv, Zenon

\* A provisioned process enters the slot and the supervisor's lock is released.
LEMMA ProvisionedSwap ==
    ASSUME SessionConstants, Inv, lock.sup # None, slot.gen < MaxGen,
           slot' \in Slots, slot'.gen = slot.gen + 1,
           slot'.link = [slot.link EXCEPT ![slot.gen + 1] = prov.proc],
           sup' = prov.proc, lock' = [lock EXCEPT !.sup = None],
           UNCHANGED <<comp, disp, worker, fw, stream, eng, tgt, cap, prov, sent>>,
           mon' \in Monitors, mon'.pc = "watch",
           pc' \in [Ops -> AttemptLabels \cup StopLabels],
           \A x \in Attempts : pc'[x] \in AttemptLabels,
           \A x \in Attempts : pc'[x] = IF pc[x] \in Provisioning THEN "routed" ELSE pc[x],
           \A s \in Stops : pc'[s] = pc[s]
    PROVE  Inv'
<1>0. /\ Types /\ Locks /\ lock \in LockStates /\ eng \in [Procs -> Processes]
      /\ \A x \in Procs : Honest(eng[x].latest)
      /\ \A x \in Procs : eng[x].op \in {eng[x].op, None}
      /\ slot.gen \in Nat
  <2>1. Types /\ Locks /\ QuietStop
    BY Zenon DEF Inv
  <2>2. slot.gen \in Nat
    BY <2>1, SMTT(20) DEF Types, Slots, Gens
  <2>. QED
    BY <2>1, <2>2, Zenon DEF Types, QuietStop, Honest
<1>1. /\ prov.proc \in Procs /\ \A g \in Gens : slot.link[g] # prov.proc
  BY <1>0, Zenon DEF Locks
<1>2. /\ lock' \in LockStates /\ lock'.route = lock.route /\ lock'.engine = lock.engine
      /\ lock'.sup = None
  BY <1>0, Zenon DEF LockStates
<1>3. /\ "routed" \in Holding /\ "routed" \notin Provisioning /\ "apply" \notin Provisioning
      /\ \A l \in Provisioning : l \in Holding /\ l \in Routing
  BY Zenon DEF Holding, Routing, Provisioning
<1>4. ASSUME NEW x \in Attempts
      PROVE  /\ lock'.route = x <=> pc'[x] \in Holding
             /\ lock'.sup # x /\ pc'[x] \notin Provisioning
             /\ pc'[x] = "apply" => lock'.engine[tgt'[x]] = x
  <2>1. lock.route = x <=> pc[x] \in Holding
    BY <1>0, SMTT(20) DEF Locks
  <2>2. pc[x] = "apply" => lock.engine[tgt[x]] = x
    BY <1>0, SMTT(20) DEF Locks
  <2>3. x # None
    BY NoneIsNoRequest, Zenon
  <2>. QED
    BY <1>2, <1>3, <2>1, <2>2, <2>3, Zenon
<1>5. \A o \in Ops : tgt'[o] <= slot'.gen
  <2>1. \A o \in Ops : tgt[o] \in Nat /\ tgt[o] <= slot.gen
    BY <1>0, SMTT(20) DEF Locks, Types, Gens
  <2>. QED
    BY <1>0, <2>1, SMTT(20)
<1>6. Locks'
  <2>1. None # "monitor" /\ None \notin Attempts
    BY NoneIsNoRequest, Zenon DEF SessionConstants
  <2>. QED
    BY <1>2, <1>4, <1>5, <2>1, Zenon DEF Locks
<1>7. \A x \in Attempts : pc'[x] = pc[x] \/ (pc[x] \in Routing /\ pc'[x] = "routed")
  BY <1>3, Zenon
<1>. QED
  BY <1>0, <1>1, <1>2, <1>6, <1>7, SwapInv, Zenon

\* A provisioned process enters the slot.
LEMMA ProvisionSwapInv ==
    ASSUME SessionConstants, Inv, NEW a \in Attempts, ProvisionSwap(a)
    PROVE  Inv'
<1>0. /\ Types /\ Locks /\ slot \in Slots /\ a \in Ops /\ a \notin Stops
      /\ mon \in Monitors /\ None # "monitor" /\ a # "monitor" /\ a # None
  BY NoneIsNoRequest, Zenon DEF Inv, Types, Ops, SessionConstants
<1>1. /\ pc[a] = "restored" /\ Goto(a, "routed")
      /\ slot' = [Swapped(prov.proc) EXCEPT !.form = "oneshot"]
      /\ sup' = prov.proc /\ lock' = [lock EXCEPT !.sup = None]
      /\ UNCHANGED <<comp, disp, worker, fw, stream, eng, mon, tgt, cap, prov, sent>>
  BY Zenon DEF ProvisionSwap
<1>2. "restored" \in Provisioning /\ "routed" \in AttemptLabels
  BY Zenon DEF Holding, Routing, Provisioning, AttemptLabels
<1>3. \A x \in Attempts : lock.sup = x <=> pc[x] \in Provisioning
  BY <1>0, SMTT(20) DEF Locks
<1>4. lock.sup = a /\ \A x \in Attempts \ {a} : pc[x] \notin Provisioning
  BY <1>1, <1>2, <1>3, Zenon
<1>5. slot.gen < MaxGen /\ prov.proc \in Procs /\ mon.pc = "watch"
  BY <1>0, <1>4, Zenon DEF Locks
<1>6. /\ slot' \in Slots /\ slot'.gen = slot.gen + 1
      /\ slot'.link = [slot.link EXCEPT ![slot.gen + 1] = prov.proc]
  <2>1. /\ Swapped(prov.proc) \in Slots /\ Swapped(prov.proc).gen = slot.gen + 1
        /\ Swapped(prov.proc).link = [slot.link EXCEPT ![slot.gen + 1] = prov.proc]
    BY <1>0, <1>5, SwappedSlot, Zenon
  <2>2. /\ slot' \in Slots /\ slot'.gen = Swapped(prov.proc).gen
        /\ slot'.link = Swapped(prov.proc).link
    BY <1>1, <2>1, Zenon DEF Slots
  <2>. QED
    BY <2>1, <2>2, Zenon
<1>7. /\ pc'[a] = "routed" /\ \A x \in Attempts \ {a} : pc'[x] = pc[x]
      /\ \A s \in Stops : pc'[s] = pc[s]
  BY <1>0, <1>1, AttemptMoved, Zenon
<1>8. /\ pc' \in [Ops -> AttemptLabels \cup StopLabels]
      /\ \A x \in Attempts : pc'[x] \in AttemptLabels
  BY <1>0, <1>1, <1>2, MovedTypes, Zenon
<1>9. \A x \in Attempts : pc'[x] = IF pc[x] \in Provisioning THEN "routed" ELSE pc[x]
  BY <1>1, <1>2, <1>4, <1>7, Zenon
<1>. QED
  BY <1>0, <1>1, <1>4, <1>5, <1>6, <1>7, <1>8, <1>9, ProvisionedSwap, Zenon

\* The main loop starts a replacement, fails to, or puts it into the slot.
LEMMA RespawnSwapInv ==
    ASSUME SessionConstants, Inv, RespawnSwap
    PROVE  Inv'
<1>0. /\ Types /\ Locks /\ slot \in Slots /\ mon \in Monitors
      /\ pc \in [Ops -> AttemptLabels \cup StopLabels]
      /\ \A x \in Attempts : pc[x] \in AttemptLabels
      /\ None # "monitor" /\ "monitor" \notin Attempts
  BY Zenon DEF Inv, Types, SessionConstants
<1>1. /\ mon.pc = "rebound" /\ slot.gen < MaxGen /\ slot' = Swapped(prov.proc)
      /\ sup' = prov.proc /\ lock' = [lock EXCEPT !.sup = None]
      /\ mon' = [mon EXCEPT !.pc = "watch", !.watch = prov.proc]
      /\ UNCHANGED <<comp, disp, worker, fw, stream, eng, pc, tgt, cap, prov, sent>>
  BY Zenon DEF RespawnSwap
<1>2. lock.sup = "monitor" /\ prov.proc \in Procs
  BY <1>0, <1>1, Zenon DEF Locks
<1>3. \A x \in Attempts : pc[x] \notin Provisioning
  <2>1. \A x \in Attempts : lock.sup = x <=> pc[x] \in Provisioning
    BY <1>0, SMTT(20) DEF Locks
  <2>. QED
    BY <1>0, <1>2, <2>1, Zenon
<1>4. mon' \in Monitors /\ mon'.pc = "watch"
  BY <1>0, <1>1, <1>2, Zenon DEF Monitors
<1>5. /\ slot' \in Slots /\ slot'.gen = slot.gen + 1
      /\ slot'.link = [slot.link EXCEPT ![slot.gen + 1] = prov.proc]
  BY <1>0, <1>1, <1>2, SwappedSlot, Zenon
<1>6. \A x \in Attempts : pc'[x] = IF pc[x] \in Provisioning THEN "routed" ELSE pc[x]
  BY <1>1, <1>3, Zenon
<1>. QED
  BY <1>0, <1>1, <1>2, <1>4, <1>5, <1>6, ProvisionedSwap, Zenon

\* The supervisor's lock changes hands between the main loop and nobody.
LEMMA MonitorLock ==
    ASSUME SessionConstants, Inv,
           UNCHANGED <<disp, worker, slot, sup, fw, pc, tgt, cap, sent>>,
           Calm(comp, comp'), prov' \in Provisions, prov'.op \in {prov.op, None},
           lock' = [lock EXCEPT !.sup = IF mon'.pc = "watch" THEN None ELSE "monitor"],
           lock.sup \in {None, "monitor"}, mon' \in Monitors,
           mon'.pc # "watch" => /\ prov'.proc \in Procs \ {Service}
                                /\ \A g \in Gens : slot.link[g] # prov'.proc,
           eng' \in [Procs -> Processes], stream' \in Streams,
           \A x \in Procs : eng'[x].op \in {eng[x].op, None},
           \A x \in Procs : Honest(eng'[x].latest),
           \A i \in 1 .. Len(stream'.q) : Honest(stream'.q[i])
    PROVE  Inv'
<1>0. /\ Types /\ Locks /\ Dispatches /\ Obligations /\ LocalStops /\ QuietStop
      /\ lock \in LockStates /\ None # "monitor" /\ "monitor" \notin Attempts
  BY Zenon DEF Inv, Types, SessionConstants
<1>1. /\ lock' \in LockStates /\ lock'.route = lock.route /\ lock'.engine = lock.engine
      /\ lock'.sup = IF mon'.pc = "watch" THEN None ELSE "monitor"
  BY <1>0, Zenon DEF LockStates
<1>2. Types'
  <2>1. comp' \in Compositions
    BY Zenon DEF Calm
  <2>. QED
    BY <1>0, <1>1, <2>1, SMTT(20) DEF Types
<1>3. Locks'
  <2>1. \A x \in Attempts : x # None /\ x # "monitor"
    BY <1>0, NoneIsNoRequest, Zenon
  <2>2. ASSUME NEW x \in Attempts
        PROVE  /\ lock'.route = x <=> pc'[x] \in Holding
               /\ lock'.sup = x <=> pc'[x] \in Provisioning
               /\ pc'[x] = "apply" => lock'.engine[tgt'[x]] = x
    <3>1. lock.route = x <=> pc[x] \in Holding
      BY <1>0, SMTT(20) DEF Locks
    <3>2. lock.sup = x <=> pc[x] \in Provisioning
      BY <1>0, SMTT(20) DEF Locks
    <3>3. pc[x] = "apply" => lock.engine[tgt[x]] = x
      BY <1>0, SMTT(20) DEF Locks
    <3>4. lock'.sup # x /\ lock.sup # x
      BY <1>1, <2>1, Zenon
    <3>. QED
      BY <1>1, <3>1, <3>2, <3>3, <3>4, Zenon
  <2>3. /\ lock'.sup = "monitor" <=> mon'.pc # "watch"
        /\ lock'.sup # None => mon'.pc # "watch"
        /\ lock'.sup \notin Attempts
    BY <1>0, <1>1, <2>1, Zenon
  <2>4. \A o \in Ops : tgt[o] <= slot.gen
    BY <1>0, Zenon DEF Locks
  <2>. QED
    BY <2>2, <2>3, <2>4, Zenon DEF Locks
<1>4. Dispatches'
  BY <1>0, Zenon DEF Dispatches
<1>5. Obligations'
  <2>1. \A x \in Attempts : Owes(x)' => Owes(x)
    BY NoneIsNoRequest, Zenon DEF Owes
  <2>2. \A p \in Procs : eng'[p].op # None => eng'[p].op = eng[p].op
    BY Zenon
  <2>. QED
    BY <1>0, <2>1, <2>2, Zenon DEF Obligations
<1>6. LocalStops'
  BY <1>0, Zenon DEF LocalStops, Unapplied, Cancelled, Confirmed
<1>7. QuietStop'
  <2>1. comp'.phase \in {"Stopping", "Connecting"} => comp'.phase = comp.phase /\ comp'.op = comp.op
    BY Zenon DEF Calm
  <2>. QED
    BY <1>0, <2>1, Zenon DEF QuietStop, Unapplied, Honest
<1>. QED
  BY <1>2, <1>3, <1>4, <1>5, <1>6, <1>7, Zenon DEF Inv

\* The main loop replaces a dead engine, or fails to.
LEMMA RespawnInv ==
    ASSUME SessionConstants, Inv, Respawn \/ RespawnFails
    PROVE  Inv'
<1>0. /\ Types /\ Locks /\ comp \in Compositions /\ mon \in Monitors /\ prov \in Provisions
      /\ lock \in LockStates /\ eng \in [Procs -> Processes] /\ stream \in Streams
      /\ Calm(comp, comp)
  BY CalmOperations, Zenon DEF Inv, Types
<1>00. /\ \A x \in Procs : Honest(eng[x].latest)
       /\ \A i \in 1 .. Len(stream.q) : Honest(stream.q[i])
  BY Zenon DEF Inv, QuietStop, Honest
<1>1. ASSUME Respawn PROVE Inv'
  <2>1. /\ lock.sup = None /\ comp' = LinkTerminal(comp) /\ Replace
        /\ lock' = [lock EXCEPT !.sup = "monitor"]
        /\ mon' = [mon EXCEPT !.pc = "spawned"]
        /\ UNCHANGED <<disp, worker, slot, sup, fw, pc, tgt, cap, sent>>
    BY <1>1, Zenon DEF Respawn
  <2>2. /\ prov' \in Provisions /\ prov'.op = None /\ prov'.proc \in Procs \ {Service}
        /\ \A g \in Gens : slot.link[g] # prov'.proc
        /\ eng' \in [Procs -> Processes] /\ stream' \in Streams
        /\ \A x \in Procs : eng'[x].op \in {eng[x].op, None}
        /\ \A x \in Procs : Honest(eng'[x].latest)
        /\ \A i \in 1 .. Len(stream'.q) : Honest(stream'.q[i])
    BY <2>1, Replaced, Zenon
  <2>3. mon' \in Monitors /\ mon'.pc # "watch"
    BY <1>0, <2>1, Zenon DEF Monitors
  <2>4. lock' = [lock EXCEPT !.sup = IF mon'.pc = "watch" THEN None ELSE "monitor"]
    BY <2>1, <2>3, Zenon
  <2>5. Calm(comp, comp')
    BY <1>0, <2>1, CalmOperations, Zenon
  <2>. QED
    BY <1>0, <2>1, <2>2, <2>3, <2>4, <2>5, MonitorLock, Zenon
<1>2. ASSUME RespawnFails PROVE Inv'
  <2>1. /\ mon.pc = "spawned" /\ eng' = [eng EXCEPT ![prov.proc] = Process(FALSE)]
        /\ lock' = [lock EXCEPT !.sup = None]
        /\ mon' = [mon EXCEPT !.pc = "watch", !.watch = None]
        /\ UNCHANGED <<comp, disp, worker, slot, sup, fw, stream, pc, tgt, cap, prov, sent>>
    BY <1>2, Zenon DEF RespawnFails
  <2>2. mon' \in Monitors /\ mon'.pc = "watch"
    BY <1>0, <2>1, Zenon DEF Monitors
  <2>3. lock' = [lock EXCEPT !.sup = IF mon'.pc = "watch" THEN None ELSE "monitor"]
    BY <2>1, <2>2, Zenon
  <2>4. lock.sup = "monitor"
    BY <1>0, <2>1, Zenon DEF Locks
  <2>5. /\ Process(FALSE) \in Processes /\ Process(FALSE).op = None
        /\ Honest(Process(FALSE).latest)
    BY ProcessTypes, Zenon
  <2>6. \A x \in Procs : eng'[x] = eng[x] \/ eng'[x] = Process(FALSE)
    BY <1>0, <2>1, Zenon
  <2>7. /\ eng' \in [Procs -> Processes]
        /\ \A x \in Procs : eng'[x].op \in {eng[x].op, None}
        /\ \A x \in Procs : Honest(eng'[x].latest)
    BY <1>0, <1>00, <2>1, <2>5, <2>6, Zenon
  <2>. QED
    BY <1>0, <1>00, <2>1, <2>2, <2>3, <2>4, <2>7, MonitorLock, Zenon
<1>. QED
  BY <1>1, <1>2, Zenon

-----------------------------------------------------------------------------
(* The step to the engine *)

\* before_apply: the obligation to stop is taken before ApplyTunnel is sent, by
\* an attempt that no stop has captured.
LEMMA BeforeApplyInv ==
    ASSUME SessionConstants, Inv, NEW a \in Attempts, BeforeApply(a)
    PROVE  Inv'
<1>0. /\ Types /\ Locks /\ Dispatches /\ Obligations /\ LocalStops /\ QuietStop
      /\ a \in Ops /\ a \notin Stops /\ a # None /\ Stops \subseteq Ops /\ Attempts \subseteq Ops
  BY NoneIsNoRequest, Zenon DEF Inv, Ops, SessionConstants
<1>00. /\ lock \in LockStates /\ disp \in DispatchStates /\ tgt[a] \in Gens
       /\ \A s \in Stops : cap[s] \in Attempts \cup {None}
       /\ sent \subseteq Attempts
  BY <1>0, Zenon DEF Types
<1>1. /\ pc[a] = "gate" /\ disp.id = a /\ ~disp.cancelled /\ slot.gen = tgt[a]
      /\ Goto(a, "apply")
      /\ lock' = [lock EXCEPT !.engine[tgt[a]] = a]
      /\ disp' = [disp EXCEPT !.stopReq = TRUE]
      /\ UNCHANGED <<comp, worker, slot, sup, fw, stream, eng, mon, tgt, cap, prov, sent>>
  BY Zenon DEF BeforeApply, MayApply, Cancelled
<1>2. /\ "gate" \in Holding /\ "gate" \notin Provisioning /\ "gate" \notin Done
      /\ "apply" \in Holding /\ "apply" \notin Provisioning /\ "apply" \notin Routing
      /\ "apply" \in AttemptLabels /\ \A l \in Routing : l \in Holding
      /\ {"captured", "rebound"} \subseteq Holding
  BY Zenon DEF Holding, Routing, Provisioning, AttemptLabels, Done
<1>3. /\ pc'[a] = "apply" /\ \A x \in Attempts \ {a} : pc'[x] = pc[x]
      /\ \A s \in Stops : pc'[s] = pc[s]
  BY <1>0, <1>1, AttemptMoved, Zenon
<1>4. /\ pc' \in [Ops -> AttemptLabels \cup StopLabels]
      /\ \A x \in Attempts : pc'[x] \in AttemptLabels
      /\ \A s \in Stops : pc'[s] \in StopLabels
  BY <1>0, <1>1, <1>2, MovedTypes, Zenon
<1>5. /\ lock' \in LockStates /\ lock'.route = lock.route /\ lock'.sup = lock.sup
      /\ lock'.engine[tgt[a]] = a
  BY <1>00, <1>1, Zenon DEF LockStates
<1>6. /\ disp' \in DispatchStates /\ disp'.id = a /\ ~disp'.cancelled /\ disp'.stopReq
  BY <1>00, <1>1, Zenon DEF DispatchStates
<1>7. \A x \in Attempts \ {a} : pc[x] \notin Holding
  <2>1. \A x \in Attempts : lock.route = x <=> pc[x] \in Holding
    BY <1>0, SMTT(20) DEF Locks
  <2>. QED
    BY <1>1, <1>2, <2>1, Zenon
<1>8. \A s \in Stops : pc[s] # "idle" => cap[s] # a
  BY <1>0, <1>1, Zenon DEF Dispatches
<1>9. Types'
  BY <1>0, <1>1, <1>4, <1>5, <1>6, SMTT(20) DEF Types
<1>10. Locks'
  <2>1. ASSUME NEW x \in Attempts
        PROVE  /\ lock'.route = x <=> pc'[x] \in Holding
               /\ lock'.sup = x <=> pc'[x] \in Provisioning
               /\ pc'[x] = "apply" => lock'.engine[tgt'[x]] = x
    <3>1. lock.route = x <=> pc[x] \in Holding
      BY <1>0, SMTT(20) DEF Locks
    <3>2. lock.sup = x <=> pc[x] \in Provisioning
      BY <1>0, SMTT(20) DEF Locks
    <3>3. CASE x = a
      BY <1>1, <1>2, <1>3, <1>5, <3>1, <3>2, <3>3, Zenon
    <3>4. CASE x # a
      BY <1>2, <1>3, <1>5, <1>7, <3>1, <3>2, <3>4, Zenon
    <3>. QED
      BY <3>3, <3>4
  <2>2. /\ lock.sup = "monitor" <=> mon.pc # "watch"
        /\ lock.sup # None => /\ prov.proc \in Procs \ {Service}
                              /\ \A g \in Gens : slot.link[g] # prov.proc
        /\ lock.sup \in Attempts => slot.gen < MaxGen
        /\ \A o \in Ops : tgt[o] <= slot.gen
    BY <1>0, SMTT(20) DEF Locks
  <2>. QED
    BY <1>1, <1>5, <2>1, <2>2, Zenon DEF Locks
<1>11. a \notin sent
  BY <1>0, <1>1, <1>2, Zenon DEF Dispatches
<1>12. Dispatches'
  <2>1. \A x \in sent : pc'[x] \in Done
    BY <1>0, <1>00, <1>3, <1>11, Zenon DEF Dispatches
  <2>2. \A x \in Attempts : pc'[x] = "idle" <=> pc[x] = "idle"
    BY <1>1, <1>3, Zenon
  <2>3. worker.pc \in {"taken", "armed"} => /\ worker.id # None /\ worker.origin # None
                                            /\ pc'[worker.id] = "idle"
    <3>1. worker.pc \in {"taken", "armed"} => worker.id \in Attempts
      BY <1>0, Zenon DEF Dispatches, Types, Workers, Attempts
    <3>. QED
      BY <1>0, <2>2, <3>1, Zenon DEF Dispatches
  <2>4. \A s \in Stops : cap[s] # None => pc'[cap[s]] # "idle"
    BY <1>0, <1>00, <2>2, Zenon DEF Dispatches
  <2>5. \A s \in Stops : pc'[s] # "idle" => cap[s] # a
    BY <1>3, <1>8, Zenon
  <2>6. worker.pc = "running" => worker.id # None
    BY <1>0, Zenon DEF Dispatches
  <2>. QED
    BY <1>0, <1>1, <1>3, <1>6, <2>1, <2>3, <2>4, <2>5, <2>6, Zenon DEF Dispatches
<1>13. Obligations'
  <2>1. \A x \in Attempts : pc'[x] = "apply" => x = a
    BY <1>2, <1>3, <1>7, Zenon
  <2>2. \A s \in Stops : cap[s] = a => pc'[s] \notin {"local", "finish", "rpc"}
    BY <1>3, <1>8, Zenon
  <2>3. \A p \in Procs : eng[p].op # None => eng[p].op \in sent /\ slot.link[tgt[eng[p].op]] = p
    BY <1>0, Zenon DEF Obligations
  <2>. QED
    BY <1>1, <1>6, <2>1, <2>2, <2>3, Zenon DEF Obligations
<1>14. LocalStops'
  <2>1. \A x \in Attempts \ {a} : Unapplied(x) => Unapplied(x)'
    BY <1>1, <1>3, Zenon DEF Unapplied
  <2>2. \A x : Confirmed(x) => Confirmed(x)'
    BY <1>1, <1>3, Zenon DEF Confirmed
  <2>3. \A x : Cancelled(x) => Cancelled(x)'
    BY <1>1, <1>6, Zenon DEF Cancelled
  <2>4. \A s \in Stops : pc[s] \in {"local", "cancelled"} /\ cap[s] # None =>
              /\ cap[s] \in Attempts \ {a}
              /\ (Unapplied(cap[s]) /\ Cancelled(cap[s])) \/ Confirmed(cap[s])
    BY <1>0, <1>00, <1>8, Zenon DEF LocalStops
  <2>. QED
    BY <1>1, <1>3, <1>6, <2>1, <2>2, <2>3, <2>4, Zenon DEF LocalStops
<1>15. QuietStop'
  <2>1. comp.phase # "Stopping"
    BY <1>0, <1>1, Zenon DEF QuietStop
  <2>2. \A x \in Attempts : pc'[x] \notin Routing /\ pc'[x] \notin {"captured", "rebound"}
    BY <1>2, <1>3, <1>7, Zenon
  <2>3. \A x \in Attempts \ {a} : Unapplied(x) => Unapplied(x)'
    BY <1>1, <1>3, Zenon DEF Unapplied
  <2>4. comp.phase = "Connecting" =>
          /\ comp.op \in Attempts
          /\ comp.op = a \/ (Unapplied(comp.op)' /\ pc'[comp.op] # "idle")
    BY <1>0, <1>1, <1>3, <2>3, Zenon DEF QuietStop, Unapplied
  <2>5. /\ \A p \in Procs : eng[p].latest.kind = "Connected" => eng[p].latest.op \in sent
        /\ \A i \in 1 .. Len(stream.q) : stream.q[i].kind = "Connected" => stream.q[i].op \in sent
    BY <1>0, Zenon DEF QuietStop
  <2>. QED
    BY <1>1, <1>6, <2>1, <2>2, <2>4, <2>5, Zenon DEF QuietStop, Unapplied
<1>. QED
  BY <1>9, <1>10, <1>12, <1>13, <1>14, <1>15, Zenon DEF Inv

\* ApplyTunnel: the engine refuses and reports it, or takes the attempt up.
LEMMA EngineApplied ==
    ASSUME Inv, NEW p \in Procs, NEW a \in Attempts, EngineApply(p, a)
    PROVE  /\ eng' \in [Procs -> Processes] /\ stream' \in Streams
           /\ \A x \in Procs : eng'[x].op = eng[x].op \/ (x = p /\ eng'[x].op = a)
           /\ \A x \in Procs : Honest(eng'[x].latest)
           /\ \A i \in 1 .. Len(stream'.q) : Honest(stream'.q[i])
<1>0. /\ eng \in [Procs -> Processes] /\ stream \in Streams
      /\ \A x \in Procs : Honest(eng[x].latest)
      /\ \A i \in 1 .. Len(stream.q) : Honest(stream.q[i])
  BY Zenon DEF Inv, Types, QuietStop, Honest
<1>1. ASSUME PublishAs(p, eng[p], Event("Failed", a))
      PROVE  /\ eng' \in [Procs -> Processes] /\ stream' \in Streams
             /\ \A x \in Procs : eng'[x].op = eng[x].op
             /\ \A x \in Procs : Honest(eng'[x].latest)
             /\ \A i \in 1 .. Len(stream'.q) : Honest(stream'.q[i])
  <2>1. Event("Failed", a) \in Events /\ Honest(Event("Failed", a)) /\ eng[p] \in Processes
    BY <1>0, SMTT(20) DEF Event, Events, Kinds, Terminal, Honest, Ops
  <2>2. /\ eng' \in [Procs -> Processes] /\ stream' \in Streams
        /\ \A x \in Procs : eng'[x].op = IF x = p THEN eng[p].op ELSE eng[x].op
        /\ \A x \in Procs : Honest(eng'[x].latest)
        /\ \A i \in 1 .. Len(stream'.q) : Honest(stream'.q[i])
    BY <1>1, <2>1, PublishedHonestly, Zenon
  <2>. QED
    BY <2>2, Zenon
<1>2. ASSUME eng' = [eng EXCEPT ![p].op = a, ![p].up = FALSE], stream' = stream
      PROVE  /\ eng' \in [Procs -> Processes] /\ stream' \in Streams
             /\ \A x \in Procs : eng'[x].op = eng[x].op \/ (x = p /\ eng'[x].op = a)
             /\ \A x \in Procs : Honest(eng'[x].latest)
             /\ \A i \in 1 .. Len(stream'.q) : Honest(stream'.q[i])
  <2> DEFINE r == [eng[p] EXCEPT !.op = a, !.up = FALSE]
  <2>1. eng[p] \in Processes
    BY <1>0, Zenon
  <2>2. r \in Processes /\ r.op = a /\ r.latest = eng[p].latest
    BY <2>1, Zenon DEF Processes
  <2>3. eng' = [eng EXCEPT ![p] = r]
    BY <1>0, <1>2, Zenon
  <2> HIDE DEF r
  <2>4. eng' \in [Procs -> Processes] /\ \A x \in Procs : eng'[x] = IF x = p THEN r ELSE eng[x]
    BY <1>0, <2>2, <2>3, Zenon
  <2>5. ASSUME NEW x \in Procs
        PROVE  /\ eng'[x].op = eng[x].op \/ (x = p /\ eng'[x].op = a)
               /\ Honest(eng'[x].latest)
    BY <1>0, <2>2, <2>4, Zenon
  <2>. QED
    BY <1>0, <1>2, <2>4, <2>5, Zenon
<1>. QED
  BY <1>1, <1>2, Zenon DEF EngineApply

\* ApplyTunnel reaches the engine: its obligation was recorded by before_apply.
LEMMA ApplyInv ==
    ASSUME SessionConstants, Inv, NEW a \in Attempts, Apply(a)
    PROVE  Inv'
<1>0. /\ Types /\ Dispatches /\ Obligations /\ LocalStops /\ QuietStop
      /\ a \in Ops /\ a \notin Stops /\ a # None
  BY NoneIsNoRequest, Zenon DEF Inv, Ops, SessionConstants
<1>00. /\ lock \in LockStates /\ tgt[a] \in Gens /\ slot \in Slots
       /\ \A s \in Stops : cap[s] \in Attempts \cup {None}
       /\ sent \subseteq Attempts /\ disp.id \in Attempts \cup {None}
  BY <1>0, Zenon DEF Types, DispatchStates
<1> DEFINE p == slot.link[tgt[a]]
<1>1. /\ pc[a] = "apply" /\ p # None /\ EngineApply(p, a) /\ sent' = sent \cup {a}
      /\ UNCHANGED <<comp, disp, worker, slot, sup, fw, mon, tgt, cap, prov>>
  BY Zenon DEF Apply, Alive, ProcOf
<1>2. p \in Procs
  BY <1>00, <1>1, Zenon DEF Slots
<1> HIDE DEF p
<1>3. /\ eng' \in [Procs -> Processes] /\ stream' \in Streams
      /\ \A x \in Procs : eng'[x].op = eng[x].op \/ (x = p /\ eng'[x].op = a)
      /\ \A x \in Procs : Honest(eng'[x].latest)
      /\ \A i \in 1 .. Len(stream'.q) : Honest(stream'.q[i])
  BY <1>1, <1>2, EngineApplied, Zenon
<1>4. /\ \A l \in {"ok", "failing"} : /\ l \in AttemptLabels /\ l \in Done /\ l \notin Provisioning
                                      /\ l \notin Routing /\ l \notin {"idle", "apply", "err"}
      /\ "apply" \notin Provisioning /\ "apply" \in Holding
      /\ "failing" \in Holding /\ "ok" \notin Holding
      /\ "captured" \notin {"ok", "failing"} /\ "rebound" \notin {"ok", "failing"}
  BY Zenon DEF Holding, Routing, Provisioning, AttemptLabels, Done
<1>5. PICK l \in {"ok", "failing"} : Goto(a, l) /\ OwnLocks(a, l) /\ lock' \in LockStates
  <2>1. lock.route = a /\ lock.sup # a /\ \A x \in Attempts \ {a} : pc[x] # "apply"
    <3>1. \A x \in Attempts : lock.route = x <=> pc[x] \in Holding
      BY MoveContext, Zenon
    <3>2. lock.sup = a <=> pc[a] \in Provisioning
      BY MoveContext, Zenon
    <3>. QED
      BY <1>1, <1>4, <3>1, <3>2, Zenon
  <2>2. CASE Goto(a, "ok") /\ FreeBoth(a)
    <3>1. lock' = [lock EXCEPT !.route = None, !.engine[tgt[a]] = None]
      BY <2>2, Zenon DEF FreeBoth
    <3>2. lock' \in LockStates /\ lock'.route = None /\ lock'.sup = lock.sup
      BY <1>00, <3>1, Zenon DEF LockStates
    <3>3. \A x \in Attempts : x # None
      BY NoneIsNoRequest, Zenon
    <3>4. OwnLocks(a, "ok")
      BY <1>4, <2>1, <3>2, <3>3, Zenon DEF OwnLocks
    <3>. QED
      BY <2>2, <3>2, <3>4, Zenon
  <2>3. CASE Goto(a, "failing") /\ lock' = [lock EXCEPT !.engine[tgt[a]] = None]
    BY <1>1, <2>3, EngineFreed, Zenon
  <2>. QED
    BY <2>2, <2>3, Zenon DEF Apply
<1>6. Locks'
  <2>1. slot'.gen = slot.gen /\ slot'.link = slot.link /\ prov'.proc = prov.proc /\ UNCHANGED mon
    BY <1>1, Zenon
  <2>. QED
    BY <1>1, <1>4, <1>5, <2>1, LockMove, Zenon
<1>7. /\ pc'[a] = l /\ \A x \in Attempts \ {a} : pc'[x] = pc[x]
      /\ \A s \in Stops : pc'[s] = pc[s]
  BY <1>0, <1>5, AttemptMoved, Zenon
<1>8. /\ pc' \in [Ops -> AttemptLabels \cup StopLabels]
      /\ \A x \in Attempts : pc'[x] \in AttemptLabels
      /\ \A s \in Stops : pc'[s] \in StopLabels
  BY <1>0, <1>4, <1>5, MovedTypes, Zenon
<1>9. Types'
  <2>1. sent' \subseteq Attempts
    BY <1>00, <1>1, Zenon
  <2>. QED
    BY <1>0, <1>1, <1>3, <1>5, <1>8, <2>1, SMTT(20) DEF Types
<1>10. \A x \in Attempts : Unapplied(x) => Unapplied(x)'
  BY <1>1, <1>7, Zenon DEF Unapplied
<1>11. Dispatches'
  <2>1. \A x \in sent' : pc'[x] \in Done
    BY <1>0, <1>00, <1>1, <1>4, <1>5, <1>7, Zenon DEF Dispatches
  <2>2. \A x \in Attempts : pc'[x] = "idle" <=> pc[x] = "idle"
    BY <1>1, <1>4, <1>5, <1>7, Zenon
  <2>3. worker.pc \in {"taken", "armed"} => /\ worker.id # None /\ worker.origin # None
                                            /\ pc'[worker.id] = "idle"
    <3>1. worker.pc \in {"taken", "armed"} => worker.id \in Attempts
      BY <1>0, Zenon DEF Dispatches, Types, Workers, Attempts
    <3>. QED
      BY <1>0, <2>2, <3>1, Zenon DEF Dispatches
  <2>4. \A s \in Stops : cap[s] # None => pc'[cap[s]] # "idle"
    BY <1>0, <1>00, <2>2, Zenon DEF Dispatches
  <2>5. disp.id # None /\ pc'[disp.id] # "idle"
    BY <1>0, <1>00, <1>1, <2>2, Zenon DEF Dispatches
  <2>6. worker.pc = "running" => worker.id # None
    BY <1>0, Zenon DEF Dispatches
  <2>7. \A s \in Stops : pc'[s] # "idle" /\ cap[s] = disp.id /\ disp.id # None => disp.cancelled
    BY <1>0, <1>7, Zenon DEF Dispatches
  <2>. QED
    BY <1>1, <2>1, <2>3, <2>4, <2>5, <2>6, <2>7, Zenon DEF Dispatches
<1>12. Obligations'
  <2>1. \A x \in Attempts : pc'[x] = "apply" => pc[x] = "apply"
    BY <1>4, <1>5, <1>7, Zenon
  <2>2. \A x \in Attempts : Owes(x)' => Owes(x)
    BY <1>1, <1>3, <2>1, Zenon DEF Owes
  <2>3. ASSUME NEW q \in Procs, eng'[q].op # None
        PROVE  eng'[q].op \in sent' /\ slot.link[tgt[eng'[q].op]] = q
    <3>1. CASE eng'[q].op = eng[q].op
      BY <1>0, <1>1, <2>3, <3>1, Zenon DEF Obligations
    <3>2. CASE q = p /\ eng'[q].op = a
      BY <1>1, <3>2, Zenon DEF p
    <3>. QED
      BY <1>3, <3>1, <3>2, Zenon
  <2>4. \A x \in Attempts :
           /\ Owes(x)' => disp.stopReq
           /\ pc'[x] = "apply" /\ Since(slot, tgt[x]) => tgt[x] = slot.gen
    BY <1>0, <2>1, <2>2, Zenon DEF Obligations
  <2>5. \A s \in Stops, x \in Attempts : cap[s] = disp.id /\ Owes(x)' =>
              /\ pc'[s] \notin {"local", "finish"}
              /\ pc'[s] = "rpc" => tgt[x] <= tgt[s]
    BY <1>0, <1>7, <2>2, Zenon DEF Obligations
  <2>. QED
    BY <1>1, <2>3, <2>4, <2>5, Zenon DEF Obligations
<1>13. LocalStops'
  <2>1. \A x : Confirmed(x) => Confirmed(x)'
    BY <1>1, <1>7, Zenon DEF Confirmed
  <2>. QED
    BY <1>0, <1>00, <1>1, <1>7, <1>10, <2>1, Zenon DEF LocalStops, Cancelled
<1>14. QuietStop'
  <2>1. \A x \in Attempts : /\ pc'[x] \in Routing => pc[x] \in Routing
                            /\ pc'[x] \in {"captured", "rebound"} => pc[x] \in {"captured", "rebound"}
                            /\ pc[x] # "idle" => pc'[x] # "idle"
    BY <1>4, <1>5, <1>7, Zenon
  <2>2. comp.phase = "Stopping" => /\ disp.id = None \/ disp.cancelled
                                   /\ comp.op # None
                                   /\ comp.op \in Attempts => Unapplied(comp.op)'
    BY <1>0, <1>1, <1>10, Zenon DEF QuietStop
  <2>3. comp.phase = "Connecting" =>
          /\ comp.op \in Attempts
          /\ comp.op = disp.id \/ (Unapplied(comp.op)' /\ pc'[comp.op] # "idle")
          /\ \A x \in Attempts : pc'[x] \in Routing => Unapplied(comp.op)'
    BY <1>0, <1>1, <1>10, <2>1, Zenon DEF QuietStop
  <2>4. \A x \in Attempts :
          pc'[x] \in {"captured", "rebound"} /\ prov.op # None =>
              prov.op \in Attempts /\ Unapplied(prov.op)' /\ pc'[prov.op] # "idle"
    BY <1>0, <1>1, <1>10, <2>1, Zenon DEF QuietStop
  <2>5. /\ \A q \in Procs : eng'[q].latest.kind = "Connected" => eng'[q].latest.op \in sent'
        /\ \A i \in 1 .. Len(stream'.q) : stream'.q[i].kind = "Connected" => stream'.q[i].op \in sent'
    BY <1>1, <1>3, Zenon DEF Honest
  <2>. QED
    BY <1>1, <2>2, <2>3, <2>4, <2>5, Zenon DEF QuietStop
<1>. QED
  BY <1>6, <1>9, <1>11, <1>12, <1>13, <1>14, Zenon DEF Inv

-----------------------------------------------------------------------------
(* Stop requests *)

\* What any step of a stop leaves as it was.
LEMMA StopFrame ==
    ASSUME SessionConstants, Inv, NEW s \in Stops, NEW l \in StopLabels, Goto(s, l),
           pc[s] # "ok",
           UNCHANGED <<worker, slot, lock, sup, fw, mon, prov, sent>>,
           comp' \in Compositions, disp' \in DispatchStates, disp'.id = disp.id,
           cap' = cap \/ cap' = [cap EXCEPT ![s] = disp.id],
           disp.id # None /\ ~disp'.cancelled => ~disp.cancelled /\ cap' = cap /\ pc[s] # "idle",
           tgt' = tgt \/ tgt' = [tgt EXCEPT ![s] = slot.gen],
           eng' \in [Procs -> Processes], stream' \in Streams,
           \A x \in Procs : eng'[x].op \in {eng[x].op, None}
    PROVE  /\ Types' /\ Locks' /\ Dispatches'
           /\ pc'[s] = l /\ \A x \in Stops \ {s} : pc'[x] = pc[x]
           /\ \A a \in Attempts : pc'[a] = pc[a] /\ tgt'[a] = tgt[a]
           /\ \A x \in Stops \ {s} : cap'[x] = cap[x] /\ tgt'[x] = tgt[x]
           /\ \A x \in Attempts : Owes(x)' => Owes(x)
           /\ \A p \in Procs : eng'[p].op # None => /\ eng'[p].op \in sent
                                                    /\ slot.link[tgt'[eng'[p].op]] = p
           /\ \A x : Confirmed(x) => Confirmed(x)'
<1>0. /\ Types /\ Locks /\ Dispatches /\ Obligations
      /\ s \in Ops /\ s \notin Attempts
  BY Zenon DEF Inv, Ops, SessionConstants
<1>00. /\ tgt \in [Ops -> Gens] /\ cap \in [Stops -> Attempts \cup {None}] /\ slot.gen \in Gens
       /\ disp.id \in Attempts \cup {None} /\ sent \subseteq Attempts
  BY <1>0, Zenon DEF Types, Slots, DispatchStates
<1>1. /\ pc'[s] = l /\ \A x \in Stops \ {s} : pc'[x] = pc[x]
      /\ \A a \in Attempts : pc'[a] = pc[a]
  BY <1>0, StopMoved, Zenon
<1>2. /\ pc' \in [Ops -> AttemptLabels \cup StopLabels]
      /\ \A x \in Attempts : pc'[x] \in AttemptLabels
      /\ \A x \in Stops : pc'[x] \in StopLabels
  BY <1>0, MovedTypes, Zenon
<1>3. /\ tgt' \in [Ops -> Gens]
      /\ \A x \in Ops \ {s} : tgt'[x] = tgt[x]
      /\ tgt'[s] = tgt[s] \/ tgt'[s] = slot.gen
  BY <1>0, <1>00, Zenon
<1>4. /\ cap' \in [Stops -> Attempts \cup {None}]
      /\ \A x \in Stops \ {s} : cap'[x] = cap[x]
      /\ cap'[s] = cap[s] \/ cap'[s] = disp.id
  BY <1>00, Zenon
<1>5. Types'
  BY <1>0, <1>2, <1>3, <1>4, SMTT(20) DEF Types
<1>6. \A a \in Attempts : tgt'[a] = tgt[a]
  BY <1>0, <1>3, Zenon DEF Ops
<1>7. Locks'
  <2>1. \A o \in Ops : tgt'[o] <= slot.gen
    <3>1. \A o \in Ops : tgt[o] <= slot.gen
      BY <1>0, Zenon DEF Locks
    <3>2. slot.gen <= slot.gen
      BY <1>00, SMTT(20) DEF Gens
    <3>. QED
      BY <1>3, <3>1, <3>2, Zenon
  <2>2. /\ lock.sup = "monitor" <=> mon.pc # "watch"
        /\ lock.sup # None => /\ prov.proc \in Procs \ {Service}
                              /\ \A g \in Gens : slot.link[g] # prov.proc
        /\ lock.sup \in Attempts => slot.gen < MaxGen
    BY <1>0, SMTT(20) DEF Locks
  <2>3. ASSUME NEW a \in Attempts
        PROVE  /\ lock.route = a <=> pc'[a] \in Holding
               /\ lock.sup = a <=> pc'[a] \in Provisioning
               /\ pc'[a] = "apply" => lock.engine[tgt'[a]] = a
    <3>1. lock.route = a <=> pc[a] \in Holding
      BY <1>0, SMTT(20) DEF Locks
    <3>2. lock.sup = a <=> pc[a] \in Provisioning
      BY <1>0, SMTT(20) DEF Locks
    <3>3. pc[a] = "apply" => lock.engine[tgt[a]] = a
      BY <1>0, SMTT(20) DEF Locks
    <3>. QED
      BY <1>1, <1>6, <3>1, <3>2, <3>3, Zenon
  <2>. QED
    BY <2>1, <2>2, <2>3, Zenon DEF Locks
<1>8. Dispatches'
  <2>1. disp.id # None => pc'[disp.id] # "idle"
    BY <1>0, <1>00, <1>1, Zenon DEF Dispatches
  <2>2. \A x \in sent : pc'[x] \in Done
    BY <1>0, <1>00, <1>1, Zenon DEF Dispatches
  <2>3. disp.id = None => \A a \in Attempts : pc'[a] \in {"idle", "err"} /\ a \notin sent
    BY <1>0, <1>1, Zenon DEF Dispatches
  <2>4. worker.pc \in {"taken", "armed"} => /\ worker.id # None /\ worker.origin # None
                                            /\ pc'[worker.id] = "idle"
    <3>1. worker.pc \in {"taken", "armed"} => worker.id \in Attempts
      BY <1>0, Zenon DEF Dispatches, Types, Workers, Attempts
    <3>. QED
      BY <1>0, <1>1, <3>1, Zenon DEF Dispatches
  <2>5. worker.pc = "running" => worker.id # None
    BY <1>0, Zenon DEF Dispatches
  <2>6. \A x \in Stops : cap'[x] # None => pc'[cap'[x]] # "idle"
    <3>1. \A x \in Stops : cap[x] # None => pc'[cap[x]] # "idle"
      BY <1>0, <1>00, <1>1, Zenon DEF Dispatches
    <3>. QED
      BY <1>4, <2>1, <3>1, Zenon
  <2>7. ASSUME NEW x \in Stops, pc'[x] # "idle", cap'[x] = disp.id, disp.id # None
        PROVE  disp'.cancelled
    <3>1. pc[x] # "idle" /\ cap[x] = disp.id => disp.cancelled
      BY <1>0, <2>7, Zenon DEF Dispatches
    <3>2. CASE x # s
      BY <1>1, <1>4, <2>7, <3>1, <3>2, Zenon
    <3>3. CASE x = s
      BY <2>7, <3>1, <3>3, Zenon
    <3>. QED
      BY <3>2, <3>3, SMTT(20)
  <2>. QED
    BY <2>1, <2>2, <2>3, <2>4, <2>5, <2>6, <2>7, Zenon DEF Dispatches
<1>9. \A p \in Procs : eng'[p].op # None => eng'[p].op = eng[p].op
  BY Zenon
<1>10. \A x \in Attempts : Owes(x)' => Owes(x)
  <2>1. ASSUME NEW x \in Attempts, Owes(x)' PROVE Owes(x)
    <3>1. x # None
      BY NoneIsNoRequest, Zenon
    <3>2. Since(slot', tgt'[x]) /\ (pc'[x] = "apply" \/ \E p \in Procs : eng'[p].op = x)
      BY <2>1, Zenon DEF Owes
    <3>3. Since(slot, tgt[x])
      BY <1>6, <3>2, Zenon
    <3>4. pc[x] = "apply" \/ \E p \in Procs : eng[p].op = x
      BY <1>1, <1>9, <3>1, <3>2, Zenon
    <3>. QED
      BY <3>3, <3>4, Zenon DEF Owes
  <2>. QED
    BY <2>1, Zenon
<1>11. ASSUME NEW p \in Procs, eng'[p].op # None
       PROVE  eng'[p].op \in sent /\ slot.link[tgt'[eng'[p].op]] = p
  <2>1. /\ eng'[p].op = eng[p].op /\ eng[p].op \in sent /\ slot.link[tgt[eng[p].op]] = p
    BY <1>0, <1>9, <1>11, Zenon DEF Obligations
  <2>2. tgt'[eng[p].op] = tgt[eng[p].op]
    BY <1>00, <1>6, <2>1, Zenon
  <2>. QED
    BY <2>1, <2>2, Zenon
<1>12. \A x : Confirmed(x) => Confirmed(x)'
  BY <1>1, <1>4, Zenon DEF Confirmed
<1>13. \A x \in Stops \ {s} : tgt'[x] = tgt[x]
  BY <1>3, Zenon DEF Ops
<1>. QED
  BY <1>1, <1>4, <1>5, <1>6, <1>7, <1>8, <1>10, <1>11, <1>12, <1>13, Zenon

\* The steps that leave the dispatch and the captured dispatches alone.
LEMMA QuietStopStep ==
    ASSUME SessionConstants, Inv, NEW s \in Stops, NEW l \in StopLabels, Goto(s, l),
           l \notin {"local", "cancelled"}, pc[s] \notin {"idle", "ok"},
           UNCHANGED <<comp, disp, worker, slot, lock, sup, fw, mon, cap, prov, sent>>,
           tgt' = tgt \/ tgt' = [tgt EXCEPT ![s] = slot.gen],
           eng' \in [Procs -> Processes], stream' \in Streams,
           \A x \in Procs : eng'[x].op \in {eng[x].op, None},
           \A x \in Procs : Honest(eng'[x].latest),
           \A i \in 1 .. Len(stream'.q) : Honest(stream'.q[i]),
           \A x \in Attempts : cap[s] = disp.id /\ Owes(x)' =>
               /\ l # "finish"
               /\ l = "rpc" => tgt[x] <= tgt'[s]
    PROVE  Inv'
<1>0. /\ Obligations /\ LocalStops /\ QuietStop /\ comp \in Compositions /\ disp \in DispatchStates
      /\ \A x \in Stops : cap[x] \in Attempts \cup {None}
      /\ disp.id \in Attempts \cup {None}
  BY Zenon DEF Inv, Types, DispatchStates
<1>1. /\ Types' /\ Locks' /\ Dispatches'
      /\ pc'[s] = l /\ \A x \in Stops \ {s} : pc'[x] = pc[x]
      /\ \A a \in Attempts : pc'[a] = pc[a] /\ tgt'[a] = tgt[a]
      /\ \A x \in Stops \ {s} : tgt'[x] = tgt[x]
      /\ \A x \in Attempts : Owes(x)' => Owes(x)
      /\ \A p \in Procs : eng'[p].op # None => /\ eng'[p].op \in sent
                                               /\ slot.link[tgt'[eng'[p].op]] = p
      /\ \A x : Confirmed(x) => Confirmed(x)'
  BY <1>0, StopFrame, Zenon
<1>2. Obligations'
  <2>1. /\ \A a \in Attempts : Owes(a) => disp.stopReq
        /\ \A a \in Attempts : pc[a] = "apply" /\ Since(slot, tgt[a]) => tgt[a] = slot.gen
    BY <1>0, Zenon DEF Obligations
  <2>3. \A a \in Attempts : Owes(a)' => disp.stopReq
    BY <1>1, <2>1, Zenon
  <2>4. \A a \in Attempts : pc'[a] = "apply" /\ Since(slot, tgt'[a]) => tgt'[a] = slot.gen
    BY <1>1, <2>1, Zenon
  <2>2. ASSUME NEW x \in Stops, NEW a \in Attempts, cap[x] = disp.id, Owes(a)'
        PROVE  /\ pc'[x] \notin {"local", "finish"}
               /\ pc'[x] = "rpc" => tgt'[a] <= tgt'[x]
    <3>1. CASE x = s
      BY <1>1, <2>2, <3>1, Zenon
    <3>2. CASE x # s
      BY <1>0, <1>1, <2>2, <3>2, Zenon DEF Obligations
    <3>. QED
      BY <3>1, <3>2, SMTT(20)
  <2>. QED
    BY <1>1, <2>2, <2>3, <2>4, Zenon DEF Obligations
<1>3. \A x \in Attempts : Unapplied(x) <=> Unapplied(x)'
  BY <1>1, Zenon DEF Unapplied
<1>4. LocalStops'
  BY <1>0, <1>1, <1>3, Zenon DEF LocalStops, Cancelled
<1>5. QuietStop'
  BY <1>0, <1>1, <1>3, Zenon DEF QuietStop, Honest
<1>. QED
  BY <1>1, <1>2, <1>4, <1>5, Zenon DEF Inv

\* A stop takes the engine of the slot, or finds it unreachable.
LEMMA StopTargetInv ==
    ASSUME SessionConstants, Inv, NEW s \in Stops, StopTarget(s) \/ StopUnreachable(s)
    PROVE  Inv'
<1>0. /\ eng \in [Procs -> Processes] /\ stream \in Streams /\ tgt \in [Ops -> Gens]
      /\ \A x \in Procs : Honest(eng[x].latest)
      /\ \A x \in Procs : eng[x].op \in {eng[x].op, None}
      /\ \A i \in 1 .. Len(stream.q) : Honest(stream.q[i])
      /\ \A o \in Ops : tgt[o] <= slot.gen
      /\ s \in Ops /\ Attempts \subseteq Ops
      /\ "rpc" \in StopLabels /\ "err" \in StopLabels
  BY Zenon DEF Inv, Types, QuietStop, Honest, Locks, Ops, StopLabels
<1>1. ASSUME StopTarget(s) PROVE Inv'
  <2>1. /\ pc[s] = "target" /\ Goto(s, "rpc") /\ tgt' = [tgt EXCEPT ![s] = slot.gen]
        /\ UNCHANGED <<comp, disp, worker, slot, lock, sup, fw, mon, cap, prov, sent, eng, stream>>
    BY <1>1, Zenon DEF StopTarget
  <2>2. tgt'[s] = slot.gen
    BY <1>0, <2>1, Zenon
  <2>3. \A x \in Attempts : tgt[x] <= tgt'[s]
    BY <1>0, <2>2, Zenon
  <2>. QED
    BY <1>0, <2>1, <2>3, QuietStopStep, Zenon
<1>2. ASSUME StopUnreachable(s) PROVE Inv'
  <2>1. /\ pc[s] = "rpc" /\ Goto(s, "err")
        /\ UNCHANGED <<comp, disp, worker, slot, lock, sup, fw, mon, cap, prov, sent, eng, stream,
                       tgt>>
    BY <1>2, Zenon DEF StopUnreachable
  <2>. QED
    BY <1>0, <2>1, QuietStopStep, Zenon
<1>. QED
  BY <1>1, <1>2, Zenon

\* StopTunnel ends the work that the stop was for: whatever was passed on since
\* the process in the slot entered it is on the process the stop talks to.
LEMMA StopRpcInv ==
    ASSUME SessionConstants, Inv, NEW s \in Stops, StopRpc(s)
    PROVE  Inv'
<1>0. /\ Types /\ Locks /\ Obligations /\ s \in Ops /\ Attempts \subseteq Ops
      /\ slot \in Slots /\ eng \in [Procs -> Processes] /\ tgt \in [Ops -> Gens]
      /\ slot.gen \in Nat
  <2>1. Types /\ Locks /\ Obligations
    BY Zenon DEF Inv
  <2>2. slot.gen \in Nat
    BY <2>1, SMTT(20) DEF Types, Slots, Gens
  <2>. QED
    BY <2>1, <2>2, Zenon DEF Types, Ops
<1> DEFINE p == slot.link[tgt[s]]
           r == [eng[p] EXCEPT !.op = None, !.up = FALSE,
                               !.late = IF eng[p].op # None /\ ~eng[p].up THEN eng[p].op ELSE @]
<1>1. /\ pc[s] = "rpc" /\ lock.engine[tgt[s]] = None /\ p # None
      /\ PublishAs(p, r, Event("Stopped", s))
      /\ UNCHANGED <<comp, disp, worker, slot, lock, sup, fw, mon, cap, prov, sent, tgt>>
  BY Zenon DEF StopRpc, Alive, ProcOf
<1>2. p \in Procs
  BY <1>0, <1>1, Zenon DEF Slots
<1>3. r \in Processes /\ r.op = None /\ r.latest = eng[p].latest
  <2>1. eng[p] \in Processes
    BY <1>0, <1>2, Zenon
  <2>. QED
    BY <2>1, Zenon DEF Processes
<1>4. Event("Stopped", s) \in Events /\ Honest(Event("Stopped", s))
  BY <1>0, SMTT(20) DEF Event, Events, Kinds, Terminal, Honest
<1> HIDE DEF r
<1>5. /\ eng' \in [Procs -> Processes] /\ stream' \in Streams
      /\ \A x \in Procs : eng'[x].op = IF x = p THEN r.op ELSE eng[x].op
      /\ \A x \in Procs : Honest(eng'[x].latest)
      /\ \A i \in 1 .. Len(stream'.q) : Honest(stream'.q[i])
  BY <1>1, <1>2, <1>3, <1>4, PublishedHonestly, Zenon
<1>6. \A x \in Procs : /\ eng'[x].op \in {eng[x].op, None}
                       /\ eng'[x].op # None => x # p /\ eng'[x].op = eng[x].op
  BY <1>3, <1>5, Zenon
<1>7. \A x \in Attempts : cap[s] = disp.id => ~Owes(x)'
  <2> SUFFICES ASSUME NEW x \in Attempts, cap[s] = disp.id, Owes(x)' PROVE FALSE
    OBVIOUS
  <2>0. x # None /\ pc'[x] = pc[x]
    <3>1. \A l : Goto(s, l) => pc'[x] = pc[x]
      BY <1>0, StopMoved, Zenon
    <3>. QED
      BY <3>1, NoneIsNoRequest, Zenon DEF StopRpc
  <2>1. /\ Since(slot, tgt[x])
        /\ pc[x] = "apply" \/ \E q \in Procs : eng'[q].op = x
    BY <1>1, <2>0, Zenon DEF Owes
  <2>2. Owes(x)
    BY <1>6, <2>0, <2>1, Zenon DEF Owes
  <2>3. tgt[x] <= tgt[s] /\ tgt[s] <= slot.gen
    BY <1>0, <1>1, <2>2, Zenon DEF Obligations, Locks
  <2>4. tgt[x] \in Nat /\ tgt[s] \in Nat
    BY <1>0, SMTT(20) DEF Gens
  <2>5. CASE pc[x] = "apply"
    <3>1. tgt[x] = slot.gen /\ lock.engine[tgt[x]] = x
      BY <1>0, <2>1, <2>5, Zenon DEF Obligations, Locks
    <3>2. tgt[x] = tgt[s]
      BY <1>0, <2>3, <2>4, <3>1, SMTT(20)
    <3>. QED
      BY <1>1, <2>0, <3>1, <3>2, Zenon
  <2>6. CASE \E q \in Procs : eng'[q].op = x
    <3>1. PICK q \in Procs : eng'[q].op = x
      BY <2>6, SMTT(20)
    <3>2. q # p /\ eng[q].op = x
      BY <1>6, <2>0, <3>1, Zenon
    <3>3. slot.link[tgt[x]] = q
      BY <1>0, <2>0, <3>2, Zenon DEF Obligations
    <3>4. tgt[x] \in tgt[x] .. slot.gen /\ tgt[s] \in tgt[x] .. slot.gen
      BY <1>0, <2>3, <2>4, SMTT(20)
    <3>5. slot.link[tgt[x]] = slot.link[tgt[s]]
      BY <2>1, <3>4, Zenon DEF Since
    <3>. QED
      BY <3>2, <3>3, <3>5, Zenon
  <2>. QED
    BY <2>1, <2>5, <2>6, SMTT(20)
<1>8. PICK l \in {"finish", "err"} : Goto(s, l)
  BY Zenon DEF StopRpc
<1>9. l \in StopLabels /\ l \notin {"local", "cancelled", "rpc"}
  BY <1>8, Zenon DEF StopLabels
<1>. QED
  BY <1>1, <1>5, <1>6, <1>7, <1>8, <1>9, QuietStopStep, Zenon

\* A stop cancels the current dispatch, and asks no engine only when no
\* obligation is open.
LEMMA StopAcceptInv ==
    ASSUME SessionConstants, Inv, NEW s \in Stops, StopAccept(s)
    PROVE  Inv'
<1>0. /\ Obligations /\ LocalStops /\ QuietStop /\ s \in Ops /\ s # None /\ s \notin Attempts
  BY NoneIsNoRequest, Zenon DEF Inv, Ops, SessionConstants
<1>00. /\ comp \in Compositions /\ disp \in DispatchStates
       /\ eng \in [Procs -> Processes] /\ stream \in Streams
       /\ cap \in [Stops -> Attempts \cup {None}]
       /\ disp.id \in Attempts \cup {None}
       /\ \A x \in Procs : eng[x].op \in {eng[x].op, None}
  BY Zenon DEF Inv, Types, DispatchStates
<1>1. /\ pc[s] = "idle" /\ disp' = [disp EXCEPT !.cancelled = disp.id # None]
      /\ cap' = [cap EXCEPT ![s] = disp.id] /\ comp' = Disconnect(comp, s)
      /\ UNCHANGED <<worker, slot, lock, sup, fw, stream, eng, mon, tgt, prov, sent>>
  BY Zenon DEF StopAccept
<1>2. PICK l \in {"target", "local"} :
          Goto(s, l) /\ (l = "local" => disp.id # None /\ ~disp.stopReq)
  BY Zenon DEF StopAccept
<1>3. /\ disp' \in DispatchStates /\ disp'.id = disp.id /\ disp'.stopReq = disp.stopReq
      /\ disp.id # None => disp'.cancelled
      /\ disp.id = None \/ disp'.cancelled
  <2>1. (disp.id # None) \in BOOLEAN
    OBVIOUS
  <2>. QED
    BY <1>00, <1>1, <2>1, Zenon DEF DispatchStates
<1>4. comp' \in Compositions /\ comp'.phase = "Stopping" /\ comp'.op = s
  <2>1. Disconnect(comp, s) \in Compositions
    BY <1>0, <1>00, StopTypes, Zenon
  <2>2. Disconnect(comp, s).phase = "Stopping" /\ Disconnect(comp, s).op = s
    BY <1>00, SMTT(20) DEF Disconnect, Join, Sides, Compositions
  <2>. QED
    BY <1>1, <2>1, <2>2, Zenon
<1>6. /\ Types' /\ Locks' /\ Dispatches'
      /\ pc'[s] = l /\ \A x \in Stops \ {s} : pc'[x] = pc[x]
      /\ \A a \in Attempts : pc'[a] = pc[a]
      /\ \A x \in Stops \ {s} : cap'[x] = cap[x]
      /\ \A x \in Attempts : Owes(x)' => Owes(x)
      /\ \A p \in Procs : eng'[p].op # None => /\ eng'[p].op \in sent
                                               /\ slot.link[tgt'[eng'[p].op]] = p
      /\ \A x : Confirmed(x) => Confirmed(x)'
  <2>1. l \in StopLabels /\ pc[s] # "ok"
    BY <1>1, Zenon DEF StopLabels
  <2>2. /\ cap' = cap \/ cap' = [cap EXCEPT ![s] = disp.id]
        /\ tgt' = tgt /\ eng' \in [Procs -> Processes] /\ stream' \in Streams
        /\ \A x \in Procs : eng'[x].op \in {eng[x].op, None}
        /\ UNCHANGED <<worker, slot, lock, sup, fw, mon, prov, sent>>
    BY <1>00, <1>1, Zenon
  <2>3. disp' \in DispatchStates /\ disp'.id = disp.id /\ (disp.id # None => disp'.cancelled)
    BY <1>3, SMTT(20)
  <2>4. comp' \in Compositions /\ Goto(s, l)
    BY <1>2, <1>4, SMTT(20)
  <2>. QED
    BY <2>1, <2>2, <2>3, <2>4, StopFrame, Zenon
<1>7. cap'[s] = disp.id
  BY <1>00, <1>1, Zenon
<1>8. Obligations'
  <2>1. \A a \in Attempts : Owes(a)' => disp'.stopReq
    BY <1>0, <1>3, <1>6, Zenon DEF Obligations
  <2>2. \A a \in Attempts : pc'[a] = "apply" /\ Since(slot, tgt[a]) => tgt[a] = slot.gen
    BY <1>0, <1>6, Zenon DEF Obligations
  <2>3. ASSUME NEW x \in Stops, NEW a \in Attempts, cap'[x] = disp.id, Owes(a)'
        PROVE  /\ pc'[x] \notin {"local", "finish"}
               /\ pc'[x] = "rpc" => tgt[a] <= tgt[x]
    <3>1. CASE x = s
      BY <1>2, <1>3, <1>6, <2>1, <2>3, <3>1, Zenon
    <3>2. CASE x # s
      BY <1>0, <1>6, <2>3, <3>2, Zenon DEF Obligations
    <3>. QED
      BY <3>1, <3>2
  <2>. QED
    BY <1>1, <1>3, <1>6, <2>1, <2>2, <2>3, Zenon DEF Obligations
<1>9. \A x \in Attempts : Unapplied(x) <=> Unapplied(x)'
  BY <1>1, <1>6, Zenon DEF Unapplied
<1>10. LocalStops'
  <2>1. \A x \in Attempts : Cancelled(x)'
    BY <1>3, NoneIsNoRequest, Zenon DEF Cancelled
  <2>2. disp.id # None /\ ~disp.stopReq => Unapplied(disp.id) \/ Confirmed(disp.id)
    BY <1>0, Zenon DEF LocalStops
  <2>3. ASSUME NEW x \in Stops, pc'[x] \in {"local", "cancelled"}, cap'[x] # None
        PROVE  cap'[x] \in Attempts /\ (Unapplied(cap'[x]) \/ Confirmed(cap'[x]))
    <3>1. CASE x = s
      BY <1>00, <1>2, <1>6, <1>7, <2>2, <2>3, <3>1, Zenon
    <3>2. CASE x # s
      BY <1>0, <1>00, <1>6, <2>3, <3>2, Zenon DEF LocalStops
    <3>. QED
      BY <3>1, <3>2, SMTT(20)
  <2>4. ASSUME NEW x \in Stops, pc'[x] \in {"local", "cancelled"}, cap'[x] # None
        PROVE  (Unapplied(cap[x])' /\ Cancelled(cap[x])') \/ Confirmed(cap[x])'
    <3>1. cap'[x] \in Attempts /\ (Unapplied(cap'[x]) \/ Confirmed(cap'[x]))
      BY <2>3, <2>4, SMTT(20)
    <3>. QED
      BY <1>6, <1>9, <2>1, <3>1, Zenon
  <2>5. disp'.id # None /\ ~disp'.stopReq => Unapplied(disp.id)' \/ Confirmed(disp.id)'
    BY <1>00, <1>3, <1>6, <1>9, <2>2, Zenon
  <2>. QED
    BY <2>4, <2>5, Zenon DEF LocalStops
<1>11. QuietStop'
  <2>1. comp'.phase = "Stopping" /\ comp'.op # None /\ comp'.op \notin Attempts
    BY <1>0, <1>4, Zenon
  <2>2. \A a \in Attempts :
          pc'[a] \in {"captured", "rebound"} /\ prov.op # None =>
              prov.op \in Attempts /\ Unapplied(prov.op)' /\ pc'[prov.op] # "idle"
    BY <1>0, <1>1, <1>6, <1>9, Zenon DEF QuietStop
  <2>3. /\ \A p \in Procs : eng[p].latest.kind = "Connected" => eng[p].latest.op \in sent
        /\ \A i \in 1 .. Len(stream.q) : stream.q[i].kind = "Connected" => stream.q[i].op \in sent
    BY <1>0, Zenon DEF QuietStop
  <2>. QED
    BY <1>1, <1>3, <2>1, <2>2, <2>3, Zenon DEF QuietStop
<1>. QED
  BY <1>6, <1>8, <1>10, <1>11, Zenon DEF Inv

\* finish_local_stop: the obligation ends when the engine confirmed, or when
\* there was none.
LEMMA StopFinishInv ==
    ASSUME SessionConstants, Inv, NEW s \in Stops, StopFinish(s)
    PROVE  Inv'
<1>0. Obligations /\ LocalStops /\ QuietStop
  BY Zenon DEF Inv
<1>00. /\ comp \in Compositions /\ disp \in DispatchStates
       /\ eng \in [Procs -> Processes] /\ stream \in Streams
       /\ \A x \in Stops : cap[x] \in Attempts \cup {None}
       /\ disp.id \in Attempts \cup {None}
       /\ \A x \in Procs : eng[x].op \in {eng[x].op, None}
  BY Zenon DEF Inv, Types, DispatchStates
<1>1. /\ pc[s] \in {"local", "finish"}
      /\ UNCHANGED <<worker, slot, lock, sup, fw, stream, eng, mon, tgt, cap, prov, sent>>
      /\ IF disp.id = cap[s]
         THEN /\ disp' = [disp EXCEPT !.stopReq = FALSE]
              /\ comp' = Reopen(SynthesizeDataJoin(comp))
         ELSE UNCHANGED <<disp, comp>>
  BY Zenon DEF StopFinish
<1>2. PICK l \in {"cancelled", "ok"} :
          Goto(s, l) /\ (pc[s] = "local" => l = "cancelled") /\ (pc[s] = "finish" => l = "ok")
  BY <1>1, Zenon DEF StopFinish
<1>3. /\ disp' \in DispatchStates /\ disp'.id = disp.id /\ disp'.cancelled = disp.cancelled
      /\ disp.id = cap[s] \/ disp'.stopReq = disp.stopReq
  BY <1>00, <1>1, Zenon DEF DispatchStates
<1>4. Calm(comp, comp')
  BY <1>00, <1>1, CalmOperations, CalmReopen, Zenon
<1>5. /\ Types' /\ Locks' /\ Dispatches'
      /\ pc'[s] = l /\ \A x \in Stops \ {s} : pc'[x] = pc[x]
      /\ \A a \in Attempts : pc'[a] = pc[a]
      /\ \A x \in Attempts : Owes(x)' => Owes(x)
      /\ \A x : Confirmed(x) => Confirmed(x)'
  <2>1. l \in StopLabels /\ pc[s] \notin {"ok", "idle"} /\ comp' \in Compositions
    BY <1>1, <1>4, Zenon DEF StopLabels, Calm
  <2>. QED
    BY <1>00, <1>1, <1>2, <1>3, <2>1, StopFrame, Zenon
<1>6. disp.id = cap[s] => \A x \in Attempts : ~Owes(x)
  BY <1>0, <1>1, Zenon DEF Obligations
<1>7. Obligations'
  <2>1. \A a \in Attempts : Owes(a)' => disp'.stopReq
    BY <1>0, <1>3, <1>5, <1>6, Zenon DEF Obligations
  <2>2. \A a \in Attempts : pc'[a] = "apply" /\ Since(slot, tgt[a]) => tgt[a] = slot.gen
    BY <1>0, <1>5, Zenon DEF Obligations
  <2>3. ASSUME NEW x \in Stops, NEW a \in Attempts, cap[x] = disp.id, Owes(a)'
        PROVE  /\ pc'[x] \notin {"local", "finish"}
               /\ pc'[x] = "rpc" => tgt[a] <= tgt[x]
    <3>1. CASE x = s
      BY <1>5, <1>6, <2>3, <3>1, Zenon
    <3>2. CASE x # s
      BY <1>0, <1>5, <2>3, <3>2, Zenon DEF Obligations
    <3>. QED
      BY <3>1, <3>2, SMTT(20)
  <2>4. \A p \in Procs : eng[p].op # None => eng[p].op \in sent /\ slot.link[tgt[eng[p].op]] = p
    BY <1>0, Zenon DEF Obligations
  <2>. QED
    BY <1>1, <1>3, <2>1, <2>2, <2>3, <2>4, Zenon DEF Obligations
<1>8. \A x \in Attempts : Unapplied(x) <=> Unapplied(x)'
  BY <1>1, <1>5, Zenon DEF Unapplied
<1>9. \A x : Cancelled(x) <=> Cancelled(x)'
  BY <1>3, Zenon DEF Cancelled
<1>10. LocalStops'
  <2>1. ASSUME NEW x \in Stops, pc'[x] \in {"local", "cancelled"}, cap[x] # None
        PROVE  /\ cap[x] \in Attempts
               /\ (Unapplied(cap[x]) /\ Cancelled(cap[x])) \/ Confirmed(cap[x])
    <3>1. pc[x] \in {"local", "cancelled"}
      <4>1. CASE x = s
        BY <1>1, <1>2, <1>5, <2>1, <4>1, Zenon
      <4>2. CASE x # s
        BY <1>5, <2>1, <4>2, Zenon
      <4>. QED
        BY <4>1, <4>2, SMTT(20)
    <3>. QED
      BY <1>0, <1>00, <2>1, <3>1, Zenon DEF LocalStops
  <2>2. ASSUME disp.id # None, ~disp'.stopReq
        PROVE  Unapplied(disp.id) \/ Confirmed(disp.id) \/ (pc'[s] = "ok" /\ cap[s] = disp.id)
    <3>1. CASE disp.id # cap[s]
      BY <1>0, <1>3, <2>2, <3>1, Zenon DEF LocalStops
    <3>2. CASE disp.id = cap[s] /\ pc[s] = "local"
      BY <1>0, <2>2, <3>2, Zenon DEF LocalStops
    <3>3. CASE disp.id = cap[s] /\ pc[s] = "finish"
      BY <1>2, <1>5, <3>3, Zenon
    <3>. QED
      BY <1>1, <3>1, <3>2, <3>3, Zenon
  <2>3. pc'[s] = "ok" => Confirmed(cap[s])'
    BY <1>1, Zenon DEF Confirmed
  <2>4. disp'.id # None /\ ~disp'.stopReq => Unapplied(disp.id)' \/ Confirmed(disp.id)'
    BY <1>00, <1>1, <1>3, <1>5, <1>8, <2>2, <2>3, Zenon
  <2>. QED
    BY <1>1, <1>5, <1>8, <1>9, <2>1, <2>4, Zenon DEF LocalStops
<1>11. QuietStop'
  <2>1. comp'.phase \in {"Stopping", "Connecting"} => comp'.phase = comp.phase /\ comp'.op = comp.op
    BY <1>4, Zenon DEF Calm
  <2>. QED
    BY <1>0, <1>1, <1>3, <1>5, <1>8, <2>1, Zenon DEF QuietStop
<1>. QED
  BY <1>5, <1>7, <1>10, <1>11, Zenon DEF Inv

-----------------------------------------------------------------------------
(* The invariant holds *)

\* A core that has just started.
LEMMA InitInv ==
    ASSUME SessionConstants, Init PROVE Inv
<1>1. /\ 0 \in Gens /\ Fresh \in Compositions /\ NoStream \in Streams /\ Len(NoStream.q) = 0
      /\ Process(FALSE) \in Processes /\ Process(FALSE).op = None /\ Honest(Process(FALSE).latest)
      /\ 0 <= 0 /\ None # "monitor" /\ None \notin Attempts /\ 1 .. 0 = {}
  <2>1. 0 \in Gens /\ 0 <= 0 /\ 1 .. 0 = {}
    BY SMTT(20) DEF Gens, SessionConstants
  <2>2. None # "monitor" /\ None \notin Attempts
    BY NoneIsNoRequest, Zenon DEF SessionConstants
  <2>. QED
    BY <2>1, <2>2, FreshType, NoStreamType, ProcessTypes, Zenon
<1>2. /\ comp = Fresh /\ disp = NoDispatch /\ stream = NoStream /\ sup = None /\ sent = {}
      /\ worker = [pc |-> "idle", origin |-> None, id |-> None]
      /\ slot = [gen |-> 0, link |-> [g \in Gens |-> None], mode |-> "auto", form |-> "auto"]
      /\ lock = [route |-> None, sup |-> None, engine |-> [g \in Gens |-> None]]
      /\ fw = [pc |-> "begin", gen |-> 0]
      /\ eng = [p \in Procs |-> Process(FALSE)]
      /\ mon = [pc |-> "watch", watch |-> None, seen |-> 0]
      /\ pc = [o \in Ops |-> "idle"] /\ tgt = [o \in Ops |-> 0] /\ cap = [s \in Stops |-> None]
      /\ prov = [proc |-> None, op |-> None]
  BY Zenon DEF Init
<1>3. /\ "idle" \in AttemptLabels /\ "idle" \in StopLabels /\ "idle" \notin Holding
      /\ "idle" \notin Provisioning /\ "idle" \notin Routing
  BY Zenon DEF Holding, Routing, Provisioning, AttemptLabels, StopLabels
<1>4. \A o \in Ops : pc[o] = "idle" /\ tgt[o] = 0
  BY <1>2, Zenon
<1>5. /\ \A a \in Attempts : pc[a] = "idle" /\ tgt[a] = 0
      /\ \A s \in Stops : pc[s] = "idle" /\ cap[s] = None
  BY <1>2, <1>4, Zenon DEF Ops
<1>6. \A p \in Procs : eng[p] = Process(FALSE)
  BY <1>2, Zenon
<1>7. Types
  <2>1. comp \in Compositions /\ disp \in DispatchStates /\ worker \in Workers
    BY <1>1, <1>2, Zenon DEF DispatchStates, Workers, NoDispatch
  <2>2. slot \in Slots /\ lock \in LockStates /\ sup \in Procs \cup {None} /\ mon \in Monitors
    BY <1>1, <1>2, Zenon DEF Slots, LockStates, Monitors
  <2>3. prov \in Provisions /\ fw \in Forwarders /\ stream \in Streams
    BY <1>1, <1>2, Zenon DEF Provisions, Forwarders
  <2>4. eng \in [Procs -> Processes] /\ tgt \in [Ops -> Gens]
        /\ cap \in [Stops -> Attempts \cup {None}] /\ sent \subseteq Attempts
    BY <1>1, <1>2, Zenon
  <2>5. pc \in [Ops -> AttemptLabels \cup StopLabels]
    BY <1>2, <1>3, Zenon
  <2>. QED
    BY <1>3, <1>5, <2>1, <2>2, <2>3, <2>4, <2>5, Zenon DEF Types
<1>8. Locks
  <2>1. lock.sup = None /\ lock.route = None /\ mon.pc = "watch" /\ slot.gen = 0
    BY <1>2, Zenon
  <2>. QED
    BY <1>1, <1>3, <1>4, <1>5, <2>1, Zenon DEF Locks
<1>9. disp.id = None /\ worker.pc = "idle" /\ comp.phase = "Idle" /\ stream.q = <<>>
  BY <1>2, Zenon DEF NoDispatch, Fresh, NoStream
<1>10. Dispatches
  BY <1>2, <1>5, <1>9, Zenon DEF Dispatches
<1>11. Obligations
  <2>1. \A a \in Attempts : ~Owes(a)
    BY <1>1, <1>5, <1>6, Zenon DEF Owes
  <2>. QED
    BY <1>1, <1>5, <1>6, <2>1, Zenon DEF Obligations
<1>12. LocalStops
  BY <1>5, <1>9, Zenon DEF LocalStops
<1>13. QuietStop
  <2>1. \A p \in Procs : eng[p].latest.kind = "Connected" => eng[p].latest.op \in sent
    BY <1>1, <1>6, Zenon DEF Honest
  <2>2. 1 .. Len(stream.q) = {}
    BY <1>1, <1>2, Zenon
  <2>. QED
    BY <1>5, <1>9, <2>1, <2>2, Zenon DEF QuietStop
<1>. QED
  BY <1>7, <1>8, <1>10, <1>11, <1>12, <1>13, Zenon DEF Inv

\* Nothing happens.
LEMMA StutterInv ==
    ASSUME Inv, UNCHANGED vars PROVE Inv'
<1>1. UNCHANGED <<comp, disp, worker, slot, lock, sup, fw, stream, eng, mon, pc, tgt, cap,
                  prov, sent>>
  BY Zenon DEF vars
<1>2. worker \in Workers
  BY Zenon DEF Inv, Types
<1>3. /\ worker.pc \in {"taken", "armed"} => /\ worker.id # None /\ worker.origin # None
                                             /\ pc[worker.id] = "idle"
      /\ worker.pc = "running" => worker.id # None
  BY Zenon DEF Inv, Dispatches
<1>. QED
  BY <1>1, <1>2, <1>3, WorkerMoves, Zenon

\* One lemma for each kind of step, put together.
LEMMA StepInv ==
    ASSUME SessionConstants, Inv, [Next]_vars PROVE Inv'
<1>1. ASSUME NEW a \in Connects, Connect(a) \/ ConnectRefused(a) PROVE Inv'
  <2>1. a \in Attempts
    BY Zenon DEF Attempts
  <2>. QED
    BY <1>1, <2>1, AdmittedInv, PlainMoves, Zenon
<1>2. ASSUME NEW a \in Attempts, AttemptStep(a) PROVE Inv'
  <2>1. CASE \/ ConnectCancelled(a) \/ RouteLock(a) \/ RouteFails(a)
             \/ \E form \in Forms : RouteReuse(a, form)
             \/ RouteTarget(a) \/ GateFails(a) \/ ApplyUnreachable(a) \/ ReportFailure(a)
    BY <2>1, PlainMoves, Zenon
  <2>2. CASE ProvisionCapture(a) \/ ProvisionRebind(a) \/ ProvisionRestore(a)
    BY <2>2, ProvisioningInv, Zenon
  <2>3. CASE RouteDial(a)
    BY <2>3, RouteDialInv, Zenon
  <2>4. CASE Provision(a)
    BY <2>4, ProvisionInv, Zenon
  <2>5. CASE ProvisionFails(a)
    BY <2>5, ProvisionFailsInv, Zenon
  <2>6. CASE ProvisionSwap(a)
    BY <2>6, ProvisionSwapInv, Zenon
  <2>7. CASE BeforeApply(a)
    BY <2>7, BeforeApplyInv, Zenon
  <2>8. CASE Apply(a)
    BY <2>8, ApplyInv, Zenon
  <2>. QED
    BY <1>2, <2>1, <2>2, <2>3, <2>4, <2>5, <2>6, <2>7, <2>8, Zenon DEF AttemptStep
<1>3. ASSUME NEW s \in Stops, StopAccept(s) \/ StopStep(s) PROVE Inv'
  BY <1>3, StopAcceptInv, StopTargetInv, StopRpcInv, StopFinishInv, Zenon DEF StopStep
<1>4. ASSUME NEW p \in Procs, EngineStep(p) \/ EngineDrops(p) \/ EngineCrashes(p) PROVE Inv'
  BY <1>4, EngineStepInv, Zenon
<1>5. ASSUME WorkerStep PROVE Inv'
  BY <1>5, WorkerStepInv, AdmittedInv, LoopStepInv, Zenon DEF WorkerStep
<1>6. ASSUME MonitorStep PROVE Inv'
  BY <1>6, LoopStepInv, RespawnInv, RespawnSwapInv, Zenon DEF MonitorStep
<1>7. ASSUME ServiceRestarts \/ StreamBreaks \/ ForwarderStep \/ SnapshotFindsNoSession PROVE Inv'
  BY <1>7, LoopStepInv, Zenon
<1>8. CASE UNCHANGED vars
  BY <1>8, StutterInv, Zenon
<1>9. CASE Next
  BY <1>1, <1>2, <1>3, <1>4, <1>5, <1>6, <1>7, <1>9, Zenon DEF Next
<1>. QED
  BY <1>8, <1>9, Zenon

-----------------------------------------------------------------------------
(* The theorems *)

\* The inductive invariant: types, locks, dispatches and the three arguments.
THEOREM SessionInvariant ==
    ASSUME SessionConstants PROVE Spec => []Inv
<1>1. Init => Inv
  BY InitInv, Zenon
<1>2. Inv /\ [Next]_vars => Inv'
  BY StepInv, Zenon
<1>. QED
  BY <1>1, <1>2, PTL DEF Spec

\* A stop reaches what it has to stop: while the engine in the slot holds work
\* that was applied to it since it entered the slot, stop_required is set, so
\* that the next Stop goes to the engine (connect_dispatch, before_apply and
\* finish_local_stop).
THEOREM StopObligation ==
    ASSUME SessionConstants PROVE Spec => []ObligationKept
<1>1. Inv => ObligationKept
  <2> SUFFICES ASSUME Inv, Alive(slot.gen), eng[ProcOf(slot.gen)].op # None,
                      InSlotSince(tgt[eng[ProcOf(slot.gen)].op])
               PROVE  disp.stopReq
    BY Zenon DEF ObligationKept
  <2> DEFINE p == ProcOf(slot.gen)
             a == eng[p].op
  <2>1. Obligations /\ slot \in Slots /\ sent \subseteq Attempts
    BY Zenon DEF Inv, Types
  <2>2. p \in Procs
    BY <2>1, Zenon DEF Alive, ProcOf, Slots
  <2>3. a \in Attempts
    BY <2>1, <2>2, Zenon DEF Obligations
  <2>4. Since(slot, tgt[a])
    BY Zenon DEF InSlotSince, Since, ProcOf
  <2>5. Owes(a)
    BY <2>2, <2>4, Zenon DEF Owes
  <2> HIDE DEF a
  <2>. QED
    BY <2>1, <2>3, <2>5, Zenon DEF Obligations
<1>. QED
  BY <1>1, SessionInvariant, PTL

\* A Stop that returned without asking the engine is right for ever: the
\* attempt that it cancelled never reaches an engine, or an earlier Stop of
\* that attempt was confirmed.
THEOREM LocalStopIsSound ==
    ASSUME SessionConstants PROVE Spec => []LocalStopSound
<1>1. Inv => LocalStopSound
  BY Zenon DEF Inv, LocalStops, LocalStopSound, Confirmed
<1>. QED
  BY <1>1, SessionInvariant, PTL

\* Composition d follows c without leaving Stopping for anything but its end.
Obeys(c, d) == c.phase = "Stopping" => d.phase \in {"Stopping", "Stopped", "Idle"}

\* The operations of the host composition on a stop in progress.
LEMMA ObeyingOperations ==
    ASSUME NEW c \in Compositions, NEW op
    PROVE  /\ Obeys(c, c) /\ Obeys(c, Fresh) /\ Obeys(c, Connecting(c, op))
           /\ Obeys(c, Disconnect(c, op)) /\ Obeys(c, ConnectFailed(c))
           /\ Obeys(c, ConnectionLost(c)) /\ Obeys(c, LinkTerminal(c))
           /\ Obeys(c, SynthesizeDataJoin(c)) /\ Obeys(c, Reopen(SynthesizeDataJoin(c)))
           /\ Obeys(c, Reopen(Join(c, "data")))
<1>1. /\ Obeys(c, c) /\ Obeys(c, Fresh)
  BY Zenon DEF Obeys, Fresh
<1>2. Obeys(c, Connecting(c, op))
  BY Zenon DEF Obeys, Connecting, Admits, Compositions
<1>3. Obeys(c, Disconnect(c, op))
  <2> DEFINE d == [c EXCEPT !.phase = "Stopping", !.open = FALSE, !.joined = {}, !.op = op]
  <2>1. d.phase = "Stopping"
    BY Zenon DEF Compositions
  <2>2. Join(d, "control").phase \in {d.phase, "Stopped"}
    BY SMTT(20) DEF Join, Compositions
  <2>. QED
    BY <2>1, <2>2, Zenon DEF Obeys, Disconnect
<1>4. Obeys(c, ConnectFailed(c)) /\ Obeys(c, ConnectionLost(c)) /\ Obeys(c, LinkTerminal(c))
  BY Zenon DEF Obeys, ConnectFailed, ConnectionLost, LinkTerminal, Compositions
<1>5. Obeys(c, Join(c, "data")) /\ Join(c, "data") \in Compositions
  BY CompositionTypes, Zenon DEF Obeys, Join, Compositions, Sides
<1>6. Obeys(c, Reopen(Join(c, "data")))
  BY <1>5, Zenon DEF Obeys, Reopen, Compositions
<1>7. Obeys(c, SynthesizeDataJoin(c))
  BY <1>1, <1>5, Zenon DEF SynthesizeDataJoin
<1>8. Obeys(c, Reopen(SynthesizeDataJoin(c)))
  BY <1>6, Zenon DEF SynthesizeDataJoin, Obeys
<1>. QED
  BY <1>1, <1>2, <1>3, <1>4, <1>6, <1>7, <1>8, Zenon

\* Only a Connected of the operation that is being stopped could undo a stop.
LEMMA ObeyingHandle ==
    ASSUME NEW c \in Compositions, NEW e,
           c.phase = "Stopping" /\ e.kind = "Connected" => Stale(c, e)
    PROVE  Obeys(c, Handle(c, e))
<1>1. CASE Ignored(c, e)
  BY <1>1, ObeyingOperations, Zenon DEF Handle
<1>2. CASE ~Ignored(c, e) /\ e.kind = "Connected"
  BY <1>2, Zenon DEF Obeys, Ignored
<1>3. CASE ~Ignored(c, e) /\ e.kind = "Stopped"
  <2>1. Handle(c, e) = Reopen(Join(c, "data"))
    BY <1>3, Zenon DEF Handle
  <2>. QED
    BY <2>1, ObeyingOperations, Zenon
<1>4. CASE ~Ignored(c, e) /\ e.kind \notin {"Connected", "Stopped"}
  <2>1. Handle(c, e) = ConnectionLost(c) \/ Handle(c, e) = ConnectFailed(c)
    BY <1>4, Zenon DEF Handle
  <2>. QED
    BY <2>1, ObeyingOperations, Zenon
<1>. QED
  BY <1>1, <1>2, <1>3, <1>4, SMTT(20)

\* What an event of the status stream may do to a stop in progress.
LEMMA ForwardedEventObeys ==
    ASSUME Inv, ForwarderEvent PROVE Obeys(comp, comp')
<1>1. /\ comp \in Compositions /\ stream.q \in Seq(Events) /\ stream.q # <<>>
      /\ sent \subseteq Attempts /\ QuietStop
  BY Zenon DEF Inv, Types, Streams, ForwarderEvent
<1> DEFINE h == Head(stream.q)
           e == Normalize(comp, h)
<1>2. comp' = Handle(comp, e)
  BY Zenon DEF ForwarderEvent
<1>3. h = stream.q[1] /\ 1 \in 1 .. Len(stream.q)
  BY <1>1, SMTT(20)
<1>4. h.kind = "Connected" => h.op \in sent
  BY <1>1, <1>3, Zenon DEF QuietStop
<1>5. comp.phase = "Stopping" => e = h
  BY Zenon DEF Normalize
<1>6. ASSUME comp.phase = "Stopping", e.kind = "Connected" PROVE Stale(comp, e)
  <2>1. e.op \in sent /\ e.op \in Attempts
    BY <1>1, <1>4, <1>5, <1>6, Zenon
  <2>2. comp.op # None /\ (comp.op \in Attempts => comp.op \notin sent)
    BY <1>1, <1>6, Zenon DEF QuietStop, Unapplied
  <2>. QED
    BY <2>1, <2>2, Zenon DEF Stale
<1> HIDE DEF e
<1>. QED
  BY <1>1, <1>2, <1>6, ObeyingHandle, Zenon

\* No step undoes a stop in progress.
LEMMA StepObeys ==
    ASSUME Inv, [Next]_vars PROVE Obeys(comp, comp')
<1>0. comp \in Compositions
  BY Zenon DEF Inv, Types
<1>1. ASSUME comp' = comp PROVE Obeys(comp, comp')
  BY <1>0, <1>1, ObeyingOperations, Zenon
<1>2. ASSUME NEW a, Admitted(a) PROVE Obeys(comp, comp')
  BY <1>2, Zenon DEF Admitted, Admits, Obeys
<1>3. ASSUME NEW a \in Connects, Connect(a) \/ ConnectRefused(a) PROVE Obeys(comp, comp')
  BY <1>1, <1>2, <1>3, Zenon DEF Connect, ConnectRefused
<1>4. ASSUME NEW a \in Attempts, AttemptStep(a) PROVE Obeys(comp, comp')
  <2>1. CASE \/ ConnectCancelled(a) \/ RouteLock(a) \/ RouteDial(a) \/ RouteFails(a)
             \/ \E form \in Forms : RouteReuse(a, form)
    BY <1>1, <2>1, Zenon DEF ConnectCancelled, RouteLock, RouteDial, RouteFails, RouteReuse
  <2>2. CASE Provision(a) \/ ProvisionFails(a) \/ ProvisionCapture(a) \/ ProvisionSwap(a)
    BY <1>1, <2>2, Zenon DEF Provision, ProvisionFails, ProvisionCapture, ProvisionSwap
  <2>3. CASE ProvisionRebind(a)
    BY <1>0, <2>3, ObeyingOperations, Zenon DEF ProvisionRebind
  <2>4. CASE ProvisionRestore(a)
    BY <1>0, <2>4, ObeyingOperations, Zenon DEF ProvisionRestore
  <2>5. CASE RouteTarget(a) \/ GateFails(a) \/ BeforeApply(a) \/ Apply(a) \/ ApplyUnreachable(a)
    BY <1>1, <2>5, Zenon DEF RouteTarget, GateFails, BeforeApply, Apply, ApplyUnreachable
  <2>6. CASE ReportFailure(a)
    BY <1>0, <2>6, ObeyingOperations, Zenon DEF ReportFailure
  <2>. QED
    BY <1>4, <2>1, <2>2, <2>3, <2>4, <2>5, <2>6, Zenon DEF AttemptStep
<1>5. ASSUME NEW s \in Stops, StopAccept(s) \/ StopStep(s) PROVE Obeys(comp, comp')
  <2>1. CASE StopAccept(s)
    BY <1>0, <2>1, ObeyingOperations, Zenon DEF StopAccept
  <2>2. CASE StopTarget(s) \/ StopRpc(s) \/ StopUnreachable(s)
    BY <1>1, <2>2, Zenon DEF StopTarget, StopRpc, StopUnreachable
  <2>3. CASE StopFinish(s)
    <3>1. comp' = comp \/ comp' = Reopen(SynthesizeDataJoin(comp))
      BY <2>3, Zenon DEF StopFinish
    <3>. QED
      BY <1>0, <3>1, ObeyingOperations, Zenon
  <2>. QED
    BY <1>5, <2>1, <2>2, <2>3, Zenon DEF StopStep
<1>6. ASSUME NEW p \in Procs, EngineStep(p) \/ EngineDrops(p) \/ EngineCrashes(p)
      PROVE  Obeys(comp, comp')
  BY <1>1, <1>6, Zenon DEF EngineStep, EngineUp, EngineFails, EngineCancelled, EngineDrops,
     EngineCrashes
<1>7. ASSUME WorkerStep PROVE Obeys(comp, comp')
  BY <1>1, <1>2, <1>7, Zenon DEF WorkerStep, WorkerSkips, WorkerArms, WorkerConnects,
     WorkerSuperseded, WorkerRefused, WorkerReturns, WorkerTakes
<1>8. ASSUME ForwarderStep PROVE Obeys(comp, comp')
  <2>1. CASE ForwarderBegins \/ ForwarderAttaches \/ ForwarderSwapped
    BY <1>1, <2>1, Zenon DEF ForwarderBegins, ForwarderAttaches, ForwarderSwapped
  <2>2. CASE ForwarderRefused \/ ForwarderEof
    BY <1>0, <2>2, ObeyingOperations, Zenon DEF ForwarderRefused, ForwarderEof, ForwarderRetries
  <2>3. CASE ForwarderEvent
    BY <2>3, ForwardedEventObeys, Zenon
  <2>. QED
    BY <1>8, <2>1, <2>2, <2>3, Zenon DEF ForwarderStep
<1>9. ASSUME MonitorStep PROVE Obeys(comp, comp')
  <2>1. CASE MonitorSwap \/ RespawnFails \/ RespawnSwap
    BY <1>1, <2>1, Zenon DEF MonitorSwap, RespawnFails, RespawnSwap
  <2>2. CASE MonitorGivesUp \/ Respawn \/ RespawnRebind
    BY <1>0, <2>2, ObeyingOperations, Zenon DEF MonitorGivesUp, Respawn, RespawnRebind
  <2>. QED
    BY <1>9, <2>1, <2>2, Zenon DEF MonitorStep
<1>10. CASE ServiceRestarts \/ StreamBreaks
  BY <1>1, <1>10, Zenon DEF ServiceRestarts, StreamBreaks
<1>11. CASE SnapshotFindsNoSession
  BY <1>0, <1>11, ObeyingOperations, Zenon DEF SnapshotFindsNoSession
<1>12. CASE UNCHANGED vars
  BY <1>1, <1>12, Zenon DEF vars
<1>. QED
  BY <1>3, <1>4, <1>5, <1>6, <1>7, <1>8, <1>9, <1>10, <1>11, <1>12, Zenon DEF Next

\* No late event, failure or replacement of the engine undoes a stop: the host
\* leaves Stopping only for Stopped and Idle.  A Connected of the operation
\* shown in Stopping cannot be on any stream, because that operation is the
\* stop itself or an attempt that never reached an engine.
THEOREM StopIsNotUndone ==
    ASSUME SessionConstants PROVE Spec => [][StoppingStep]_vars
<1>1. Inv /\ [Next]_vars => [StoppingStep]_vars
  BY StepObeys, Zenon DEF StoppingStep, Obeys
<1>. QED
  BY <1>1, SessionInvariant, PTL DEF Spec

Unprovisioned == \A a \in Attempts : pc[a] \notin Provisioning

\* With the service as its only engine the host provisions no process, and its
\* current, uncancelled dispatch is one the user stands by.
ServiceOnly ==
    /\ Unprovisioned
    /\ disp.id # None /\ ~disp.cancelled => wanted

\* A core that has just started has no dispatch.
LEMMA ServiceOnlyInit ==
    ASSUME Init PROVE ServiceOnly
<1>1. \A a \in Attempts : pc[a] = "idle"
  BY Zenon DEF Init, Ops
<1>. QED
  BY <1>1, Zenon DEF ServiceOnly, Unprovisioned, Init, NoDispatch, Provisioning

\* Composition d shows Connecting only if c already did.
StaysOut(c, d) == d.phase = "Connecting" => c.phase = "Connecting"

\* Connecting is entered by the operation of that name alone.
LEMMA EntersConnecting ==
    ASSUME NEW c \in Compositions, NEW op
    PROVE  /\ StaysOut(c, c) /\ StaysOut(c, Fresh) /\ StaysOut(c, Disconnect(c, op))
           /\ StaysOut(c, ConnectFailed(c)) /\ StaysOut(c, ConnectionLost(c))
           /\ StaysOut(c, LinkTerminal(c)) /\ StaysOut(c, SynthesizeDataJoin(c))
           /\ StaysOut(c, Reopen(SynthesizeDataJoin(c)))
<1>1. ASSUME NEW d, Calm(c, d) PROVE StaysOut(c, d)
  BY <1>1, Zenon DEF Calm, StaysOut
<1>2. Calm(c, Reopen(SynthesizeDataJoin(c)))
  BY CalmOperations, CalmReopen, Zenon
<1>3. StaysOut(c, Disconnect(c, op))
  <2> DEFINE d == [c EXCEPT !.phase = "Stopping", !.open = FALSE, !.joined = {}, !.op = op]
  <2>1. d.phase = "Stopping"
    BY Zenon DEF Compositions
  <2>2. Join(d, "control").phase \in {d.phase, "Stopped"}
    BY DEF Join, Compositions
  <2>. QED
    BY <2>1, <2>2, Zenon DEF StaysOut, Disconnect
<1>. QED
  BY <1>1, <1>2, <1>3, CalmOperations, Zenon

\* No engine event brings Connecting about.
LEMMA ForwardedEventStaysOut ==
    ASSUME comp \in Compositions, ForwarderEvent PROVE StaysOut(comp, comp')
<1>1. Calm(comp, comp')
  BY CalmHandle, Zenon DEF ForwarderEvent
<1>. QED
  BY <1>1, Zenon DEF Calm, StaysOut

\* What a step must do for the host to go on standing by the user's request.
StandsBy ==
    /\ disp'.id # None /\ ~disp'.cancelled => wanted'
    /\ StaysOut(comp, comp') \/ wanted'

\* Nobody but a Connect or a reconnect of the current, uncancelled dispatch
\* makes a dispatch current or shows Connecting.
LEMMA StandsByStep ==
    ASSUME SessionConstants, "oneshot" \notin Forms, Inv, ServiceOnly, [Next]_vars
    PROVE  StandsBy
<1>0. /\ comp \in Compositions /\ disp \in DispatchStates /\ Dispatches
      /\ disp.id # None /\ ~disp.cancelled => wanted
      /\ \A a \in Attempts : pc[a] \notin Provisioning
  BY Zenon DEF Inv, Types, ServiceOnly, Unprovisioned
<1>1. ASSUME disp' = disp, wanted' = wanted, StaysOut(comp, comp') PROVE StandsBy
  BY <1>0, <1>1, Zenon DEF StandsBy
<1>2. ASSUME disp' = disp, wanted' = wanted, comp' = comp PROVE StandsBy
  BY <1>1, <1>2, Zenon DEF StaysOut
<1>3. ASSUME disp'.id = disp.id, disp'.cancelled = disp.cancelled, wanted' = wanted,
             StaysOut(comp, comp')
      PROVE  StandsBy
  BY <1>0, <1>3, Zenon DEF StandsBy
<1>4. ASSUME NEW a \in Connects, Connect(a) \/ ConnectRefused(a) PROVE StandsBy
  BY <1>4, Zenon DEF Connect, ConnectRefused, StandsBy
<1>5. ASSUME NEW a \in Attempts, AttemptStep(a) PROVE StandsBy
  <2>1. CASE \/ ConnectCancelled(a) \/ RouteLock(a) \/ RouteDial(a) \/ RouteFails(a)
             \/ \E form \in Forms : RouteReuse(a, form)
    BY <1>2, <2>1, Zenon DEF ConnectCancelled, RouteLock, RouteDial, RouteFails, RouteReuse
  <2>2. CASE Provision(a) \/ ProvisionFails(a) \/ ProvisionCapture(a) \/ ProvisionRebind(a)
             \/ ProvisionRestore(a) \/ ProvisionSwap(a)
    BY <1>0, <2>2, Zenon DEF Provision, ProvisionFails, ProvisionCapture, ProvisionRebind,
       ProvisionRestore, ProvisionSwap, Provisioning
  <2>3. CASE RouteTarget(a) \/ GateFails(a) \/ Apply(a) \/ ApplyUnreachable(a)
    BY <1>2, <2>3, Zenon DEF RouteTarget, GateFails, Apply, ApplyUnreachable
  <2>4. CASE BeforeApply(a)
    <3>1. disp'.id = disp.id /\ disp'.cancelled = disp.cancelled
      BY <1>0, <2>4, Zenon DEF BeforeApply, DispatchStates
    <3>2. wanted' = wanted /\ StaysOut(comp, comp')
      BY <2>4, Zenon DEF BeforeApply, StaysOut
    <3>. QED
      BY <1>3, <3>1, <3>2, Zenon
  <2>5. CASE ReportFailure(a)
    BY <1>0, <1>1, <2>5, EntersConnecting, Zenon DEF ReportFailure
  <2>. QED
    BY <1>5, <2>1, <2>2, <2>3, <2>4, <2>5, Zenon DEF AttemptStep
<1>6. ASSUME NEW s \in Stops, StopAccept(s) \/ StopStep(s) PROVE StandsBy
  <2>1. CASE StopAccept(s)
    <3>1. disp' = [disp EXCEPT !.cancelled = disp.id # None] /\ comp' = Disconnect(comp, s)
      BY <2>1, Zenon DEF StopAccept
    <3>2. disp'.id = disp.id /\ disp'.cancelled = (disp.id # None)
      BY <1>0, <3>1, Zenon DEF DispatchStates
    <3>3. StaysOut(comp, comp')
      BY <1>0, <3>1, EntersConnecting, Zenon
    <3>. QED
      BY <3>2, <3>3, Zenon DEF StandsBy
  <2>2. CASE StopTarget(s) \/ StopRpc(s) \/ StopUnreachable(s)
    BY <1>2, <2>2, Zenon DEF StopTarget, StopRpc, StopUnreachable
  <2>3. CASE StopFinish(s)
    <3>1. disp' = disp \/ disp' = [disp EXCEPT !.stopReq = FALSE]
      BY <2>3, Zenon DEF StopFinish
    <3>2. disp'.id = disp.id /\ disp'.cancelled = disp.cancelled
      BY <1>0, <3>1, Zenon DEF DispatchStates
    <3>3. comp' = comp \/ comp' = Reopen(SynthesizeDataJoin(comp))
      BY <2>3, Zenon DEF StopFinish
    <3>4. wanted' = wanted /\ StaysOut(comp, comp')
      BY <1>0, <2>3, <3>3, EntersConnecting, Zenon DEF StopFinish
    <3>. QED
      BY <1>3, <3>2, <3>4, Zenon
  <2>. QED
    BY <1>6, <2>1, <2>2, <2>3, Zenon DEF StopStep
<1>7. ASSUME NEW p \in Procs, EngineStep(p) \/ EngineDrops(p) \/ EngineCrashes(p)
      PROVE  StandsBy
  BY <1>2, <1>7, Zenon DEF EngineStep, EngineUp, EngineFails, EngineCancelled, EngineDrops,
     EngineCrashes
<1>8. ASSUME WorkerStep PROVE StandsBy
  <2>1. CASE WorkerConnects
    <3>1. worker.origin # None
      BY <1>0, <2>1, Zenon DEF WorkerConnects, Dispatches
    <3>2. wanted /\ wanted' = wanted
      BY <1>0, <2>1, <3>1, Zenon DEF WorkerConnects, SameSession
    <3>. QED
      BY <3>2, Zenon DEF StandsBy
  <2>2. CASE \/ WorkerSkips \/ WorkerArms \/ WorkerSuperseded \/ WorkerRefused \/ WorkerReturns
             \/ \E a \in Reconnects : WorkerTakes(a)
    BY <1>2, <2>2, Zenon DEF WorkerSkips, WorkerArms, WorkerSuperseded, WorkerRefused,
       WorkerReturns, WorkerTakes
  <2>. QED
    BY <1>8, <2>1, <2>2, Zenon DEF WorkerStep
<1>9. ASSUME ForwarderStep PROVE StandsBy
  <2>1. CASE ForwarderBegins \/ ForwarderAttaches \/ ForwarderSwapped
    BY <1>2, <2>1, Zenon DEF ForwarderBegins, ForwarderAttaches, ForwarderSwapped
  <2>2. CASE ForwarderRefused \/ ForwarderEof
    BY <1>0, <1>1, <2>2, EntersConnecting, Zenon DEF ForwarderRefused, ForwarderEof,
       ForwarderRetries
  <2>3. CASE ForwarderEvent
    <3>1. StaysOut(comp, comp')
      BY <1>0, <2>3, ForwardedEventStaysOut, Zenon
    <3>. QED
      BY <1>1, <2>3, <3>1, Zenon DEF ForwarderEvent
  <2>. QED
    BY <1>9, <2>1, <2>2, <2>3, Zenon DEF ForwarderStep
<1>10. ASSUME MonitorStep PROVE StandsBy
  <2>1. CASE MonitorSwap \/ RespawnFails \/ RespawnSwap
    BY <1>2, <2>1, Zenon DEF MonitorSwap, RespawnFails, RespawnSwap
  <2>2. CASE MonitorGivesUp \/ Respawn \/ RespawnRebind
    BY <1>0, <1>1, <2>2, EntersConnecting, Zenon DEF MonitorGivesUp, Respawn, RespawnRebind
  <2>. QED
    BY <1>10, <2>1, <2>2, Zenon DEF MonitorStep
<1>11. CASE ServiceRestarts \/ StreamBreaks
  BY <1>2, <1>11, Zenon DEF ServiceRestarts, StreamBreaks
<1>12. CASE SnapshotFindsNoSession
  BY <1>0, <1>1, <1>12, EntersConnecting, Zenon DEF SnapshotFindsNoSession
<1>13. CASE UNCHANGED vars
  BY <1>2, <1>13, Zenon DEF vars
<1>. QED
  BY <1>4, <1>5, <1>6, <1>7, <1>8, <1>9, <1>10, <1>11, <1>12, <1>13, Zenon DEF Next

\* Without the one-shot form no attempt ever starts to provision a process.
LEMMA NothingProvisioned ==
    ASSUME SessionConstants, "oneshot" \notin Forms, Inv, ServiceOnly, [Next]_vars
    PROVE  Unprovisioned'
<1>0. /\ pc \in [Ops -> AttemptLabels \cup StopLabels]
      /\ \A a \in Attempts : pc[a] \notin Provisioning
  BY Zenon DEF Inv, Types, ServiceOnly, Unprovisioned
<1>1. ASSUME pc' = pc PROVE Unprovisioned'
  BY <1>0, <1>1, Zenon DEF Unprovisioned
<1>2. ASSUME NEW o, NEW l, l \notin Provisioning, Goto(o, l) PROVE Unprovisioned'
  BY <1>0, <1>2, Zenon DEF Goto, Ops, Unprovisioned
<1>3. "oneshot" \notin Forms /\ \A a \in Attempts : pc[a] \notin Provisioning
  BY <1>0, Zenon
<1>4. ASSUME NEW a \in Connects, Connect(a) \/ ConnectRefused(a) PROVE Unprovisioned'
  <2>1. Goto(a, "admitted") \/ Goto(a, "err")
    BY <1>4, Zenon DEF Connect, Admitted, ConnectRefused
  <2>. QED
    BY <1>2, <2>1, Zenon DEF Provisioning
<1>5. ASSUME NEW a \in Attempts, AttemptStep(a) PROVE Unprovisioned'
  <2>1. CASE \/ ConnectCancelled(a) \/ RouteLock(a) \/ RouteDial(a) \/ RouteFails(a)
             \/ \E form \in Forms : RouteReuse(a, form)
    <3>1. Goto(a, "err") \/ Goto(a, "route") \/ Goto(a, "routed") \/ Goto(a, "failing")
      BY <2>1, Zenon DEF ConnectCancelled, RouteLock, RouteDial, RouteFails, RouteReuse
    <3>. QED
      BY <1>2, <3>1, Zenon DEF Provisioning
  <2>2. CASE Provision(a) \/ ProvisionFails(a) \/ ProvisionCapture(a) \/ ProvisionRebind(a)
             \/ ProvisionRestore(a) \/ ProvisionSwap(a)
    BY <1>3, <2>2, Zenon DEF Provision, ProvisionFails, ProvisionCapture, ProvisionRebind,
       ProvisionRestore, ProvisionSwap, Provisioning
  <2>3. CASE RouteTarget(a) \/ GateFails(a) \/ BeforeApply(a) \/ Apply(a) \/ ApplyUnreachable(a)
             \/ ReportFailure(a)
    <3>1. Goto(a, "gate") \/ Goto(a, "failing") \/ Goto(a, "apply") \/ Goto(a, "ok")
          \/ Goto(a, "err")
      BY <2>3, Zenon DEF RouteTarget, GateFails, BeforeApply, Apply, ApplyUnreachable,
         ReportFailure
    <3>. QED
      BY <1>2, <3>1, Zenon DEF Provisioning
  <2>. QED
    BY <1>5, <2>1, <2>2, <2>3, Zenon DEF AttemptStep
<1>6. ASSUME NEW s \in Stops, StopAccept(s) \/ StopStep(s) PROVE Unprovisioned'
  <2>1. \E l \in StopLabels : Goto(s, l)
    BY <1>6, Zenon DEF StopAccept, StopStep, StopTarget, StopRpc, StopUnreachable, StopFinish,
       StopLabels
  <2>2. \A l \in StopLabels : l \notin Provisioning
    BY Zenon DEF StopLabels, Provisioning
  <2>. QED
    BY <1>2, <2>1, <2>2, Zenon
<1>7. ASSUME NEW p \in Procs, EngineStep(p) \/ EngineDrops(p) \/ EngineCrashes(p) PROVE Unprovisioned'
  BY <1>1, <1>7, Zenon DEF EngineStep, EngineUp, EngineFails, EngineCancelled, EngineDrops,
     EngineCrashes
<1>8. ASSUME WorkerStep PROVE Unprovisioned'
  <2>1. pc' = pc \/ Goto(worker.id, "admitted")
    BY <1>8, Zenon DEF WorkerStep, WorkerSkips, WorkerArms, WorkerConnects, Admitted,
       WorkerSuperseded, WorkerRefused, WorkerReturns, WorkerTakes
  <2>. QED
    BY <1>1, <1>2, <2>1, Zenon DEF Provisioning
<1>9. ASSUME ForwarderStep PROVE Unprovisioned'
  BY <1>1, <1>9, Zenon DEF ForwarderStep, ForwarderBegins, ForwarderAttaches, ForwarderSwapped,
     ForwarderRefused, ForwarderEof, ForwarderRetries, ForwarderEvent
<1>10. ASSUME MonitorStep PROVE Unprovisioned'
  BY <1>1, <1>10, Zenon DEF MonitorStep, MonitorSwap, RespawnFails, RespawnSwap, MonitorGivesUp,
     Respawn, RespawnRebind
<1>11. CASE ServiceRestarts \/ StreamBreaks \/ SnapshotFindsNoSession \/ UNCHANGED vars
  BY <1>1, <1>11, Zenon DEF ServiceRestarts, StreamBreaks, SnapshotFindsNoSession, vars
<1>. QED
  BY <1>4, <1>5, <1>6, <1>7, <1>8, <1>9, <1>10, <1>11, Zenon DEF Next

\* Where the engine is the service, the host shows Connecting only after a
\* request that the user still stands by: a reconnect is admitted only for the
\* session it started from, and a Stop ends that session in one step with the
\* phase.  (With a one-shot engine the composition that a provisioning restores
\* can undo a Stop, which is why the form of the engine is assumed here.)
THEOREM ServiceConnectsOnlyWanted ==
    ASSUME SessionConstants, "oneshot" \notin Forms
    PROVE  Spec => ConnectingIsWanted
<1>1. Init => ServiceOnly
  BY ServiceOnlyInit, Zenon
<1>2. Inv /\ ServiceOnly /\ [Next]_vars => StandsBy
  BY StandsByStep, Zenon
<1>3. Inv /\ ServiceOnly /\ [Next]_vars => ServiceOnly'
  BY <1>2, NothingProvisioned, Zenon DEF ServiceOnly, StandsBy
<1>4. Inv /\ ServiceOnly /\ [Next]_vars => [ConnectingStep]_vars
  BY <1>2, Zenon DEF StandsBy, StaysOut, ConnectingStep
<1>. QED
  BY <1>1, <1>3, <1>4, SessionInvariant, PTL DEF Spec, ConnectingIsWanted
=============================================================================
