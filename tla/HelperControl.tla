---------------------------- MODULE HelperControl ----------------------------
(***************************************************************************)
(* The engine's HelperControl endpoint (grpc_server.rs) on top of the      *)
(* tunnel runtime's contract: the owner lease of the host's connections,   *)
(* the admission of mutations, and the terminals GetOperation answers.     *)
(*                                                                         *)
(* A handler is a sequence of sections under the core mutex; between them  *)
(* other handlers, the runtime's threads and the end of a lease stream     *)
(* interleave.  The authenticated peer of a request is its connection:     *)
(* PeerContext holds the binding made when the pipe was accepted.  The     *)
(* statistics registry, the wire encoding and the request's payload are    *)
(* left out.                                                               *)
(***************************************************************************)
EXTENDS RuntimeContract, Sequences, FiniteSets

CONSTANTS Conns,         \* connections of host processes to the engine
          Releases,      \* operations of ReleaseLease
          AcquireOp,     \* the host's fixed operation of AcquireLease
          Service,       \* TRUE: service mode, FALSE: one engine per host
          MaxWatermark,  \* bound on core.watermark, for repeated AcquireLease
          MaxRequests    \* bound on the mutations that are asked for

Mutations == Applies \cup Stops \cup Releases
AllOps == Mutations \cup {AcquireOp}

ASSUME HelperOps ==
    /\ AcquireOp \notin Mutations \cup {None} /\ None \notin Releases \cup Conns
    /\ Releases \cap (Applies \cup Stops) = {}
    /\ Service \in BOOLEAN /\ MaxWatermark \in Nat /\ MaxRequests \in Nat

VARIABLES
    stream,     \* the MaintainOwnerLease stream of each connection
    owner,      \* core.owner: a connection, or None
    version,    \* core.ownership_version
    slot,       \* J52 token slot of each connection: state and version
    leases,     \* connections with an OwnerLease handle
    journal,    \* J51 admissions in watermark order
    watermark,  \* core.watermark
    pending,    \* core.pending_apply
    terminals,  \* core.terminals
    handler,    \* where the handler of each mutation is
    failedStop, \* stops whose disconnect returned an error
    busy        \* the stop that holds the runtime's resources, or None

leaseVars == <<stream, owner, version, slot, leases>>
coreVars == <<journal, watermark, pending, terminals>>
vars == <<contractVars, leaseVars, coreVars, handler, failedStop, busy>>

Results == {None, "Succeeded", "Failed"}

TypeOK ==
    /\ ContractTypeOK
    /\ stream \in [Conns -> {"new", "open", "closed"}]
    /\ owner \in Conns \cup {None}
    /\ version \in Nat \ {0}
    /\ slot \in [Conns -> [state : {"empty", "holding", "resolved"}, version : Nat]]
    /\ leases \in SUBSET Conns
    /\ journal \in Seq([op : AllOps, by : Conns, version : Nat])
    /\ watermark \in 0..MaxWatermark
    /\ pending \in SUBSET Applies
    /\ terminals \in [AllOps -> Results]
    /\ handler \in [Mutations -> {"none", "admitted", "refused", "cancelled",
                                  "disconnecting", "taken", "returned",
                                  "publish", "done"}]
    /\ failedStop \in SUBSET Stops
    /\ busy \in Stops \cup {None}

Init ==
    /\ ContractInit
    /\ stream = [c \in Conns |-> "new"]
    /\ owner = None /\ version = 1
    /\ slot = [c \in Conns |-> [state |-> "empty", version |-> 0]]
    /\ leases = {}
    /\ journal = <<>> /\ watermark = 0
    /\ pending = {}
    /\ terminals = [o \in AllOps |-> None]
    /\ handler = [o \in Mutations |-> "none"]
    /\ failedStop = {} /\ busy = None

-----------------------------------------------------------------------------
(* The lease stream and the token slots.                                   *)

\* OwnerLeaseManager::terminate_connection.
Terminate(c) ==
    /\ leases' = leases \ {c}
    /\ slot' = IF slot[c].state = "holding"
               THEN [slot EXCEPT ![c].state = "resolved"] ELSE slot

\* The current owner goes; the next one gets a new ownership version.
Retire(c) ==
    /\ Terminate(c)
    /\ owner' = None
    /\ version' = version + 1

\* maintain_owner_lease, Handshake: refused while another peer owns the engine,
\* and then the stream ends.
Handshake(c) ==
    /\ stream[c] = "new"
    /\ IF owner \in {None, c}
       THEN stream' = [stream EXCEPT ![c] = "open"] /\ owner' = c
       ELSE stream' = [stream EXCEPT ![c] = "closed"] /\ UNCHANGED owner
    /\ UNCHANGED <<contractVars, version, slot, leases, coreVars, handler,
                   failedStop, busy>>

\* maintain_owner_lease, OwnershipTokenReceived with the right token: it acks
\* the slot of whoever is the owner now.
TokenReceived(c) ==
    /\ stream[c] = "open"
    /\ owner # None /\ owner \in leases /\ slot[owner].state = "holding"
    /\ slot' = [slot EXCEPT ![owner].state = "resolved"]
    /\ leases' = leases \ {owner}
    /\ UNCHANGED <<contractVars, stream, owner, version, coreVars, handler,
                   failedStop, busy>>

\* Mutant: the lease of a connection that ended is kept.
StreamEndKeepsLease(c) ==
    /\ stream[c] = "open"
    /\ stream' = [stream EXCEPT ![c] = "closed"]
    /\ IF Service /\ owner = c
       THEN owner' = None /\ version' = version + 1 /\ UNCHANGED <<slot, leases>>
       ELSE UNCHANGED <<owner, version, slot, leases>>
    /\ UNCHANGED <<contractVars, coreVars, handler, failedStop, busy>>

\* Mutant: the end of a stream leaves the ownership version alone.
StreamEndSameVersion(c) ==
    /\ stream[c] = "open"
    /\ stream' = [stream EXCEPT ![c] = "closed"]
    /\ IF Service /\ owner = c
       THEN Terminate(c) /\ owner' = None
       ELSE UNCHANGED <<owner, slot, leases>>
    /\ UNCHANGED <<contractVars, version, coreVars, handler, failedStop, busy>>

\* maintain_owner_lease, after its loop: in service mode the end of the owner's
\* stream retires the owner; tunnel, admissions and pending applies stay.
StreamEnd(c) ==
    /\ stream[c] = "open"
    /\ stream' = [stream EXCEPT ![c] = "closed"]
    /\ IF Service /\ owner = c
       THEN Retire(c)
       ELSE UNCHANGED <<owner, version, slot, leases>>
    /\ UNCHANGED <<contractVars, coreVars, handler, failedStop, busy>>

-----------------------------------------------------------------------------
(* Admission.  bind_mutation answers an error, without a trace, to anyone  *)
(* but the owner.                                                          *)

\* A mutation that was not asked for yet, within the bound on requests.
Fresh(o) ==
    /\ handler[o] = "none"
    /\ Cardinality({m \in Mutations : handler[m] # "none"}) < MaxRequests

IsAdmitted(o) == \E i \in DOMAIN journal : journal[i].op = o

\* AdmissionIndex::admit: a known operation is answered from its record.
Admit(c, o) ==
    journal' = IF IsAdmitted(o) THEN journal
               ELSE Append(journal, [op |-> o, by |-> c, version |-> version])

\* admit_and_gate: the owner holds a lease, the wire watermark advances.
AdmitAndGate(c, o) ==
    /\ owner = c
    /\ c \in leases
    /\ Admit(c, o)
    /\ watermark < MaxWatermark
    /\ watermark' = watermark + 1

\* admit_and_gate of any mutation fails for want of a lease: the caller gets an
\* error, but the admission stays on record.
GateRefused(c, o) ==
    /\ Fresh(o)
    /\ owner = c
    /\ c \notin leases
    /\ Admit(c, o)
    /\ handler' = [handler EXCEPT ![o] = "done"]
    /\ UNCHANGED <<contractVars, leaseVars, watermark, pending, terminals,
                   failedStop, busy>>

\* acquire_lease: the slot is filled, or the token it holds is replayed ...
Acquire(c) ==
    /\ owner = c
    /\ \/ slot[c].state = "empty"
       \/ slot[c].state = "holding" /\ slot[c].version = version
    /\ slot' = [slot EXCEPT ![c] = [state |-> "holding", version |-> version]]
    /\ leases' = IF slot[c].state = "empty" THEN leases \cup {c} ELSE leases
    /\ Admit(c, AcquireOp)
    /\ watermark < MaxWatermark
    /\ watermark' = watermark + 1
    /\ terminals' = [terminals EXCEPT ![AcquireOp] = "Succeeded"]
    /\ UNCHANGED <<contractVars, stream, owner, version, pending, handler,
                   failedStop, busy>>

\* ... or refused: the slot is resolved, or held for an older version.
AcquireRefused(c) ==
    /\ owner = c
    /\ \/ slot[c].state = "resolved"
       \/ slot[c].state = "holding" /\ slot[c].version # version
    /\ terminals' = [terminals EXCEPT ![AcquireOp] = "Failed"]
    /\ UNCHANGED <<contractVars, leaseVars, journal, watermark, pending,
                   handler, failedStop, busy>>

\* release_lease.  It does not touch the tunnel runtime.
Release(c, r) ==
    /\ Fresh(r)
    /\ AdmitAndGate(c, r)
    /\ Retire(c)
    /\ pending' = {}
    /\ terminals' = [terminals EXCEPT ![r] = "Succeeded"]
    /\ handler' = [handler EXCEPT ![r] = "done"]
    /\ UNCHANGED <<contractVars, stream, failedStop, busy>>

-----------------------------------------------------------------------------
(* The terminal observer runs inside publish, on every status event.       *)

\* Mutant: an entry stays after its terminal was recorded.
ObserveKeeps ==
    /\ pending' = pending
    /\ terminals' = IF latest'.op \in pending /\ latest'.phase \in {"Connected", "Failed"}
                    THEN [terminals EXCEPT ![latest'.op] =
                            IF latest'.phase = "Connected" THEN "Succeeded" ELSE "Failed"]
                    ELSE terminals

\* Connected and Failed settle the pending apply they name, if there is one.
\* An event that was published before finds no entry any more, so looking at
\* the newest event after each step is the same as looking at each event.
Observe ==
    IF latest'.op \in pending /\ latest'.phase \in {"Connected", "Failed"}
    THEN /\ pending' = pending \ {latest'.op}
         /\ terminals' = [terminals EXCEPT ![latest'.op] =
                IF latest'.phase = "Connected" THEN "Succeeded" ELSE "Failed"]
    ELSE UNCHANGED <<pending, terminals>>

\* A step of the runtime's own threads.  A stop that holds the resources mutex
\* keeps an assembly from installing its tunnel.
RuntimeMoves ==
    /\ RuntimeStep
    /\ running # None /\ ~settled /\ settled' /\ plane'.state = "up" => busy = None
    /\ Observe
    /\ UNCHANGED <<leaseVars, journal, watermark, handler, failedStop, busy>>

-----------------------------------------------------------------------------
(* apply_tunnel: admission under the core mutex, then start_apply without. *)

ApplyAdmitted(c, o) ==
    /\ Fresh(o)
    /\ AdmitAndGate(c, o)
    /\ pending' = pending \cup {o}
    /\ handler' = [handler EXCEPT ![o] = "admitted"]
    /\ UNCHANGED <<contractVars, leaseVars, terminals, failedStop, busy>>

\* start_apply accepts the assembly or hands the running tunnel over.
ApplyStarted(o) ==
    /\ handler[o] = "admitted"
    /\ Accept(o) \/ Adopt(o)
    /\ Observe
    /\ handler' = [handler EXCEPT ![o] = "done"]
    /\ UNCHANGED <<leaseVars, journal, watermark, failedStop, busy>>

\* start_apply refuses a duplicate ...
ApplyRefused(o) ==
    /\ handler[o] = "admitted"
    /\ running # None
    /\ handler' = [handler EXCEPT ![o] = "refused"]
    /\ UNCHANGED <<contractVars, leaseVars, coreVars, failedStop, busy>>

\* ... and the handler publishes the failure.
ApplyFailed(o) ==
    /\ handler[o] = "refused"
    /\ PublishRefusal(o)
    /\ Observe
    /\ handler' = [handler EXCEPT ![o] = "done"]
    /\ UNCHANGED <<leaseVars, journal, watermark, failedStop, busy>>

-----------------------------------------------------------------------------
(* stop_tunnel: admission; cancel, a bounded wait and disconnect on a      *)
(* blocking thread; then the bookkeeping and the Idle event.               *)

StopAdmitted(c, s) ==
    /\ Fresh(s)
    /\ AdmitAndGate(c, s)
    /\ handler' = [handler EXCEPT ![s] = "admitted"]
    /\ UNCHANGED <<contractVars, leaseVars, pending, terminals, failedStop, busy>>

\* cancel; and after the wait, whether or not the assembly is over, the first
\* section of disconnect.
StopCancels(s) ==
    /\ handler[s] \in {"admitted", "cancelled"}
    /\ CancelToken
    /\ handler' = [handler EXCEPT ![s] = IF handler[s] = "admitted"
                                         THEN "cancelled" ELSE "disconnecting"]
    /\ UNCHANGED <<leaseVars, coreVars, failedStop, busy>>

StopTakes(s) ==
    /\ handler[s] = "disconnecting"
    /\ busy = None
    /\ busy' = s
    /\ Disconnect
    /\ handler' = [handler EXCEPT ![s] = "taken"]
    /\ UNCHANGED <<leaseVars, coreVars, failedStop>>

\* disconnect returns once the workers are joined, with or without an error.
StopReturns(s) ==
    /\ handler[s] = "taken"
    /\ plane.state = "none"
    /\ busy' = None
    /\ \E failed \in SUBSET {s} : failedStop' = failedStop \cup failed
    /\ handler' = [handler EXCEPT ![s] = "returned"]
    /\ UNCHANGED <<contractVars, leaseVars, coreVars>>

\* Mutant: a disconnect error ends the handler.
StopRecordedOnSuccess(s) ==
    /\ handler[s] = "returned"
    /\ pending' = {}
    /\ terminals' = [terminals EXCEPT ![s] = IF s \in failedStop THEN @ ELSE "Succeeded"]
    /\ handler' = [handler EXCEPT ![s] = IF s \in failedStop THEN "done" ELSE "publish"]
    /\ UNCHANGED <<contractVars, leaseVars, journal, watermark, failedStop, busy>>

\* The second section under the core mutex; the error is only logged.
StopRecorded(s) ==
    /\ handler[s] = "returned"
    /\ pending' = {}
    /\ terminals' = [terminals EXCEPT ![s] = "Succeeded"]
    /\ handler' = [handler EXCEPT ![s] = "publish"]
    /\ UNCHANGED <<contractVars, leaseVars, journal, watermark, failedStop, busy>>

StopPublished(s) ==
    /\ handler[s] = "publish"
    /\ PublishStop(s)
    /\ handler' = [handler EXCEPT ![s] = "done"]
    /\ UNCHANGED <<leaseVars, coreVars, failedStop, busy>>

-----------------------------------------------------------------------------
LeaseStep(c) ==
    \/ Handshake(c) \/ TokenReceived(c) \/ StreamEnd(c)
    \/ Acquire(c) \/ AcquireRefused(c)

RequestStep(c) ==
    \/ \E o \in Mutations : GateRefused(c, o)
    \/ \E o \in Applies : ApplyAdmitted(c, o)
    \/ \E s \in Stops : StopAdmitted(c, s)
    \/ \E r \in Releases : Release(c, r)

ApplyStep(o) == ApplyStarted(o) \/ ApplyRefused(o) \/ ApplyFailed(o)

StopStep(s) ==
    \/ StopCancels(s) \/ StopTakes(s) \/ StopReturns(s)
    \/ StopRecorded(s) \/ StopPublished(s)

Next ==
    \/ \E c \in Conns : LeaseStep(c) \/ RequestStep(c)
    \/ \E o \in Applies : ApplyStep(o)
    \/ \E s \in Stops : StopStep(s)
    \/ RuntimeMoves

Spec == Init /\ [][Next]_vars

\* Handlers that were admitted run on, and so do the runtime's threads: an
\* assembly publishes its outcome and ends, a plane that was asked to stop or
\* that was lost says so.  Which of them goes first is left open; requests and
\* losses need not happen.
Fairness ==
    WF_vars(\/ \E o \in Applies : ApplyStep(o)
            \/ \E s \in Stops : StopStep(s)
            \/ RuntimeMoves /\ (Abort \/ Finish \/ Quiesce \/ ReportLoss))

FairSpec == Spec /\ Fairness

-----------------------------------------------------------------------------
(* Properties.                                                             *)

\* A held token belongs to the owner and carries the current ownership version,
\* and the lease handle the gate asks for exists exactly while the slot holds
\* one: nothing of a retired owner passes the gate.
LeaseIsOwners ==
    \A c \in Conns :
        /\ c \in leases <=> slot[c].state = "holding"
        /\ c \in leases => owner = c /\ slot[c].version = version

\* An ownership version names one owner: admissions of two connections never
\* carry the same version, through handshakes, releases and ended streams.
VersionPerOwner ==
    \A i, j \in DOMAIN journal :
        journal[i].by # journal[j].by => journal[i].version # journal[j].version

\* Each entry of pending_apply has someone who will publish its outcome, the
\* handler or the assembly: no entry is orphaned.
PendingTracked ==
    \A o \in pending : \/ handler[o] \in {"admitted", "refused"}
                       \/ running = o /\ ~settled

\* A terminal that GetOperation may have answered never changes: not by the loss
\* of the tunnel, nor by a later stop, release or handover.
TerminalFinal ==
    [][\A o \in Mutations : terminals[o] # None => terminals'[o] = terminals[o]]_vars

\* Every stop that passed the gate gets its terminal, whatever the assembly and
\* the data plane do and whether or not disconnect fails.
StopResolves ==
    \A s \in Stops : handler[s] = "admitted" ~> terminals[s] = "Succeeded"

=============================================================================
