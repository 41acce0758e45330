------------------------------ MODULE CstpMux -------------------------------
(***************************************************************************)
(* The single writer over the peer's byte stream in the CSTP crate: a      *)
(* control queue with reserved capacity, two data producers that share a   *)
(* byte budget with what the peer has not read yet, and a terminal EOF.    *)
(* A payload is its length.                                                *)
(***************************************************************************)
EXTENDS Integers, Sequences, FiniteSets

CONSTANTS ControlCapacity,  \* MuxConfig.control_capacity
          DataByteBudget,   \* MuxConfig.data_byte_budget
          Lengths,          \* lengths of payloads
          MaxQueue          \* payloads of one producer waiting at a time

ControlKinds == {"Close", "Dpd", "Keepalive"}
Sources == {"ProducerA", "ProducerB"}
Other(s) == IF s = "ProducerA" THEN "ProducerB" ELSE "ProducerA"

VARIABLES control,   \* control frames waiting
          data,      \* producer -> lengths of its waiting payloads
          turn,      \* next_source
          queued,    \* queued_bytes
          inflight,  \* inflight_bytes: written, not yet read by the peer
          eof, emitted,
          passed     \* producer -> payloads of the other one written since it had one waiting

muxVars == <<control, data, turn, queued, inflight, eof, emitted, passed>>

MuxInit ==
  /\ control = <<>> /\ data = [s \in Sources |-> <<>>]
  /\ turn = "ProducerA"
  /\ queued = 0 /\ inflight = 0
  /\ eof = FALSE /\ emitted = FALSE
  /\ passed = [s \in Sources |-> 0]

PushControl(k) ==
  /\ ~eof /\ Len(control) < ControlCapacity
  /\ control' = Append(control, k)
  /\ UNCHANGED <<data, turn, queued, inflight, eof, emitted, passed>>

\* Mutant: the admission forgets the bytes the peer has not read.
AdmitsUnread(n) == queued + n <= DataByteBudget

Admits(n) == queued + inflight + n <= DataByteBudget

PushData(s, n) ==
  /\ ~eof /\ Admits(n) /\ Len(data[s]) < MaxQueue
  /\ queued' = queued + n
  /\ data' = [data EXCEPT ![s] = Append(@, n)]
  /\ UNCHANGED <<control, turn, inflight, eof, emitted, passed>>

NextControl ==
  /\ control # <<>>
  /\ control' = Tail(control)
  /\ UNCHANGED <<data, turn, queued, inflight, eof, emitted, passed>>

\* The producer take_next_data serves.
Chosen == IF data[turn] # <<>> THEN turn ELSE Other(turn)

NextData ==
  /\ control = <<>> /\ data[Chosen] # <<>>
  /\ LET s == Chosen
         n == Head(data[s])
     IN /\ data' = [data EXCEPT ![s] = Tail(@)]
        /\ queued' = queued - n /\ inflight' = inflight + n
        /\ turn' = Other(s)
        /\ passed' = [x \in Sources |->
             IF x = s \/ data[x] = <<>> THEN 0 ELSE passed[x] + 1]
  /\ UNCHANGED <<control, eof, emitted>>

NextEof ==
  /\ control = <<>> /\ \A s \in Sources : data[s] = <<>>
  /\ eof /\ ~emitted
  /\ emitted' = TRUE
  /\ UNCHANGED <<control, data, turn, queued, inflight, eof, passed>>

PeerRead(n) ==
  /\ inflight' = IF n > inflight THEN 0 ELSE inflight - n
  /\ UNCHANGED <<control, data, turn, queued, eof, emitted, passed>>

Eof ==
  /\ eof' = TRUE
  /\ UNCHANGED <<control, data, turn, queued, inflight, emitted, passed>>

MuxNext ==
  \/ \E k \in ControlKinds : PushControl(k)
  \/ \E s \in Sources, n \in Lengths : PushData(s, n)
  \/ NextControl \/ NextData \/ NextEof
  \/ \E n \in Lengths : PeerRead(n)
  \/ Eof

---------------------------------------------------------------------------
TypeOK ==
  /\ control \in Seq(ControlKinds) /\ data \in [Sources -> Seq(Lengths)]
  /\ turn \in Sources
  /\ queued \in Int /\ inflight \in Nat
  /\ eof \in BOOLEAN /\ emitted \in BOOLEAN
  /\ passed \in [Sources -> Nat]

(* What waits and what the peer has not read stay together within the budget,
   and the control queue within its reserved capacity.                      *)
BufferBounded ==
  /\ queued + inflight <= DataByteBudget
  /\ Len(control) <= ControlCapacity

(* The EOF the writer emits is the last thing it emits: nothing is waiting
   when it goes out and nothing is admitted after it.                       *)
EofIsLast == emitted => eof /\ control = <<>> /\ \A s \in Sources : data[s] = <<>>

(* A producer with a payload waiting is passed over at most once before its
   payload is written, however fast the other one produces.                 *)
ProducersAlternate ==
  \A s \in Sources : data[s] # <<>> => passed[s] <= 1

-----------------------------------------------------------------------------
(***************************************************************************)
(* The vault of late-cleanup handles of the CSTP crate.  A handle is moved *)
(* in synchronously, a cleanup future is driven by polls and may be        *)
(* dropped at any time, and only `take` moves the handle out again.  A     *)
(* locator is the pair of the vault that issued it and the entry.          *)
(***************************************************************************)

CONSTANTS Vaults,      \* owners
          MaxEntry,    \* handles registered
          MaxFuture    \* cleanup futures alive at a time

VARIABLES entries,  \* vault -> ids of its entries
          next,     \* NEXT_ENTRY
          owed,     \* locators of handles registered and not taken
          futures   \* cleanup futures: vault, locator, polled

vaultVars == <<entries, next, owed, futures>>

Locators == [owner: Vaults, id: 1 .. MaxEntry]

VaultInit ==
  /\ entries = [v \in Vaults |-> {}] /\ next = 1
  /\ owed = {} /\ futures = {}

Register(v) ==
  /\ next <= MaxEntry
  /\ entries' = [entries EXCEPT ![v] = @ \cup {next}]
  /\ owed' = owed \cup {[owner |-> v, id |-> next]}
  /\ next' = next + 1
  /\ UNCHANGED futures

Contains(v, l) == l.owner = v /\ l.id \in entries[v]

\* A locator of another vault, or one already consumed, takes nothing.
Take(v, l) ==
  /\ Contains(v, l)
  /\ entries' = [entries EXCEPT ![v] = @ \ {l.id}]
  /\ owed' = owed \ {l}
  /\ UNCHANGED <<next, futures>>

BeginCleanup(v, l) ==
  /\ Cardinality(futures) < MaxFuture /\ l.id < next
  /\ futures' = futures \cup {[vault |-> v, loc |-> l, polled |-> FALSE]}
  /\ UNCHANGED <<entries, next, owed>>

PollPending(f) ==
  /\ f \in futures /\ ~f.polled
  /\ futures' = (futures \ {f}) \cup {[f EXCEPT !.polled = TRUE]}
  /\ UNCHANGED <<entries, next, owed>>

\* The second poll is ready: StillLive takes the entry out and puts it back,
\* Terminated answers for a foreign vault or a consumed entry.
PollOutcome(f) == IF Contains(f.vault, f.loc) THEN "StillLive" ELSE "Terminated"

Reinserted(f) == entries[f.vault]

PollReady(f) ==
  /\ f \in futures /\ f.polled
  /\ futures' = futures \ {f}
  /\ entries' = IF PollOutcome(f) = "StillLive"
                THEN [entries EXCEPT ![f.vault] = Reinserted(f)] ELSE entries
  /\ UNCHANGED <<next, owed>>

DropFuture(f) ==
  /\ f \in futures
  /\ futures' = futures \ {f}
  /\ UNCHANGED <<entries, next, owed>>

VaultNext ==
  \/ \E v \in Vaults : Register(v)
  \/ \E v \in Vaults, l \in Locators : Take(v, l) \/ BeginCleanup(v, l)
  \/ \E f \in futures : PollPending(f) \/ PollReady(f) \/ DropFuture(f)

vars == <<muxVars, vaultVars>>

Init == MuxInit /\ VaultInit

Next ==
  \/ MuxNext /\ UNCHANGED vaultVars
  \/ VaultNext /\ UNCHANGED muxVars

Spec == Init /\ [][Next]_vars

(* A registered handle stays in the vault that issued its locator until it is
   taken with that locator, whatever cleanup futures were begun, polled to an
   end or dropped in between; and no two entries share a locator.           *)
EntryKeptUntilTaken ==
  \A v \in Vaults : entries[v] = {l.id : l \in {x \in owed : x.owner = v}}
=============================================================================
