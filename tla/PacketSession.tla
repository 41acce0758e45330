--------------------------- MODULE PacketSession ---------------------------
(***************************************************************************)
(* The helper's side of the packet boundary in the common crates: the      *)
(* ownership phases of the helper composition, the one-shot attachment by  *)
(* a capability, the admission of frames against the queue budget, the     *)
(* scheduler that alternates between the two directions, and the barrier   *)
(* both sides join before the ownership is released.                       *)
(***************************************************************************)
EXTENDS Integers, RetirementSaga

CONSTANTS QueueMessages, QueueBytes,   \* packet_queue_messages, packet_queue_bytes
          BatchPackets, BatchBytes,    \* max_packet_batch_packets, max_packet_batch_bytes
          MaxPending,                  \* batches waiting in one direction
          MaxFull                      \* bound on the fullness counter

Dirs == {"to_packet", "to_protocol"}
Sides == {"control", "data"}
Threshold == 3

VARIABLES helper,   \* HelperComposition: phase, version, attached
          psaga,    \* its RetirementSaga
          bar,      \* TeardownBarrier: joined, cancelled, released
          cap,      \* the capability: unused, used
          budget,   \* PacketBudget: in-flight messages and bytes, sustained_full
          turn,     \* PumpScheduler.next
          pending,  \* direction -> batches waiting, each [packets, bytes]
          held,     \* batches admitted and not yet released
          wait      \* rounds a ready direction has been passed over

vars == <<helper, psaga, bar, cap, budget, turn, pending, held, wait>>

Init ==
  /\ helper = [phase |-> "Idle", version |-> 0, attached |-> FALSE]
  /\ psaga = NewSaga
  /\ bar = [joined |-> {}, cancelled |-> {}, released |-> FALSE]
  /\ cap = "unused"
  /\ budget = [msgs |-> [d \in Dirs |-> 0], bytes |-> [d \in Dirs |-> 0], full |-> 0]
  /\ turn = "to_packet"
  /\ pending = [d \in Dirs |-> <<>>] /\ held = [d \in Dirs |-> <<>>]
  /\ wait = [d \in Dirs |-> 0]

Packets == <<budget, turn, pending, held, wait>>

---------------------------------------------------------------------------
\* The barrier

BarrierJoin(b, s) ==
  IF b.released \/ s \in b.joined THEN b
  ELSE [b EXCEPT !.joined = @ \cup {s}, !.released = (b.joined \cup {s} = Sides)]

\* EOF on one side cancels the other as well.
SignalEof(s) ==
  /\ helper.phase # "Idle" /\ s \notin bar.cancelled
  /\ bar' = [bar EXCEPT !.cancelled = @ \cup {s} \cup (Sides \ {s})]
  /\ UNCHANGED <<helper, psaga, cap, Packets>>

JoinTeardown(s) ==
  /\ s \in bar.cancelled /\ s \notin bar.joined
  /\ bar' = BarrierJoin(bar, s)
  /\ UNCHANGED <<helper, psaga, cap, Packets>>

---------------------------------------------------------------------------
\* The phases of the helper composition

AcquireOwnership(v) ==
  /\ helper.phase = "Idle"
  /\ helper' = [helper EXCEPT !.phase = "Acquired", !.version = v]
  /\ UNCHANGED <<psaga, bar, cap, Packets>>

\* authorizes: principal, connection, operation, authority epoch and expiry
\* all match; the capability is consumed by the attachment.
Authorizes(fits) == fits /\ cap = "unused"

AttachPacket(fits) ==
  /\ helper.phase = "Acquired" /\ ~bar.released /\ Authorizes(fits)
  /\ helper' = [helper EXCEPT !.phase = "Active", !.attached = TRUE]
  /\ cap' = "used"
  /\ UNCHANGED <<psaga, bar, Packets>>

\* begin_retirement with the obligations the caller expects; duplicate
\* labels are taken as they come.
BeginRetirement(expected) ==
  /\ helper.phase \in {"Acquired", "Active"}
  /\ helper' = [helper EXCEPT !.phase = "Retiring"]
  /\ psaga' = SagaBegin(NewSaga, "retirement", expected)
  /\ UNCHANGED <<bar, cap, Packets>>

\* The composition observes every obligation as verified.
AllVerified == {[label |-> l, verified |-> TRUE] : l \in ToSet(psaga.expected)}

ObserveAndProve ==
  /\ helper.phase = "Retiring" /\ psaga.phase = "Started"
  /\ psaga' = SagaProve(SagaObserve(psaga, AllVerified))
  /\ UNCHANGED <<helper, bar, cap, Packets>>

\* retire_saga walks whatever is left of the ladder.
RetireSaga ==
  /\ helper.phase = "Retiring" /\ psaga.phase # "Retired"
  /\ LET seen == IF psaga.phase = "Started" THEN SagaObserve(psaga, AllVerified) ELSE psaga
     IN psaga' = SagaRetire(SagaProve(seen), helper.version + 1)
  /\ UNCHANGED <<helper, bar, cap, Packets>>

ReleaseOwnership ==
  /\ bar.released /\ psaga.phase = "Retired" /\ helper.phase # "Retired"
  /\ helper' = [helper EXCEPT !.phase = "Retired", !.attached = FALSE]
  /\ UNCHANGED <<psaga, bar, cap, Packets>>

---------------------------------------------------------------------------
\* The packet budget

Batches == [packets : 1..BatchPackets, bytes : 1..BatchBytes]

\* try_admit: the message cap bounds one call, the byte budget all of them; a
\* counter of full admissions, shared by the directions and never reset,
\* turns into backpressure.
WouldFill(b, d, x) == \/ b.msgs[d] + x.packets >= QueueMessages
                      \/ b.bytes[d] + x.bytes >= QueueBytes

OverBudget(b, d, x) == x.packets > QueueMessages \/ b.bytes[d] + x.bytes > QueueBytes

TryAdmit(b, d, x) ==
  LET full == IF WouldFill(b, d, x) /\ b.full < MaxFull THEN b.full + 1 ELSE b.full
      counted == [b EXCEPT !.full = full]
      taken == [counted EXCEPT !.msgs[d] = @ + x.packets, !.bytes[d] = @ + x.bytes]
  IN IF OverBudget(b, d, x)
     THEN [verdict |-> IF full > Threshold THEN "Backpressure" ELSE "OverBudget",
           budget |-> counted]
     ELSE [verdict |-> IF full > Threshold THEN "Backpressure" ELSE "Admitted",
           budget |-> taken]

\* release gives usage back, never below zero.
Sub(a, b) == IF a > b THEN a - b ELSE 0
ReleaseBatch(d) ==
  /\ held[d] # <<>>
  /\ LET x == Head(held[d])
     IN budget' = [budget EXCEPT !.msgs[d] = Sub(@, x.packets), !.bytes[d] = Sub(@, x.bytes)]
  /\ held' = [held EXCEPT ![d] = Tail(@)]
  /\ UNCHANGED <<helper, psaga, bar, cap, turn, pending, wait>>

BatchArrives(d) ==
  /\ helper.phase = "Active" /\ Len(pending[d]) < MaxPending
  /\ \E x \in Batches : pending' = [pending EXCEPT ![d] = Append(@, x)]
  /\ UNCHANGED <<helper, psaga, bar, cap, budget, turn, held, wait>>

---------------------------------------------------------------------------
\* The pump

SustainedFull == budget.full > Threshold
Ready(d) == pending[d] # <<>> /\ ~SustainedFull
Opposite(d) == CHOOSE e \in Dirs : e # d

\* next: the preferred direction first, then the other; the preference
\* rotates whatever was polled.
Polled == IF Ready(turn) THEN turn ELSE Opposite(turn)
Rotated == Opposite(turn)

\* admit_owned_frame: attached, not torn down, of the current version.
FrameAdmissible(v) ==
  /\ helper.attached /\ helper.phase \notin {"Retiring", "Retired"}
  /\ ~bar.released /\ v = helper.version

PumpRound ==
  /\ helper.phase = "Active" /\ \E d \in Dirs : Ready(d)
  /\ turn' = Rotated
  /\ \E v \in {helper.version, helper.version + 1} :
       LET d == Polled
           a == TryAdmit(budget, d, Head(pending[d]))
       IN /\ pending' = [pending EXCEPT ![d] = Tail(@)]
          /\ IF FrameAdmissible(v)
             THEN /\ budget' = a.budget
                  /\ held' = IF a.verdict = "Admitted"
                             THEN [held EXCEPT ![d] = Append(@, Head(pending[d]))] ELSE held
             ELSE UNCHANGED <<budget, held>>
  /\ wait' = [d \in Dirs |-> IF Ready(d) /\ d # Polled THEN wait[d] + 1 ELSE 0]
  /\ UNCHANGED <<helper, psaga, bar, cap>>

Next ==
  \/ \E s \in Sides : SignalEof(s) \/ JoinTeardown(s)
  \/ AcquireOwnership(1)
  \/ \E fits \in BOOLEAN : AttachPacket(fits)
  \/ \E expected \in {<<1, 2>>, <<1, 1>>} : BeginRetirement(expected)
  \/ ObserveAndProve \/ RetireSaga \/ ReleaseOwnership
  \/ \E d \in Dirs : ReleaseBatch(d) \/ BatchArrives(d)
  \/ PumpRound

Spec == Init /\ [][Next]_vars

---------------------------------------------------------------------------
\* The ownership is released last: both sides have joined, the saga has
\* retired it and no frame can be admitted any more (release_ownership).
ReleaseIsLast ==
  helper.phase = "Retired" =>
    /\ bar.joined = Sides /\ psaga.phase = "Retired"
    /\ \A v \in 0..2 : ~FrameAdmissible(v)

\* The byte budget of a direction is never exceeded, whatever is admitted,
\* refused and released (try_admit at the boundary of the queue).
BytesBounded == \A d \in Dirs : budget.bytes[d] <= QueueBytes

\* A direction that has data and is not backed up is passed over at most
\* once before it is polled (PumpScheduler::next).
PumpIsFair == \A d \in Dirs : wait[d] <= 1
=============================================================================
