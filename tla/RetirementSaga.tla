--------------------------- MODULE RetirementSaga ---------------------------
(***************************************************************************)
(* The retirement saga of the common resource crate: the one-way ladder    *)
(* Pending, Started, Observed, Proved, Retired on which an ownership is    *)
(* given back.  A saga is a value; every operation returns the saga it     *)
(* leaves behind, the same one when it refuses.                            *)
(***************************************************************************)
EXTENDS FiniteSets, Sequences, SequencesExt

\* RetirementSaga::new: nothing journalled, nothing expected.
NewSaga == [phase |-> "Pending", id |-> "none", expected |-> <<>>, next |-> 0]

\* begin: one durable operation id per saga; the admission record that is
\* sealed and read back reproduces it, so only a second begin is refused.
SagaBegin(s, id, expected) ==
  IF s.id # "none" THEN s
  ELSE [s EXCEPT !.id = id, !.expected = expected, !.phase = "Started"]

\* observe_cleanup: every predicate verified, none unexpected, and as many
\* distinct labels as there are expected obligations.
Observable(s, observed) ==
  /\ s.phase = "Started"
  /\ \A o \in observed : o.verified /\ o.label \in ToSet(s.expected)
  /\ Cardinality({o.label : o \in observed}) = Len(s.expected)

SagaObserve(s, observed) ==
  IF Observable(s, observed) THEN [s EXCEPT !.phase = "Observed"] ELSE s

\* prove_clean: only what was observed is proved.
SagaProve(s) == IF s.phase = "Observed" THEN [s EXCEPT !.phase = "Proved"] ELSE s

\* retire_ownership: only what was proved is retired, once.
SagaRetire(s, next) ==
  IF s.phase = "Proved" /\ s.next = 0
  THEN [s EXCEPT !.phase = "Retired", !.next = next] ELSE s
=============================================================================
