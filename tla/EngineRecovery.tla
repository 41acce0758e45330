--------------------------- MODULE EngineRecovery ---------------------------
(***************************************************************************)
(* The composition of the privileged helper on Windows: the machine-wide   *)
(* authority, the recovery that replays the admission journal, and only    *)
(* then the endpoint.  Helpers crash anywhere, also in the middle of an    *)
(* append, and another one takes the authority over.                       *)
(***************************************************************************)
EXTENDS Integers, Sequences, FiniteSets, SequencesExt

CONSTANTS Helpers,    \* helper processes
          MaxAppend,  \* admissions appended in all
          MaxCrash    \* crashes

VARIABLES proc,     \* helper -> [pc, outcome]
          owner,    \* the mutex: "free", "abandoned" or a helper
          file,     \* journal.bin: a sequence of frames
          effects,  \* admissions whose effect may stand on the machine
          budgets   \* appends and crashes left

vars == <<proc, owner, file, effects, budgets>>

Init ==
  /\ proc = [h \in Helpers |-> [pc |-> "down", outcome |-> "none"]]
  /\ owner = "free" /\ file = <<>> /\ effects = {}
  /\ budgets = [append |-> MaxAppend, crash |-> MaxCrash]

\* A frame of the file: an admission of the version helpers start with or of
\* another one, a record without obligation, or the torn rest of a crashed append; torn
\* says where it was cut.
Frame(kind, n) == [kind |-> kind, n |-> n]
Torn == {"torn_header", "torn_payload", "torn_digest"}

\* decode: a cut header or digest at the end of the file is a torn tail; a
\* payload that runs past the end, and anything after a torn frame, is
\* corruption.
Whole(f) == SelectSeq(f, LAMBDA x : x.kind \notin Torn)
Corrupt(f) ==
  \E i \in DOMAIN f : /\ f[i].kind \in Torn
                      /\ i < Len(f) \/ f[i].kind = "torn_payload"
Project(f) == IF Corrupt(f) THEN "Corrupt" ELSE "Readable"

\* recover: without an observation of the machine any admission of the
\* current ownership version leaves recovery unable to tell;
\* one of an earlier version is pending history.
Admissions(f, kind) == {x \in ToSet(Whole(f)) : x.kind = kind}
Recovered(f) ==
  IF Project(f) = "Corrupt" THEN "Corrupt"
  ELSE IF Admissions(f, "admitted") # {} THEN "ObservationFailed"
  ELSE IF Admissions(f, "older") # {} THEN "Pending" ELSE "ProvenClean"

Set(h, pc, outcome) == proc' = [proc EXCEPT ![h] = [pc |-> pc, outcome |-> outcome]]

\* SingletonAuthority::new and try_acquire: a free or an abandoned mutex is
\* taken, a held one is Busy and composition fails.
Acquire(h) ==
  /\ proc[h].pc = "down"
  /\ IF owner \in {"free", "abandoned"}
     THEN owner' = h /\ Set(h, "held", "none")
     ELSE UNCHANGED owner /\ Set(h, "failed", "AuthorityBusy")
  /\ UNCHANGED <<file, effects, budgets>>

\* Recovery, under the authority; a corrupt journal ends the composition.
Recover(h) ==
  /\ proc[h].pc = "held"
  /\ LET r == Recovered(file)
     IN IF r = "Corrupt" THEN Set(h, "failed", r) ELSE Set(h, "recovered", r)
  /\ UNCHANGED <<owner, file, effects, budgets>>

Publish(h) ==
  /\ proc[h].pc = "recovered"
  /\ Set(h, "published", proc[h].outcome)
  /\ UNCHANGED <<owner, file, effects, budgets>>

\* A failed composition ends its process; the kernel abandons the mutex.
Exits(h) ==
  /\ proc[h].pc = "failed"
  /\ Set(h, "down", "none")
  /\ owner' = IF owner = h THEN "abandoned" ELSE owner
  /\ UNCHANGED <<file, effects, budgets>>

\* append_synced returns before the effect is made.
Appends(h) ==
  /\ proc[h].pc = "published" /\ budgets.append > 0
  /\ \E kind \in {"admitted", "older", "other"} :
       /\ file' = Append(file, Frame(kind, budgets.append))
       /\ Set(h, IF kind # "other" THEN "admitted" ELSE "published", proc[h].outcome)
  /\ budgets' = [budgets EXCEPT !.append = @ - 1]
  /\ UNCHANGED <<owner, effects>>

Effect(h) ==
  /\ proc[h].pc = "admitted"
  /\ effects' = effects \cup {file[Len(file)].n}
  /\ Set(h, "published", proc[h].outcome)
  /\ UNCHANGED <<owner, file, budgets>>

\* A crash abandons the mutex; one in the middle of an append leaves a frame
\* cut in its header, its payload or its digest.
Crash(h) ==
  /\ proc[h].pc # "down" /\ budgets.crash > 0
  /\ Set(h, "down", "none")
  /\ owner' = IF owner = h THEN "abandoned" ELSE owner
  /\ \/ UNCHANGED file
     \/ /\ proc[h].pc = "published"
        /\ \E cut \in Torn : file' = Append(file, Frame(cut, 0))
  /\ budgets' = [budgets EXCEPT !.crash = @ - 1]
  /\ UNCHANGED effects

Next == \E h \in Helpers : Acquire(h) \/ Recover(h) \/ Publish(h) \/ Exits(h)
          \/ Appends(h) \/ Effect(h) \/ Crash(h)
Spec == Init /\ [][Next]_vars

---------------------------------------------------------------------------
\* The machine has one helper: between the authority and the endpoint, and
\* while it serves, no other helper is past the authority, however often
\* helpers crash and take over (compose_privileged_helper).
OneHelper ==
  Cardinality({h \in Helpers : proc[h].pc \in {"held", "recovered", "published", "admitted"}}) <= 1

\* A helper whose recovery was ProvenClean started on a machine with no
\* effect of an earlier helper: the journal is written before the effect, so
\* a torn append has none.
ProvenCleanIsTrue ==
  \A h \in Helpers : proc[h].pc = "recovered" /\ proc[h].outcome = "ProvenClean" => effects = {}
=============================================================================
