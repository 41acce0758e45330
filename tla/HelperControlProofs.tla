------------------------- MODULE HelperControlProofs -------------------------
(***************************************************************************)
(* HelperControl is correct for every set of connections and operations:   *)
(* who may pass the gate, whose version an admission carries, and what     *)
(* GetOperation answers.                                                   *)
(***************************************************************************)
EXTENDS HelperControl, TLAPS

-----------------------------------------------------------------------------
(* Types.                                                                  *)

\* Every step of the contract keeps the contract's types, whoever takes it.
LEMMA ContractTypes ==
    ASSUME ContractTypeOK,
           \/ RuntimeStep
           \/ \E o \in Applies : Accept(o) \/ Adopt(o) \/ PublishRefusal(o)
           \/ CancelToken \/ Disconnect
           \/ \E s \in Stops : PublishStop(s)
           \/ UNCHANGED contractVars
    PROVE  ContractTypeOK'
<1> USE DEF ContractTypeOK, Publish, Event
<1>1. ASSUME Progress \/ Establish \/ Abort \/ Finish PROVE ContractTypeOK'
  <2>1. CASE Progress
    BY <2>1 DEF Progress
  <2>2. CASE Establish
    BY <2>2 DEF Establish
  <2>3. CASE Abort
    BY <2>3 DEF Abort
  <2>4. CASE Finish
    BY <2>4, Zenon DEF Finish
  <2>5. QED
    BY <1>1, <2>1, <2>2, <2>3, <2>4
<1>2. ASSUME Replace \/ Quiesce \/ Lose \/ ReportLoss PROVE ContractTypeOK'
  BY <1>2 DEF Replace, Quiesce, Lose, ReportLoss, TakeDown, NoPlane
<1>3. ASSUME NEW o \in Applies, Accept(o) \/ Adopt(o) \/ PublishRefusal(o)
      PROVE  ContractTypeOK'
  <2>1. CASE Accept(o)
    BY <2>1, Zenon DEF Accept
  <2>2. CASE Adopt(o)
    BY <2>2 DEF Adopt
  <2>3. CASE PublishRefusal(o)
    BY <2>3 DEF PublishRefusal
  <2>4. QED
    BY <1>3, <2>1, <2>2, <2>3
<1>4. ASSUME CancelToken \/ Disconnect PROVE ContractTypeOK'
  BY <1>4, Zenon DEF CancelToken, Disconnect, TakeDown
<1>5. ASSUME NEW s \in Stops, PublishStop(s) PROVE ContractTypeOK'
  BY <1>5 DEF PublishStop
<1>6. ASSUME UNCHANGED contractVars PROVE ContractTypeOK'
  BY <1>6 DEF contractVars
<1>7. QED
  BY <1>1, <1>2, <1>3, <1>4, <1>5, <1>6 DEF RuntimeStep

\* The terminal observer keeps the types of what it changes.
LEMMA ObserveTypes ==
    ASSUME TypeOK, Observe
    PROVE  pending' \in SUBSET Applies /\ terminals' \in [AllOps -> Results]
BY SMTT(30) DEF TypeOK, Observe, AllOps, Mutations, Results

\* An admission keeps the journal a sequence of records.
LEMMA AdmitTypes ==
    ASSUME TypeOK, NEW c \in Conns, NEW o \in AllOps, Admit(c, o)
    PROVE  journal' \in Seq([op : AllOps, by : Conns, version : Nat])
<1> DEFINE R == [op : AllOps, by : Conns, version : Nat]
           e == [op |-> o, by |-> c, version |-> version]
<1>1. e \in R /\ journal \in Seq(R)
  BY DEF TypeOK
<1>2. journal' = IF IsAdmitted(o) THEN journal ELSE Append(journal, e)
  BY DEF Admit
<1> HIDE DEF R, e
<1>3. journal' \in Seq(R)
  BY <1>1, <1>2
<1>4. QED
  BY <1>3 DEF R

\* Ending a connection's lease keeps the types of slots and handles, and so
\* does retiring the owner.
LEMMA TerminateTypes ==
    ASSUME TypeOK, NEW c \in Conns, Terminate(c)
    PROVE  /\ leases' \in SUBSET Conns
           /\ slot' \in [Conns -> [state : {"empty", "holding", "resolved"},
                                  version : Nat]]
<1>1. leases' \in SUBSET Conns
  BY DEF TypeOK, Terminate
<1>2. slot' = [d \in Conns |-> IF d = c /\ slot[c].state = "holding"
                              THEN [slot[c] EXCEPT !.state = "resolved"]
                              ELSE slot[d]]
  BY Zenon DEF TypeOK, Terminate
<1>3. QED
  BY <1>1, <1>2, Zenon DEF TypeOK

\* Every action of the endpoint keeps the types of the variables.
LEMMA TypeStep == ASSUME TypeOK, [Next]_vars PROVE TypeOK'
<1> USE HelperOps DEF leaseVars, coreVars
<1>0. ContractTypeOK /\ Mutations \subseteq AllOps
  BY DEF TypeOK, AllOps
<1>1. ASSUME NEW c \in Conns, Handshake(c) \/ TokenReceived(c) PROVE TypeOK'
  <2>1. ContractTypeOK'
    BY <1>0, <1>1, ContractTypes DEF Handshake, TokenReceived
  <2>2. CASE Handshake(c)
    BY <2>1, <2>2 DEF TypeOK, Handshake
  <2>3. CASE TokenReceived(c)
    <3>1. slot' = [d \in Conns |-> IF d = owner
                                  THEN [slot[d] EXCEPT !.state = "resolved"]
                                  ELSE slot[d]]
      BY <2>3, Zenon DEF TypeOK, TokenReceived
    <3>2. slot' \in [Conns -> [state : {"empty", "holding", "resolved"},
                               version : Nat]]
      BY <3>1 DEF TypeOK
    <3>3. QED
      BY <2>1, <2>3, <3>2 DEF TypeOK, TokenReceived
  <2>4. QED
    BY <1>1, <2>2, <2>3
<1>2. ASSUME NEW c \in Conns, StreamEnd(c) PROVE TypeOK'
  <2>1. ContractTypeOK'
    BY <1>0, <1>2, ContractTypes DEF StreamEnd
  <2>2. CASE Service /\ owner = c
    <3>1. Terminate(c) /\ owner' = None /\ version' = version + 1
      BY <1>2, <2>2 DEF StreamEnd, Retire
    <3>2. QED
      BY <1>2, <2>1, <3>1, TerminateTypes DEF TypeOK, StreamEnd
  <2>3. CASE ~(Service /\ owner = c)
    BY <1>2, <2>1, <2>3 DEF TypeOK, StreamEnd
  <2>4. QED
    BY <2>2, <2>3
<1>3. ASSUME NEW c \in Conns, Acquire(c) \/ AcquireRefused(c) PROVE TypeOK'
  <2>1. ContractTypeOK'
    BY <1>0, <1>3, ContractTypes DEF Acquire, AcquireRefused
  <2>2. journal' \in Seq([op : AllOps, by : Conns, version : Nat])
    BY <1>3, AdmitTypes, Zenon DEF Acquire, AcquireRefused, AllOps, TypeOK
  <2>3. CASE Acquire(c)
    <3>1. /\ slot' \in [Conns -> [state : {"empty", "holding", "resolved"},
                                  version : Nat]]
          /\ leases' \in SUBSET Conns
      BY <2>3 DEF TypeOK, Acquire
    <3>2. watermark' \in 0..MaxWatermark
      BY <2>3 DEF TypeOK, Acquire
    <3>3. terminals' \in [AllOps -> Results]
      BY <2>3 DEF TypeOK, Acquire, AllOps, Results
    <3>4. QED
      BY <2>1, <2>2, <2>3, <3>1, <3>2, <3>3 DEF TypeOK, Acquire
  <2>4. CASE AcquireRefused(c)
    BY <2>1, <2>2, <2>4, Zenon DEF TypeOK, AcquireRefused, Results
  <2>5. QED
    BY <1>3, <2>3, <2>4
<1>4. ASSUME NEW c \in Conns, NEW o \in Mutations, GateRefused(c, o) PROVE TypeOK'
  <2>1. ContractTypeOK'
    BY <1>0, <1>4, ContractTypes DEF GateRefused
  <2>2. journal' \in Seq([op : AllOps, by : Conns, version : Nat])
    BY <1>0, <1>4, AdmitTypes, Zenon DEF GateRefused
  <2>3. QED
    BY <1>4, <2>1, <2>2 DEF TypeOK, GateRefused
<1>5. ASSUME NEW c \in Conns, NEW o \in Applies, ApplyAdmitted(c, o) PROVE TypeOK'
  <2>1. ContractTypeOK'
    BY <1>0, <1>5, ContractTypes DEF ApplyAdmitted
  <2>2. journal' \in Seq([op : AllOps, by : Conns, version : Nat])
    BY <1>5, AdmitTypes, Zenon DEF ApplyAdmitted, AdmitAndGate, AllOps, Mutations
  <2>3. QED
    BY <1>5, <2>1, <2>2 DEF TypeOK, ApplyAdmitted, AdmitAndGate, Mutations
<1>6. ASSUME NEW c \in Conns, NEW s \in Stops, StopAdmitted(c, s) PROVE TypeOK'
  <2>1. ContractTypeOK'
    BY <1>0, <1>6, ContractTypes DEF StopAdmitted
  <2>2. journal' \in Seq([op : AllOps, by : Conns, version : Nat])
    BY <1>6, AdmitTypes, Zenon DEF StopAdmitted, AdmitAndGate, AllOps, Mutations
  <2>3. QED
    BY <1>6, <2>1, <2>2 DEF TypeOK, StopAdmitted, AdmitAndGate, Mutations
<1>7. ASSUME NEW c \in Conns, NEW r \in Releases, Release(c, r) PROVE TypeOK'
  <2>1. ContractTypeOK'
    BY <1>0, <1>7, ContractTypes DEF Release
  <2>2. journal' \in Seq([op : AllOps, by : Conns, version : Nat])
    BY <1>7, AdmitTypes, Zenon DEF Release, AdmitAndGate, AllOps, Mutations
  <2>3. watermark' \in 0..MaxWatermark
    BY <1>7 DEF TypeOK, Release, AdmitAndGate
  <2>4. /\ leases' \in SUBSET Conns /\ owner' \in Conns \cup {None}
        /\ version' \in Nat \ {0}
        /\ slot' \in [Conns -> [state : {"empty", "holding", "resolved"}, version : Nat]]
    BY <1>7, TerminateTypes DEF TypeOK, Release, Retire
  <2>5. QED
    BY <1>7, <2>1, <2>2, <2>3, <2>4
       DEF TypeOK, Release, AllOps, Mutations, Results
<1>8. ASSUME NEW o \in Applies, ApplyStarted(o) \/ ApplyFailed(o) PROVE TypeOK'
  <2>1. ContractTypeOK'
    BY <1>0, <1>8, ContractTypes DEF ApplyStarted, ApplyFailed
  <2>2. pending' \in SUBSET Applies /\ terminals' \in [AllOps -> Results]
    BY <1>8, ObserveTypes DEF ApplyStarted, ApplyFailed
  <2>3. QED
    BY <1>8, <2>1, <2>2, Zenon DEF TypeOK, ApplyStarted, ApplyFailed, Mutations
<1>9. ASSUME NEW o \in Applies, ApplyRefused(o) PROVE TypeOK'
  <2>1. ContractTypeOK'
    BY <1>0, <1>9, ContractTypes DEF ApplyRefused
  <2>2. QED
    BY <1>9, <2>1 DEF TypeOK, ApplyRefused, Mutations
<1>10. ASSUME NEW s \in Stops, StopCancels(s) \/ StopTakes(s) PROVE TypeOK'
  <2>1. ContractTypeOK'
    BY <1>0, <1>10, ContractTypes DEF StopCancels, StopTakes
  <2>2. QED
    BY <1>10, <2>1, ZenonT(40) DEF TypeOK, StopCancels, StopTakes, Mutations
<1>11. ASSUME NEW s \in Stops, StopReturns(s) PROVE TypeOK'
  <2>1. ContractTypeOK'
    BY <1>0, <1>11, ContractTypes DEF StopReturns
  <2>2. QED
    BY <1>11, <2>1 DEF TypeOK, StopReturns, Mutations
<1>12. ASSUME NEW s \in Stops, StopRecorded(s) \/ StopPublished(s) PROVE TypeOK'
  <2>1. ContractTypeOK'
    BY <1>0, <1>12, ContractTypes DEF StopRecorded, StopPublished
  <2>2. QED
    BY <1>12, <2>1, ZenonT(40)
       DEF TypeOK, StopRecorded, StopPublished, AllOps, Mutations, Results
<1>13. ASSUME RuntimeMoves PROVE TypeOK'
  <2>1. ContractTypeOK'
    BY <1>0, <1>13, ContractTypes DEF RuntimeMoves
  <2>2. pending' \in SUBSET Applies /\ terminals' \in [AllOps -> Results]
    BY <1>13, ObserveTypes DEF RuntimeMoves
  <2>3. QED
    BY <1>13, <2>1, <2>2 DEF TypeOK, RuntimeMoves
<1>14. ASSUME UNCHANGED vars PROVE TypeOK'
  <2>1. ContractTypeOK'
    BY <1>0, <1>14, ContractTypes DEF vars
  <2>2. QED
    BY <1>14, <2>1 DEF TypeOK, vars
<1>15. QED
  BY <1>1, <1>2, <1>3, <1>4, <1>5, <1>6, <1>7, <1>8, <1>9, <1>10, <1>11,
     <1>12, <1>13, <1>14
     DEF Next, LeaseStep, RequestStep, ApplyStep, StopStep

-----------------------------------------------------------------------------
(* The inductive invariants.                                               *)

\* No admission is dated after the current ownership version, and one that
\* carries the current version was made by the connection that owns it now.
AdmissionsDated ==
    \A i \in DOMAIN journal :
        /\ journal[i].version <= version
        /\ journal[i].version = version => owner = journal[i].by

\* Whoever may still write a terminal finds none: a mutation not asked for yet,
\* a pending apply, a stop before its bookkeeping.
TerminalsOpen ==
    /\ \A o \in pending : handler[o] # "none" /\ terminals[o] = None
    /\ \A o \in Mutations : handler[o] = "none" => terminals[o] = None
    /\ \A s \in Stops : handler[s] \notin {"publish", "done"} => terminals[s] = None

\* What PendingTracked rests on: no apply is ever reported Idle, so its failure
\* or success cannot be dropped as stale, and only a running assembly is settled.
OutcomesReported ==
    /\ latest.phase = "Idle" => latest.op \notin Applies
    /\ settled => running # None

-----------------------------------------------------------------------------
(* Preservation.                                                           *)

\* Retiring the owner ends the only lease there can be.
LEMMA RetireLeases ==
    ASSUME TypeOK, LeaseIsOwners, NEW c \in Conns, owner = c, Retire(c)
    PROVE  LeaseIsOwners'
<1>1. leases' = leases \ {c} /\ owner' = None
  BY DEF Retire, Terminate
<1>2. leases' = {}
  BY <1>1 DEF TypeOK, LeaseIsOwners
<1>3. \A d \in Conns : slot'[d].state # "holding"
  <2>1. CASE slot[c].state = "holding"
    BY <2>1 DEF Retire, Terminate, TypeOK, LeaseIsOwners
  <2>2. CASE slot[c].state # "holding"
    BY <2>2 DEF Retire, Terminate, TypeOK, LeaseIsOwners
  <2>3. QED
    BY <2>1, <2>2
<1>4. QED
  BY <1>2, <1>3 DEF LeaseIsOwners

\* Handshakes, tokens, the ends of streams and the two lease requests keep the
\* held tokens with the owner; nothing else touches them.
LEMMA LeaseStepKeeps ==
    ASSUME TypeOK, LeaseIsOwners, [Next]_vars PROVE LeaseIsOwners'
<1> USE HelperOps
<1>1. ASSUME UNCHANGED leaseVars PROVE LeaseIsOwners'
  BY <1>1 DEF LeaseIsOwners, leaseVars
<1>2. ASSUME NEW c \in Conns, Handshake(c) PROVE LeaseIsOwners'
  BY <1>2 DEF LeaseIsOwners, Handshake, TypeOK
<1>3. ASSUME NEW c \in Conns, TokenReceived(c) PROVE LeaseIsOwners'
  <2>1. leases' = {} /\ \A d \in Conns \ {owner} : slot'[d] = slot[d]
    BY <1>3 DEF LeaseIsOwners, TokenReceived, TypeOK
  <2>2. slot'[owner].state = "resolved"
    BY <1>3 DEF TokenReceived, TypeOK
  <2>3. QED
    BY <1>3, <2>1, <2>2 DEF LeaseIsOwners, TokenReceived, TypeOK
<1>4. ASSUME NEW c \in Conns, StreamEnd(c) PROVE LeaseIsOwners'
  <2>1. CASE Service /\ owner = c
    BY <1>4, <2>1, RetireLeases DEF StreamEnd
  <2>2. CASE ~(Service /\ owner = c)
    BY <1>4, <2>2 DEF StreamEnd, LeaseIsOwners
  <2>3. QED
    BY <2>1, <2>2
<1>5. ASSUME NEW c \in Conns, Acquire(c) PROVE LeaseIsOwners'
  <2>1. /\ owner = c /\ owner' = owner /\ version' = version
        /\ slot' = [slot EXCEPT ![c] = [state |-> "holding", version |-> version]]
    BY <1>5 DEF Acquire
  <2>2. leases' = leases \cup {c}
    BY <1>5 DEF Acquire, LeaseIsOwners, TypeOK
  <2>3. QED
    BY <2>1, <2>2 DEF LeaseIsOwners, TypeOK
<1>6. ASSUME NEW c \in Conns, NEW r \in Releases, Release(c, r)
      PROVE  LeaseIsOwners'
  BY <1>6, RetireLeases DEF Release, AdmitAndGate
<1>7. ASSUME NEW c \in Conns, RequestStep(c), ~(\E r \in Releases : Release(c, r))
      PROVE  UNCHANGED leaseVars
  BY <1>7 DEF RequestStep, GateRefused, ApplyAdmitted, StopAdmitted
<1>8. ASSUME \/ \E o \in Applies : ApplyStep(o)
             \/ \E s \in Stops : StopStep(s)
             \/ RuntimeMoves \/ UNCHANGED vars
      PROVE  UNCHANGED leaseVars
  BY <1>8 DEF ApplyStep, ApplyStarted, ApplyRefused, ApplyFailed, StopStep,
     StopCancels, StopTakes, StopReturns, StopRecorded, StopPublished,
     RuntimeMoves, vars
<1>9. ASSUME NEW c \in Conns, AcquireRefused(c) PROVE UNCHANGED leaseVars
  BY <1>9 DEF AcquireRefused
<1>10. QED
  BY <1>1, <1>2, <1>3, <1>4, <1>5, <1>6, <1>7, <1>8, <1>9
     DEF Next, LeaseStep, RequestStep

\* What an entry of an admission journal is.
LEMMA JournalEntries ==
    ASSUME NEW j \in Seq([op : AllOps, by : Conns, version : Nat]),
           NEW i \in DOMAIN j
    PROVE  j[i].by \in Conns /\ j[i].version \in Nat
<1> DEFINE R == [op : AllOps, by : Conns, version : Nat]
<1>1. j \in Seq(R)
  OBVIOUS
<1>2. \A e \in R : e.by \in Conns /\ e.version \in Nat
  OBVIOUS
<1> HIDE DEF R
<1>3. j[i] \in R
  BY <1>1
<1>4. QED
  BY <1>2, <1>3

\* An admission of the owner is dated with the current version.
LEMMA AdmitDates ==
    ASSUME TypeOK, AdmissionsDated, NEW c \in Conns, NEW o \in AllOps,
           owner = c, Admit(c, o)
    PROVE  \A i \in DOMAIN journal' :
               /\ journal'[i].version <= version
               /\ journal'[i].version = version => owner = journal'[i].by
<1> DEFINE R == [op : AllOps, by : Conns, version : Nat]
           e == [op |-> o, by |-> c, version |-> version]
<1>1. e \in R /\ journal \in Seq(R) /\ e.version = version /\ e.by = c
  BY DEF TypeOK
<1>2. version <= version
  BY DEF TypeOK
<1>3. journal' = IF IsAdmitted(o) THEN journal ELSE Append(journal, e)
  BY DEF Admit
<1> HIDE DEF R, e
<1>4. SUFFICES ASSUME NEW i \in DOMAIN journal'
               PROVE  \/ journal'[i] = e
                      \/ i \in DOMAIN journal /\ journal'[i] = journal[i]
  BY <1>1, <1>2 DEF AdmissionsDated
<1>5. QED
  BY <1>1, <1>3

\* Admissions stay dated: the version changes only when the owner goes.
LEMMA DatedStep ==
    ASSUME TypeOK, AdmissionsDated, [Next]_vars PROVE AdmissionsDated'
<1> USE HelperOps
<1>0. \A i \in DOMAIN journal : journal[i].by \in Conns /\ journal[i].version \in Nat
  BY JournalEntries, Zenon DEF TypeOK
<1>1. ASSUME UNCHANGED <<journal, owner, version>> PROVE AdmissionsDated'
  BY <1>1 DEF AdmissionsDated
<1>2. ASSUME NEW c \in Conns, Handshake(c) PROVE AdmissionsDated'
  BY <1>0, <1>2 DEF AdmissionsDated, Handshake, coreVars
<1>3. ASSUME NEW c \in Conns, StreamEnd(c) PROVE AdmissionsDated'
  <2>1. CASE Service /\ owner = c
    <3>1. version' = version + 1 /\ journal' = journal
      BY <1>3, <2>1 DEF StreamEnd, Retire, coreVars
    <3>2. QED
      BY <1>0, <3>1, SMTT(30) DEF AdmissionsDated, TypeOK
  <2>2. CASE ~(Service /\ owner = c)
    BY <1>1, <1>3, <2>2 DEF StreamEnd, coreVars
  <2>3. QED
    BY <2>1, <2>2
<1>4. ASSUME NEW c \in Conns, NEW o \in AllOps, owner = c, Admit(c, o),
             UNCHANGED <<owner, version>>
      PROVE  AdmissionsDated'
  BY <1>4, AdmitDates DEF AdmissionsDated
<1>5. ASSUME NEW c \in Conns, NEW r \in Releases, Release(c, r)
      PROVE  AdmissionsDated'
  <2>1. owner = c /\ Admit(c, r) /\ version' = version + 1
    BY <1>5 DEF Release, AdmitAndGate, Retire
  <2>2. \A i \in DOMAIN journal' : journal'[i].version <= version
    BY <2>1, AdmitDates DEF AllOps, Mutations
  <2>3. journal' \in Seq([op : AllOps, by : Conns, version : Nat])
    BY <2>1, AdmitTypes, Zenon DEF AllOps, Mutations
  <2>4. \A i \in DOMAIN journal' : journal'[i].version \in Nat
    BY <2>3, JournalEntries, Zenon
  <2>5. QED
    BY <2>1, <2>2, <2>4 DEF AdmissionsDated, TypeOK
<1>6. ASSUME NEW c \in Conns, LeaseStep(c) PROVE AdmissionsDated'
  <2>1. CASE TokenReceived(c)
    BY <1>1, <2>1 DEF TokenReceived, coreVars
  <2>2. CASE Acquire(c)
    BY <1>4, <2>2 DEF Acquire, AllOps
  <2>3. CASE AcquireRefused(c)
    BY <1>1, <2>3 DEF AcquireRefused, leaseVars
  <2>4. QED
    BY <1>2, <1>3, <1>6, <2>1, <2>2, <2>3, Zenon DEF LeaseStep
<1>7. ASSUME NEW c \in Conns, RequestStep(c) PROVE AdmissionsDated'
  BY <1>4, <1>5, <1>7
     DEF RequestStep, GateRefused, ApplyAdmitted, StopAdmitted, AdmitAndGate,
         leaseVars, AllOps, Mutations
<1>8. ASSUME \/ \E o \in Applies : ApplyStep(o)
             \/ \E s \in Stops : StopStep(s)
             \/ RuntimeMoves \/ UNCHANGED vars
      PROVE  UNCHANGED <<journal, owner, version>>
  BY <1>8 DEF ApplyStep, ApplyStarted, ApplyRefused, ApplyFailed, StopStep,
     StopCancels, StopTakes, StopReturns, StopRecorded, StopPublished,
     RuntimeMoves, vars, leaseVars, coreVars
<1>9. QED
  BY <1>1, <1>6, <1>7, <1>8 DEF Next

\* The observer writes the terminal of an entry it takes out, and no other.
LEMMA ObserveFrame ==
    ASSUME TypeOK, Observe
    PROVE  /\ pending' \subseteq pending
           /\ \A o \in AllOps : o \notin pending \ pending' => terminals'[o] = terminals[o]
BY SMTT(30) DEF TypeOK, Observe, AllOps, Mutations

\* Nothing that may still be written has a terminal, and so none is rewritten.
LEMMA TerminalsStep ==
    ASSUME TypeOK, TerminalsOpen, [Next]_vars
    PROVE  /\ TerminalsOpen'
           /\ \A o \in Mutations : terminals[o] # None => terminals'[o] = terminals[o]
<1> USE HelperOps, ContractOps
<1> DEFINE Kept == \A o \in Mutations : terminals[o] # None => terminals'[o] = terminals[o]
<1>1. ASSUME UNCHANGED <<pending, terminals, handler>> PROVE TerminalsOpen' /\ Kept
  BY <1>1 DEF TerminalsOpen
<1>2. ASSUME NEW c \in Conns, Acquire(c) \/ AcquireRefused(c)
      PROVE  TerminalsOpen' /\ Kept
  <2>1. /\ pending' = pending /\ handler' = handler
        /\ \A o \in Mutations : terminals'[o] = terminals[o]
    BY <1>2 DEF Acquire, AcquireRefused, TypeOK, AllOps
  <2>2. QED
    BY <2>1, Zenon DEF TerminalsOpen, TypeOK, Mutations
<1>3. ASSUME NEW o \in Mutations, NEW h, h # "none", handler[o] # "none",
             handler' = [handler EXCEPT ![o] = h], Observe, o \notin Stops
      PROVE  TerminalsOpen' /\ Kept
  <2>1. /\ pending' \subseteq pending /\ pending \subseteq Applies
        /\ \A m \in Mutations : m \notin pending \ pending' => terminals'[m] = terminals[m]
    BY <1>3, ObserveFrame DEF TypeOK, AllOps
  <2>2. \A m \in Mutations : handler'[m] = IF m = o THEN h ELSE handler[m]
    BY <1>3 DEF TypeOK
  <2>3. Kept /\ \A m \in pending' : handler'[m] # "none" /\ terminals'[m] = None
    BY <1>3, <2>1, <2>2 DEF TerminalsOpen, Mutations
  <2>4. \A m \in Mutations : handler'[m] = "none" => terminals'[m] = None
    BY <1>3, <2>1, <2>2 DEF TerminalsOpen
  <2>5. \A s \in Stops : handler'[s] \notin {"publish", "done"} => terminals'[s] = None
    BY <1>3, <2>1, <2>2 DEF TerminalsOpen, Mutations
  <2>6. QED
    BY <2>3, <2>4, <2>5 DEF TerminalsOpen
<1>4. ASSUME NEW o \in Applies, ApplyStep(o) PROVE TerminalsOpen' /\ Kept
  <2>1. CASE ApplyStarted(o) \/ ApplyFailed(o)
    BY <1>3, <2>1 DEF ApplyStarted, ApplyFailed, Mutations
  <2>2. CASE ApplyRefused(o)
    <3>1. /\ pending' = pending /\ terminals' = terminals
          /\ \A m \in Mutations : handler'[m] = IF m = o THEN "refused" ELSE handler[m]
      BY <2>2 DEF ApplyRefused, coreVars, TypeOK
    <3>2. QED
      BY <2>2, <3>1 DEF ApplyRefused, TerminalsOpen, TypeOK, Mutations
  <2>3. QED
    BY <1>4, <2>1, <2>2 DEF ApplyStep
<1>5. ASSUME RuntimeMoves PROVE TerminalsOpen' /\ Kept
  <2>1. /\ pending' \subseteq pending /\ pending \subseteq Applies
        /\ \A m \in Mutations : m \notin pending \ pending' => terminals'[m] = terminals[m]
    BY <1>5, ObserveFrame DEF TypeOK, AllOps, RuntimeMoves
  <2>2. QED
    BY <1>5, <2>1 DEF TerminalsOpen, Mutations, RuntimeMoves
<1>6. ASSUME NEW c \in Conns, NEW o \in Mutations, GateRefused(c, o)
      PROVE  TerminalsOpen' /\ Kept
  <2>1. /\ pending' = pending /\ terminals' = terminals /\ handler[o] = "none"
        /\ \A m \in Mutations : handler'[m] = IF m = o THEN "done" ELSE handler[m]
    BY <1>6 DEF GateRefused, Fresh, TypeOK
  <2>2. QED
    BY <2>1, Zenon DEF TerminalsOpen, TypeOK, Mutations
<1>7. ASSUME NEW c \in Conns, NEW o \in Applies, ApplyAdmitted(c, o)
      PROVE  TerminalsOpen' /\ Kept
  <2>1. /\ pending' = pending \cup {o} /\ terminals' = terminals /\ handler[o] = "none"
        /\ \A m \in Mutations : handler'[m] = IF m = o THEN "admitted" ELSE handler[m]
    BY <1>7 DEF ApplyAdmitted, Fresh, TypeOK
  <2>2. QED
    BY <2>1, Zenon DEF TerminalsOpen, TypeOK, Mutations
<1>8. ASSUME NEW c \in Conns, NEW s \in Stops, StopAdmitted(c, s)
      PROVE  TerminalsOpen' /\ Kept
  <2>1. /\ pending' = pending /\ terminals' = terminals /\ handler[s] = "none"
        /\ \A m \in Mutations : handler'[m] = IF m = s THEN "admitted" ELSE handler[m]
    BY <1>8 DEF StopAdmitted, Fresh, TypeOK
  <2>2. QED
    BY <2>1, Zenon DEF TerminalsOpen, TypeOK, Mutations
<1>9. ASSUME NEW c \in Conns, NEW r \in Releases, Release(c, r)
      PROVE  TerminalsOpen' /\ Kept
  <2>1. /\ pending' = {} /\ handler[r] = "none"
        /\ \A m \in Mutations : /\ handler'[m] = IF m = r THEN "done" ELSE handler[m]
                                /\ m # r => terminals'[m] = terminals[m]
    BY <1>9 DEF Release, Fresh, TypeOK, AllOps
  <2>2. r \in Mutations /\ Stops \subseteq Mutations \ {r}
    BY DEF Mutations
  <2>3. Kept
    BY <2>1, <2>2 DEF TerminalsOpen
  <2>4. /\ \A m \in Mutations : handler'[m] = "none" => terminals'[m] = None
        /\ \A s \in Stops : handler'[s] \notin {"publish", "done"} => terminals'[s] = None
    BY <2>1, <2>2 DEF TerminalsOpen
  <2>5. QED
    BY <2>1, <2>3, <2>4 DEF TerminalsOpen
<1>10. ASSUME NEW s \in Stops, StopStep(s) PROVE TerminalsOpen' /\ Kept
  <2>1. CASE StopCancels(s) \/ StopTakes(s) \/ StopReturns(s)
    <3>1. PICK h \in {"cancelled", "disconnecting", "taken", "returned"} :
              handler' = [handler EXCEPT ![s] = h]
      BY <2>1 DEF StopCancels, StopTakes, StopReturns
    <3>2. /\ pending' = pending /\ terminals' = terminals
          /\ handler[s] \notin {"none", "publish", "done"}
      BY <2>1 DEF StopCancels, StopTakes, StopReturns, coreVars
    <3>3. \A m \in Mutations : handler'[m] = IF m = s THEN h ELSE handler[m]
      BY <3>1 DEF TypeOK
    <3>4. QED
      BY <3>1, <3>2, <3>3 DEF TerminalsOpen, TypeOK, Mutations
  <2>2. CASE StopRecorded(s)
    <3>1. /\ pending' = {} /\ handler[s] = "returned"
          /\ \A m \in Mutations :
                 /\ handler'[m] = IF m = s THEN "publish" ELSE handler[m]
                 /\ m # s => terminals'[m] = terminals[m]
      BY <2>2 DEF StopRecorded, TypeOK, AllOps
    <3>2. QED
      BY <3>1, Zenon DEF TerminalsOpen, TypeOK, Mutations
  <2>3. CASE StopPublished(s)
    <3>1. /\ pending' = pending /\ terminals' = terminals /\ handler[s] = "publish"
          /\ \A m \in Mutations : handler'[m] = IF m = s THEN "done" ELSE handler[m]
      BY <2>3 DEF StopPublished, TypeOK, coreVars
    <3>2. QED
      BY <3>1, Zenon DEF TerminalsOpen, TypeOK, Mutations
  <2>4. QED
    BY <1>10, <2>1, <2>2, <2>3 DEF StopStep
<1>11. ASSUME NEW c \in Conns, LeaseStep(c) PROVE TerminalsOpen' /\ Kept
  BY <1>1, <1>2, <1>11 DEF LeaseStep, Handshake, TokenReceived, StreamEnd, coreVars
<1>12. ASSUME UNCHANGED vars PROVE TerminalsOpen' /\ Kept
  BY <1>1, <1>12 DEF vars, coreVars
<1>13. QED
  BY <1>4, <1>5, <1>6, <1>7, <1>8, <1>9, <1>10, <1>11, <1>12, Zenon
     DEF Next, RequestStep

\* An outcome of an apply is never dropped as stale: after its Connected or
\* Failed was published, the newest event is a Connected or Failed of it.
LEMMA OutcomeShown ==
    ASSUME TypeOK, OutcomesReported, NEW o \in Applies,
           Publish(Event(o, "Connected")) \/ Publish(Event(o, "Failed"))
    PROVE  latest'.op = o /\ latest'.phase \in {"Connected", "Failed"}
BY DEF OutcomesReported, Publish, Event

\* Every step leaves each pending apply with someone who will publish for it.
LEMMA TrackedStep ==
    ASSUME TypeOK, TerminalsOpen, OutcomesReported, PendingTracked, [Next]_vars
    PROVE  OutcomesReported' /\ PendingTracked'
<1> USE HelperOps, ContractOps
<1>0. /\ pending \subseteq Applies /\ running \in Applies \cup {None}
      /\ latest.op \in Applies \cup Stops \cup {None} /\ settled \in BOOLEAN
      /\ plane.op \in Applies \cup {None}
  BY DEF TypeOK, ContractTypeOK
<1>1. ASSUME UNCHANGED contractVars, pending' \subseteq pending,
             \A o \in pending' : handler'[o] = handler[o]
      PROVE  OutcomesReported' /\ PendingTracked'
  BY <1>1 DEF OutcomesReported, PendingTracked, contractVars
<1>2. ASSUME NEW c \in Conns, LeaseStep(c) PROVE OutcomesReported' /\ PendingTracked'
  BY <1>1, <1>2 DEF LeaseStep, Handshake, TokenReceived, StreamEnd, Acquire,
     AcquireRefused, coreVars
<1>3. ASSUME NEW c \in Conns, NEW o \in Mutations, GateRefused(c, o)
      PROVE  OutcomesReported' /\ PendingTracked'
  <2>1. pending' = pending /\ o \notin pending /\ pending \subseteq Mutations
    BY <1>0, <1>3 DEF GateRefused, Fresh, TerminalsOpen, Mutations
  <2>2. \A m \in pending : handler'[m] = handler[m]
    BY <1>3, <2>1 DEF GateRefused, TypeOK
  <2>3. QED
    BY <1>1, <1>3, <2>1, <2>2 DEF GateRefused
<1>4. ASSUME NEW c \in Conns, NEW o \in Applies, ApplyAdmitted(c, o)
      PROVE  OutcomesReported' /\ PendingTracked'
  <2>1. \A m \in Mutations : handler'[m] = IF m = o THEN "admitted" ELSE handler[m]
    BY <1>4 DEF ApplyAdmitted, TypeOK
  <2>2. QED
    BY <1>0, <1>4, <2>1 DEF ApplyAdmitted, OutcomesReported, PendingTracked,
       contractVars, Mutations
<1>5. ASSUME NEW c \in Conns, NEW s \in Stops, StopAdmitted(c, s)
      PROVE  OutcomesReported' /\ PendingTracked'
  <2>1. \A m \in Mutations : m # s => handler'[m] = handler[m]
    BY <1>5 DEF StopAdmitted, TypeOK
  <2>2. QED
    BY <1>0, <1>1, <1>5, <2>1 DEF StopAdmitted, Mutations
<1>6. ASSUME NEW c \in Conns, NEW r \in Releases, Release(c, r)
      PROVE  OutcomesReported' /\ PendingTracked'
  BY <1>1, <1>6 DEF Release
<1>7. ASSUME NEW o \in Applies, ApplyStarted(o)
      PROVE  OutcomesReported' /\ PendingTracked'
  <2>1. /\ pending' \subseteq pending /\ running = None
        /\ \A m \in Mutations : m # o => handler'[m] = handler[m]
    BY <1>7, ObserveFrame DEF ApplyStarted, Accept, Adopt, TypeOK
  <2>2. CASE Accept(o)
    BY <1>0, <2>1, <2>2 DEF Accept, OutcomesReported, PendingTracked, Mutations
  <2>3. CASE Adopt(o)
    <3>1. latest'.op = o /\ latest'.phase \in {"Connected", "Failed"}
      BY <2>3, OutcomeShown DEF Adopt
    <3>2. o \notin pending'
      BY <1>7, <3>1 DEF ApplyStarted, Observe
    <3>3. PendingTracked'
      BY <1>0, <2>1, <2>3, <3>2 DEF Adopt, PendingTracked, Mutations
    <3>4. QED
      BY <2>1, <2>3, <3>1, <3>3 DEF Adopt, OutcomesReported
  <2>4. QED
    BY <1>7, <2>2, <2>3 DEF ApplyStarted
<1>8. ASSUME NEW o \in Applies, ApplyRefused(o)
      PROVE  OutcomesReported' /\ PendingTracked'
  <2>1. \A m \in Mutations : handler'[m] = IF m = o THEN "refused" ELSE handler[m]
    BY <1>8 DEF ApplyRefused, TypeOK
  <2>2. QED
    BY <1>0, <1>8, <2>1 DEF ApplyRefused, OutcomesReported, PendingTracked,
       contractVars, coreVars, Mutations
<1>9. ASSUME NEW o \in Applies, ApplyFailed(o)
      PROVE  OutcomesReported' /\ PendingTracked'
  <2>1. latest'.op = o /\ latest'.phase \in {"Connected", "Failed"}
    BY <1>9, OutcomeShown DEF ApplyFailed, PublishRefusal
  <2>2. pending' \subseteq pending /\ o \notin pending'
    BY <1>9, <2>1 DEF ApplyFailed, Observe
  <2>3. \A m \in Mutations : m # o => handler'[m] = handler[m]
    BY <1>9 DEF ApplyFailed, TypeOK
  <2>4. UNCHANGED <<running, settled>>
    BY <1>9 DEF ApplyFailed, PublishRefusal
  <2>5. QED
    BY <1>0, <2>1, <2>2, <2>3, <2>4 DEF OutcomesReported, PendingTracked, Mutations
<1>10. ASSUME NEW s \in Stops, StopStep(s) PROVE OutcomesReported' /\ PendingTracked'
  <2>1. /\ pending' \subseteq pending /\ UNCHANGED <<running, settled>>
        /\ \A m \in Mutations : m # s => handler'[m] = handler[m]
    BY <1>10 DEF StopStep, StopCancels, StopTakes, StopReturns, StopRecorded,
       StopPublished, CancelToken, Disconnect, PublishStop, contractVars, coreVars,
       TypeOK
  <2>2. latest' = latest \/ latest'.op = s
    BY <1>10 DEF StopStep, StopCancels, StopTakes, StopReturns, StopRecorded,
       StopPublished, CancelToken, Disconnect, PublishStop, contractVars, Publish,
       Event
  <2>3. PendingTracked'
    BY <1>0, <2>1 DEF PendingTracked, Mutations
  <2>4. QED
    BY <2>1, <2>2, <2>3 DEF OutcomesReported
<1>11. ASSUME RuntimeMoves PROVE OutcomesReported' /\ PendingTracked'
  <2>1. /\ Observe /\ handler' = handler /\ pending' \subseteq pending
    BY <1>11, ObserveFrame DEF RuntimeMoves
  <2>2. CASE Establish \/ Abort
    <3>1. latest'.op = running /\ latest'.phase \in {"Connected", "Failed"}
      BY <1>0, <2>2, OutcomeShown DEF Establish, Abort
    <3>2. running \notin pending' /\ running' = running /\ running # None
      BY <2>1, <2>2, <3>1 DEF Observe, Establish, Abort
    <3>3. QED
      BY <2>1, <3>1, <3>2 DEF OutcomesReported, PendingTracked
  <2>3. CASE Progress
    <3>1. latest' = latest \/ latest'.phase = "Connecting"
      BY <2>3 DEF Progress, Publish, Event
    <3>2. QED
      BY <2>1, <2>3, <3>1 DEF Progress, OutcomesReported, PendingTracked
  <2>4. CASE Finish
    BY <2>1, <2>4 DEF Finish, OutcomesReported, PendingTracked
  <2>5. CASE Replace \/ Quiesce \/ Lose
    BY <2>1, <2>5 DEF Replace, Quiesce, Lose, OutcomesReported, PendingTracked
  <2>6. CASE ReportLoss
    <3>1. latest'.phase = "Failed" /\ UNCHANGED <<running, settled>>
      BY <2>6 DEF ReportLoss, Publish, Event
    <3>2. QED
      BY <2>1, <3>1 DEF OutcomesReported, PendingTracked
  <2>7. QED
    BY <1>11, <2>2, <2>3, <2>4, <2>5, <2>6 DEF RuntimeMoves, RuntimeStep
<1>12. ASSUME UNCHANGED vars PROVE OutcomesReported' /\ PendingTracked'
  BY <1>1, <1>12 DEF vars, coreVars
<1>13. QED
  BY <1>2, <1>3, <1>4, <1>5, <1>6, <1>7, <1>8, <1>9, <1>10, <1>11, <1>12
     DEF Next, RequestStep, ApplyStep

-----------------------------------------------------------------------------
(* The theorems.                                                           *)

\* The invariants together are inductive.
HelperInv ==
    /\ TypeOK /\ LeaseIsOwners /\ AdmissionsDated
    /\ TerminalsOpen /\ OutcomesReported /\ PendingTracked

\* They hold in every reachable state of the endpoint.
LEMMA HelperInvariant == Spec => []HelperInv
<1>1. ASSUME Init PROVE TypeOK /\ LeaseIsOwners
  <2>1. ContractTypeOK
    BY <1>1, Zenon DEF Init, ContractInit, ContractTypeOK, NoPlane, NoEvent, Event
  <2>2. /\ slot \in [Conns -> [state : {"empty", "holding", "resolved"}, version : Nat]]
        /\ journal \in Seq([op : AllOps, by : Conns, version : Nat])
    BY <1>1 DEF Init
  <2>3. TypeOK
    BY <1>1, <2>1, <2>2, HelperOps DEF Init, TypeOK, Results
  <2>4. QED
    BY <1>1, <2>3 DEF Init, LeaseIsOwners
<1>2. ASSUME Init
      PROVE  AdmissionsDated /\ TerminalsOpen /\ OutcomesReported /\ PendingTracked
  BY <1>2, ContractOps DEF Init, ContractInit, AdmissionsDated, TerminalsOpen,
     OutcomesReported, PendingTracked, NoEvent, Event, AllOps, Mutations
<1>3. ASSUME HelperInv, [Next]_vars PROVE HelperInv'
  BY <1>3, TypeStep, LeaseStepKeeps, DatedStep, TerminalsStep, TrackedStep
     DEF HelperInv
<1>4. QED
  BY <1>1, <1>2, <1>3, PTL DEF Spec, HelperInv

\* The lease gate of admit_and_gate (grpc_server.rs) lets only the owner pass:
\* the handle it asks for belongs to the current owner and version, whatever
\* handshakes, tokens, releases and ended streams came before.
THEOREM LeaseBelongsToOwner == Spec => []LeaseIsOwners
BY HelperInvariant, PTL DEF HelperInv

\* The ownership version in the admission index identifies one connection,
\* though core.ownership_version and core.owner change in separate handlers.
THEOREM VersionNamesOneOwner == Spec => []VersionPerOwner
<1>1. ASSUME TypeOK, AdmissionsDated, VersionPerOwner, [Next]_vars
      PROVE  VersionPerOwner'
  <2> DEFINE R == [op : AllOps, by : Conns, version : Nat]
  <2>1. CASE journal' = journal
    BY <1>1, <2>1 DEF VersionPerOwner
  <2>2. ASSUME NEW c \in Conns, NEW o \in AllOps, owner = c, Admit(c, o)
        PROVE  VersionPerOwner'
    <3> DEFINE e == [op |-> o, by |-> c, version |-> version]
    <3>1. e \in R /\ journal \in Seq(R) /\ e.version = version /\ e.by = c
      BY <1>1 DEF TypeOK
    <3>2. journal' = IF IsAdmitted(o) THEN journal ELSE Append(journal, e)
      BY <2>2 DEF Admit
    <3> HIDE DEF R, e
    <3>3. \A i \in DOMAIN journal' :
              \/ journal'[i] = e
              \/ i \in DOMAIN journal /\ journal'[i] = journal[i]
      BY <3>1, <3>2
    <3>4. \A i \in DOMAIN journal : journal[i].version = version => journal[i].by = c
      BY <1>1, <2>2 DEF AdmissionsDated
    <3>5. QED
      BY <1>1, <3>1, <3>3, <3>4 DEF VersionPerOwner
  <2>3. \/ journal' = journal
        \/ \E c \in Conns : \E o \in AllOps : owner = c /\ Admit(c, o)
    <3>1. ASSUME NEW c \in Conns, LeaseStep(c) \/ RequestStep(c)
          PROVE  \/ journal' = journal
                 \/ \E o \in AllOps : owner = c /\ Admit(c, o)
      BY <3>1 DEF LeaseStep, RequestStep, Handshake, TokenReceived, StreamEnd,
         Acquire, AcquireRefused, GateRefused, ApplyAdmitted, StopAdmitted,
         Release, AdmitAndGate, coreVars, AllOps, Mutations
    <3>2. ASSUME \/ \E o \in Applies : ApplyStep(o)
                 \/ \E s \in Stops : StopStep(s)
                 \/ RuntimeMoves \/ UNCHANGED vars
          PROVE  journal' = journal
      BY <3>2, SMTT(30) DEF ApplyStep, ApplyStarted, ApplyRefused, ApplyFailed, StopStep,
         StopCancels, StopTakes, StopReturns, StopRecorded, StopPublished,
         RuntimeMoves, vars, coreVars
    <3>3. QED
      BY <1>1, <3>1, <3>2 DEF Next
  <2>4. QED
    BY <2>1, <2>2, <2>3
<1>2. ASSUME Init PROVE VersionPerOwner
  BY <1>2 DEF Init, VersionPerOwner
<1>3. QED
  BY <1>1, <1>2, HelperInvariant, PTL DEF Spec, HelperInv

\* GetOperation never changes an answer it gave: the observer, the stop's
\* bookkeeping and release_lease write each terminal at most once.
THEOREM AnswersAreFinal == Spec => TerminalFinal
<1>1. ASSUME TypeOK, TerminalsOpen, [Next]_vars
      PROVE  [\A o \in Mutations : terminals[o] # None => terminals'[o] = terminals[o]]_vars
  BY <1>1, TerminalsStep
<1>2. QED
  BY <1>1, HelperInvariant, PTL DEF Spec, HelperInv, TerminalFinal

\* No entry of pending_apply is orphaned: until a stop or a release clears it,
\* its handler or its assembly still has the outcome to publish.
THEOREM NoPendingOrphaned == Spec => []PendingTracked
BY HelperInvariant, PTL DEF HelperInv

=============================================================================
