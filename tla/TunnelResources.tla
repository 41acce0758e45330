-------------------------- MODULE TunnelResources --------------------------
(***************************************************************************)
(* The Windows resource aggregate: the network settings a tunnel puts on   *)
(* the machine (apply), takes back (restore), and the teardown that joins  *)
(* the packet workers, restores, destroys session and adapter and proves   *)
(* the result clean.  Other programs change the same settings between any  *)
(* two system calls.                                                       *)
(***************************************************************************)
EXTENDS Integers, RetirementSaga

CONSTANTS MaxOther,   \* changes other programs make
          MaxFault,   \* system calls that fail
          MaxCall     \* calls the owner of the teardown makes

\* The settings in the order apply_step writes them.
Leaves == <<"addr", "mtu4", "mtu6", "byp", "prx", "rt1", "rt2", "dns">>
Items == ToSet(Leaves)
\* What lives on the adapter and goes with it.
OnAdapter == Items \ {"byp", "prx"}
\* The settings whose previous value is read before they are written.
Captured == {"addr", "mtu4", "mtu6", "prx", "dns"}
Children == <<"c1", "c2">>
Workers == ToSet(Children) \cup {"s"}
Values == {"orig", "plan", "other"}

VARIABLES cur,      \* the machine: item -> value
          by,       \* who wrote it: "us" or "them"
          plan,     \* the items of the ApplyPlan
          own,      \* AppliedState under construction or kept: recorded items
          base,     \* the captured original of each item; for the proxy, whose
                    \* original nothing writes back, the recorded fingerprint
          applied,  \* aggregate.applied is Some
          op,       \* the call in progress: [name, at, sub]
          result,   \* the last apply's or restore's result
          agg,      \* aggregate handle: session and adapter
          td,       \* the WindowsTeardown
          saga,
          wk,       \* packet workers
          left      \* remaining changes, faults and calls

vars == <<cur, by, plan, own, base, applied, op, result, agg, td, saga, wk, left>>

Idle == [name |-> "none", at |-> 0, sub |-> "none"]
Rank(p) == CASE p = "none" -> -1 [] p = "Pending" -> 0 [] p = "Canceled" -> 1
             [] p = "Journaled" -> 2 [] p = "Restored" -> 3
             [] p = "FinalDropped" -> 4 [] p = "Proved" -> 5

\* Ours: our value, written by us, still on the machine.
Ours(i) == cur[i] = "plan" /\ by[i] = "us" /\ (i \in OnAdapter => agg.adapter = "open")

\* The IPv6 MTU and the user's proxy are optional parts of a plan.
Init ==
  /\ cur = [i \in Items |-> "orig"] /\ by = [i \in Items |-> "them"]
  /\ plan \in {Items, Items \ {"mtu6", "prx"}}
  /\ own = {} /\ base = [i \in Items |-> "orig"] /\ applied = FALSE
  /\ op = Idle /\ result = "none"
  /\ agg = [session |-> "open", adapter |-> "open"]
  /\ td = [phase |-> "none", unblocked |-> FALSE, joined |-> FALSE,
           failed |-> FALSE, proof |-> FALSE, dropped |-> FALSE]
  /\ saga = NewSaga
  /\ wk = [w \in Workers |-> [run |-> TRUE, stop |-> FALSE]]
  /\ left = [other |-> MaxOther, fault |-> MaxFault, call |-> MaxCall]

\* Another program sets an item of the machine, to our value too.
OtherWrites ==
  /\ left.other > 0
  /\ \E i \in plan, v \in Values :
       /\ i \in OnAdapter => agg.adapter = "open"
       /\ cur' = [cur EXCEPT ![i] = v] /\ by' = [by EXCEPT ![i] = "them"]
  /\ left' = [left EXCEPT !.other = @ - 1]
  /\ UNCHANGED <<plan, own, base, applied, op, result, agg, td, saga, wk>>

Faults == left.fault > 0 /\ left' = [left EXCEPT !.fault = @ - 1]

---------------------------------------------------------------------------
\* apply

FirstSub(i) == IF i \in Captured THEN "look" ELSE "write"
\* The next step of the plan from leaf k on; a plan without a leaf skips it.
From(k) ==
  LET rest == {n \in k..Len(Leaves) : Leaves[n] \in plan}
  IN IF rest = {} THEN Idle
     ELSE LET n == CHOOSE m \in rest : \A x \in rest : m <= x
          IN [name |-> "apply", at |-> n, sub |-> FirstSub(Leaves[n])]

\* admit: the whole plan is validated before the first effect.
ApplyRefused ==
  /\ op = Idle /\ result = "none" /\ td.phase = "none"
  /\ result' = "refused"
  /\ UNCHANGED <<cur, by, plan, own, base, applied, op, agg, td, saga, wk, left>>

ApplyBegins ==
  /\ op = Idle /\ result = "none" /\ td.phase = "none"
  /\ op' = From(1)
  /\ UNCHANGED <<cur, by, plan, own, base, applied, result, agg, td, saga, wk, left>>

At == Leaves[op.at]
\* Leaf done: the next leaf, or the state is stored and apply returns Ok.
Advances(k) ==
  /\ op' = From(k)
  /\ applied' = (applied \/ From(k) = Idle)
  /\ result' = IF From(k) = Idle THEN "ok" ELSE result
\* A leaf failed: run_apply returns the partial state, kept when not empty.
ApplyErr(recorded) ==
  /\ op' = Idle /\ result' = "err" /\ applied' = (recorded # {})

\* The capture of the value that stands: an address already there is not
\* added; a user without a manual proxy, or with a PAC, is left alone.
Looks ==
  /\ op.name = "apply" /\ op.sub = "look"
  /\ \/ /\ At = "addr" /\ cur["addr"] # "orig"
        /\ Advances(op.at + 1) /\ UNCHANGED base
     \/ /\ At = "prx" /\ Advances(op.at + 1) /\ UNCHANGED base
     \/ /\ At = "addr" => cur["addr"] = "orig"
        /\ base' = [base EXCEPT ![At] = cur[At]]
        /\ op' = [op EXCEPT !.sub = "write"]
        /\ UNCHANGED <<applied, result>>
  /\ UNCHANGED <<cur, by, plan, own, agg, td, saga, wk, left>>

LookFails ==
  /\ op.name = "apply" /\ op.sub = "look" /\ Faults
  /\ ApplyErr(own)
  /\ UNCHANGED <<cur, by, plan, own, base, agg, td, saga, wk>>

\* A route that is already there is an error of install; an address created
\* meanwhile is AlreadyExists, and recorded as owned all the same.
Exists == At \in {"byp", "rt1", "rt2"} /\ cur[At] # "orig"
Puts ==
  IF At = "addr" /\ cur["addr"] # "orig" THEN UNCHANGED <<cur, by>>
  ELSE cur' = [cur EXCEPT ![At] = "plan"] /\ by' = [by EXCEPT ![At] = "us"]

\* The rows of a route plan are recorded together, after the last one.
Records == CASE At = "rt1" -> {} [] At = "rt2" -> {"rt1", "rt2"} [] OTHER -> {At}

Writes ==
  /\ op.name = "apply" /\ op.sub = "write" /\ ~Exists
  /\ Puts
  /\ IF At \in {"prx", "dns"}
     THEN op' = [op EXCEPT !.sub = "check"] /\ UNCHANGED <<own, applied, result>>
     ELSE own' = own \cup Records /\ Advances(op.at + 1)
  /\ UNCHANGED <<plan, base, agg, td, saga, wk, left>>

\* remove: deletes the row only when it is exactly the one installed.
Removable(i) == cur[i] = "plan"

\* A failed install; install_plan takes the earlier rows out again and does
\* not look whether that worked.
WriteFails ==
  /\ op.name = "apply" /\ op.sub = "write"
  /\ \/ Exists /\ UNCHANGED left
     \/ Faults
  /\ \/ UNCHANGED <<cur, by>>
     \/ /\ At = "rt2" /\ Removable("rt1")
        /\ cur' = [cur EXCEPT !["rt1"] = "orig"] /\ by' = [by EXCEPT !["rt1"] = "them"]
  /\ ApplyErr(own)
  /\ UNCHANGED <<plan, own, base, agg, td, saga, wk>>

\* The read-back of DNS must show the plan; the proxy's becomes the recorded
\* fingerprint, whatever it is.
ReadsBack ==
  /\ op.name = "apply" /\ op.sub = "check"
  /\ IF At = "dns" /\ cur["dns"] # "plan"
     THEN ApplyErr(own) /\ UNCHANGED <<own, base>>
     ELSE /\ own' = own \cup {At} /\ Advances(op.at + 1)
          /\ base' = IF At = "prx" THEN [base EXCEPT !["prx"] = cur["prx"]] ELSE base
  /\ UNCHANGED <<cur, by, plan, agg, td, saga, wk, left>>

ReadBackFails ==
  /\ op.name = "apply" /\ op.sub = "check" /\ Faults
  /\ ApplyErr(own)
  /\ UNCHANGED <<cur, by, plan, own, base, agg, td, saga, wk>>

Apply == ApplyRefused \/ ApplyBegins \/ Looks \/ LookFails \/ Writes \/ WriteFails
           \/ ReadsBack \/ ReadBackFails

---------------------------------------------------------------------------
\* restore

\* The recorded items in exactly the reverse order of the plan.
Before(k) ==
  LET rest == {n \in 1..(k - 1) : Leaves[n] \in own}
  IN IF rest = {} THEN 0 ELSE CHOOSE m \in rest : \A x \in rest : x <= m

\* The last item done: the applied state is cleared, restore returns Ok, and
\* a teardown that called it has its Restored phase, whatever it was before.
Restores(k) ==
  IF Before(k) # 0
  THEN /\ op' = [name |-> "restore", at |-> Before(k), sub |-> "look"]
       /\ UNCHANGED <<own, applied, result, td>>
  ELSE /\ op' = Idle /\ applied' = FALSE /\ own' = {} /\ result' = "restored"
       /\ td' = IF td.phase = "none" THEN td ELSE [td EXCEPT !.phase = "Restored"]

\* Mutant: a failed restore is taken for done.
RestoreErrIgnored ==
  /\ op' = Idle /\ result' = "restore_err"
  /\ td' = IF td.phase = "none" THEN td ELSE [td EXCEPT !.phase = "Restored"]
  /\ UNCHANGED <<own, applied>>

\* A hard failure of a leaf: the state is kept for a retry, and a teardown
\* can no longer be proved clean.
RestoreErr ==
  /\ op' = Idle /\ result' = "restore_err"
  /\ td' = IF td.phase = "none" THEN td ELSE [td EXCEPT !.failed = TRUE]
  /\ UNCHANGED <<own, applied>>

\* restore of an aggregate: nothing applied is nothing to do.
RestoreStarts == IF applied THEN Restores(Len(Leaves) + 1) ELSE Restores(1)

Called == left.call > 0 /\ left' = [left EXCEPT !.call = @ - 1]

RestoreCalled ==
  /\ op = Idle /\ td.phase = "none" /\ result # "none" /\ Called
  /\ RestoreStarts
  /\ UNCHANGED <<cur, by, plan, base, agg, saga, wk>>

\* The leaf compares what stands with what it wrote: a third party's change
\* is skipped; the write-back of the proxy is not connected and fails.
Compares ==
  /\ op.name = "restore" /\ op.sub = "look"
  /\ CASE At = "prx" /\ cur["prx"] = base["prx"] -> RestoreErr
       [] At # "prx" /\ cur[At] = "plan" ->
            /\ op' = [op EXCEPT !.sub = "write"]
            /\ UNCHANGED <<own, applied, result, td>>
       [] OTHER -> Restores(op.at)
  /\ UNCHANGED <<cur, by, plan, base, agg, saga, wk, left>>

\* Deleting a row that has gone meanwhile is a hard failure.
Gone == At \in {"addr", "byp", "rt1", "rt2"} /\ cur[At] = "orig"

PutsBack ==
  /\ op.name = "restore" /\ op.sub = "write" /\ ~Gone
  /\ cur' = [cur EXCEPT ![At] = base[At]] /\ by' = [by EXCEPT ![At] = "them"]
  /\ IF At = "dns"
     THEN op' = [op EXCEPT !.sub = "check"] /\ UNCHANGED <<own, applied, result, td>>
     ELSE Restores(op.at)
  /\ UNCHANGED <<plan, base, agg, saga, wk, left>>

\* The DNS restore is verified against the original snapshot.
Verifies ==
  /\ op.name = "restore" /\ op.sub = "check"
  /\ IF cur["dns"] = base["dns"] THEN Restores(op.at) ELSE RestoreErr
  /\ UNCHANGED <<cur, by, plan, base, agg, saga, wk, left>>

RestoreFails ==
  /\ op.name = "restore"
  /\ \/ op.sub = "write" /\ Gone /\ UNCHANGED left
     \/ Faults
  /\ RestoreErr
  /\ UNCHANGED <<cur, by, plan, base, agg, saga, wk>>

Restore == RestoreCalled \/ Compares \/ PutsBack \/ Verifies \/ RestoreFails

---------------------------------------------------------------------------
\* The packet workers

\* The loop of a worker: one call of its closure, then the stop flag.
WorkerLoops(w) ==
  /\ wk[w].run /\ wk[w].stop
  /\ wk' = [wk EXCEPT ![w].run = FALSE]
  /\ UNCHANGED <<cur, by, plan, own, base, applied, op, result, agg, td, saga, left>>

\* PacketWorker::join: the flag is stored and the thread is waited for; the
\* workers of a vector one after the other.
Stops(w) == wk' = [wk EXCEPT ![w].stop = TRUE]

Unjoined == {n \in DOMAIN Children : wk[Children[n]].run}
NextChild == Children[CHOOSE n \in Unjoined : \A m \in Unjoined : n <= m]

---------------------------------------------------------------------------
\* WindowsTeardown

Free == op = Idle /\ td.phase # "none" /\ ~td.dropped

\* WindowsTeardown::new takes the aggregate with whatever was applied to it.
TeardownNew ==
  /\ op = Idle /\ td.phase = "none" /\ result # "none"
  /\ td' = [td EXCEPT !.phase = "Pending"]
  /\ UNCHANGED <<cur, by, plan, own, base, applied, op, result, agg, saga, wk, left>>

PureCancel ==
  /\ Free /\ Rank(td.phase) < Rank("Canceled")
  /\ td' = [td EXCEPT !.phase = "Canceled"]
  /\ UNCHANGED <<cur, by, plan, own, base, applied, op, result, agg, saga, wk, left>>

\* begin: refused, and poisoning, before the cancel; nothing to do once
\* journalled.
Begin ==
  /\ Free
  /\ \/ /\ Rank(td.phase) < Rank("Canceled") /\ ~td.failed
        /\ td' = [td EXCEPT !.failed = TRUE] /\ UNCHANGED saga
     \/ /\ td.phase = "Canceled"
        /\ td' = [td EXCEPT !.phase = "Journaled"]
        /\ saga' = SagaBegin(saga, "retirement", <<"inventory">>)
  /\ UNCHANGED <<cur, by, plan, own, base, applied, op, result, agg, wk, left>>

UnblockNativeRead ==
  /\ Free /\ Rank(td.phase) >= Rank("Journaled") /\ ~td.unblocked
  /\ td' = [td EXCEPT !.unblocked = TRUE]
  /\ UNCHANGED <<cur, by, plan, own, base, applied, op, result, agg, saga, wk, left>>

\* join_children: out of order it poisons the proof, otherwise it blocks
\* until every child thread has ended.
JoinChildren ==
  /\ Free /\ Called
  /\ IF Rank(td.phase) < Rank("Journaled")
     THEN td' = [td EXCEPT !.failed = TRUE] /\ UNCHANGED op
     ELSE op' = [Idle EXCEPT !.name = "join"] /\ UNCHANGED td
  /\ UNCHANGED <<cur, by, plan, own, base, applied, result, agg, saga, wk>>

Joins ==
  /\ op.name = "join"
  /\ IF Unjoined = {}
     THEN op' = Idle /\ td' = [td EXCEPT !.joined = TRUE] /\ UNCHANGED wk
     ELSE /\ ~wk[NextChild].stop /\ Stops(NextChild) /\ UNCHANGED <<op, td>>
  /\ UNCHANGED <<cur, by, plan, own, base, applied, result, agg, saga, left>>

RestoreOwned ==
  /\ Free /\ Called
  /\ IF Rank(td.phase) < Rank("Journaled")
     THEN td' = [td EXCEPT !.failed = TRUE] /\ UNCHANGED <<op, own, applied, result>>
     ELSE IF agg.adapter = "closed"
     THEN td' = [td EXCEPT !.phase = "Restored"] /\ UNCHANGED <<op, own, applied, result>>
     ELSE RestoreStarts
  /\ UNCHANGED <<cur, by, plan, base, agg, saga, wk>>

DropFinalHandle ==
  /\ Free /\ Called
  /\ Rank(td.phase) >= Rank("Restored") /\ td.joined
  /\ IF agg.adapter = "closed"
     THEN td' = [td EXCEPT !.phase = "FinalDropped"] /\ UNCHANGED op
     ELSE op' = [Idle EXCEPT !.name = "release"] /\ UNCHANGED td
  /\ UNCHANGED <<cur, by, plan, own, base, applied, result, agg, saga, wk>>

\* Aggregate::drop: the session's own worker is joined, the session ends,
\* and then the adapter closes and takes its settings with it.
Releases ==
  /\ op.name = "release"
  /\ IF wk["s"].run
     THEN ~wk["s"].stop /\ Stops("s") /\ UNCHANGED <<agg, op, td>>
     ELSE IF agg.session = "open"
     THEN agg' = [agg EXCEPT !.session = "ended"] /\ UNCHANGED <<wk, op, td>>
     ELSE /\ agg' = [agg EXCEPT !.adapter = "closed"] /\ op' = Idle
          /\ td' = IF td.dropped THEN td ELSE [td EXCEPT !.phase = "FinalDropped"]
          /\ UNCHANGED wk
  /\ UNCHANGED <<cur, by, plan, own, base, applied, result, saga, left>>

CleanupStageCompleted ==
  Rank(td.phase) >= Rank("FinalDropped") /\ td.unblocked /\ td.joined

\* cleanup_proof: whatever the caller's predicates claim, a poisoned or an
\* unfinished teardown proves nothing.
CleanupProof ==
  /\ Free /\ Called
  /\ \E verified \in BOOLEAN :
       LET observed == SagaObserve(saga, {[label |-> "inventory", verified |-> verified]})
           proves == ~td.failed /\ CleanupStageCompleted
       IN /\ saga' = IF proves THEN SagaProve(observed) ELSE saga
          /\ td' = IF proves /\ observed.phase = "Observed"
                   THEN [td EXCEPT !.phase = "Proved", !.proof = TRUE] ELSE td
  /\ UNCHANGED <<cur, by, plan, own, base, applied, op, result, agg, wk>>

\* Drop for WindowsTeardown: the children are joined first, then the
\* aggregate goes.
TeardownDropped ==
  /\ Free
  /\ td' = [td EXCEPT !.dropped = TRUE] /\ op' = [Idle EXCEPT !.name = "drop"]
  /\ UNCHANGED <<cur, by, plan, own, base, applied, result, agg, saga, wk, left>>

Drops ==
  /\ op.name = "drop"
  /\ IF Unjoined # {}
     THEN ~wk[NextChild].stop /\ Stops(NextChild) /\ UNCHANGED op
     ELSE /\ op' = IF agg.adapter = "open" THEN [op EXCEPT !.name = "release"] ELSE Idle
          /\ UNCHANGED wk
  /\ UNCHANGED <<cur, by, plan, own, base, applied, result, agg, td, saga, left>>

Teardown == TeardownNew \/ PureCancel \/ Begin \/ UnblockNativeRead \/ JoinChildren
              \/ Joins \/ RestoreOwned \/ DropFinalHandle \/ Releases
              \/ CleanupProof \/ TeardownDropped \/ Drops

Next == OtherWrites \/ Apply \/ Restore \/ Teardown
          \/ \E w \in Workers : WorkerLoops(w)

\* The threads run; a call in progress goes on.
Steps == Looks \/ Writes \/ WriteFails \/ ReadsBack \/ Compares \/ PutsBack
           \/ Verifies \/ RestoreFails \/ Joins \/ Releases \/ Drops
           \/ \E w \in Workers : WorkerLoops(w)
Spec == Init /\ [][Next]_vars /\ WF_vars(Steps)

---------------------------------------------------------------------------
\* A worker never runs in a session that has ended (the safety order of
\* Aggregate::drop and of the teardown: EndSession destroys the object the
\* workers receive from).
NoUseAfterEnd == agg.session = "ended" => \A w \in Workers : ~wk[w].run

\* A cleanup proof is only issued when nothing of the inventory is left: no
\* worker, no session, no adapter, and no bypass row of ours, whatever the
\* caller's predicates claim and however the calls were ordered.
ProofIsClean ==
  td.proof => /\ agg = [session |-> "ended", adapter |-> "closed"]
              /\ \A w \in Workers : ~wk[w].run
              /\ \A i \in Items \ {"prx"} : ~Ours(i)

\* When restore has returned Ok nothing we wrote stands, except what apply
\* never recorded: DNS or a proxy whose read-back failed, and a route whose
\* rollback failed.
RestoredIsNotOurs ==
  result = "restored" => \A i \in Items : Ours(i) => i \in {"dns", "prx", "rt1"}

=============================================================================
