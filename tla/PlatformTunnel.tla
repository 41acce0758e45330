--------------------------- MODULE PlatformTunnel ---------------------------
(***************************************************************************)
(* The Windows platform layer of one tunnel (platform_tunnel.rs): the       *)
(* adapter, the address, MTU, routes and DNS a connection applies to it,    *)
(* the bypass route to the gateway on the physical interface, the           *)
(* system-proxy exemption with its ledger (ProxyLedger), the roll-back of a *)
(* failed apply, the clear of a disconnect, and the cleanup obligations     *)
(* that outlive both.  Other programs change routes and settings meanwhile  *)
(* and the engine may die at any step.                                      *)
(***************************************************************************)
EXTENDS ProxyLedger, FiniteSets

CONSTANTS Routes,        \* routes of the plan, the bypass included
          Bypass,        \* the /32 to the gateway on the physical interface
          MaxConnects,   \* connections
          MaxOthers,     \* changes other programs make to the network
          MaxCrashes,    \* deaths of the engine process
          ReadbackFails  \* whether reading DNS back after setting it may fail

Leaves == {"mtu", "dns"}

VARIABLES
  nic,       \* the Wintun adapter: "absent", "new" (created for this apply), "kept"
  conf,      \* MTU and DNS of the adapter
  addr,      \* the tunnel address is on the adapter
  rows,      \* the routing table: who put each route of the plan there
  own,       \* RouteOwner, or its parts while apply collects them
  oblig,     \* RouteCleanupObligations held by the runtime
  pc,        \* where the apply or clear in progress is
  todo,      \* routes the apply has still to install
  connects, others, crashes, \* budgets
  stuck      \* settings a best-effort roll-back could not put back

netVars == <<nic, conf, addr, rows, stuck>>
ownVars == <<own, oblig, todo>>
budgets == <<connects, others, crashes>>
vars == <<ledgerVars, netVars, ownVars, pc, budgets>>

Pcs == {"down", "boot", "idle", "addr", "mtu", "routes", "dns", "replay", "plan",
        "record", "commit", "applied", "undo", "clearDns", "clearProxy",
        "clearTail", "clearRoutes", "clearMtu", "clearAddr"}

\* A route that was created, and one whose read-back and roll-back failed.
Owned(r, how) == [route |-> r, how |-> how]

NoProxy == [on |-> FALSE, step |-> Step(Settings(0, <<>>), 0), keep |-> 0]
NoOwner == [addr |-> FALSE, saved |-> [l \in {} |-> ""], routes |-> <<>>,
            proxy |-> NoProxy, planned |-> NoProxy]

Pristine == [l \in Leaves |-> "original"]

TypeOK ==
  /\ LedgerTypeOK
  /\ nic \in {"absent", "new", "kept"}
  /\ conf \in [Leaves -> {"original", "vpn", "other"}]
  /\ addr \in BOOLEAN
  /\ rows \in [Routes -> {"none", "ours", "theirs", "changed", "stale"}]
  /\ own.addr \in BOOLEAN /\ DOMAIN own.saved \subseteq Leaves
  /\ \A i \in DOMAIN own.routes : own.routes[i].route \in Routes
  /\ \A i \in DOMAIN oblig : oblig[i].route \in Routes
  /\ pc \in Pcs

Init ==
  /\ LedgerInit
  /\ nic = "absent" /\ conf = Pristine /\ addr = FALSE
  /\ rows \in [Routes -> {"none", "theirs"}]
  /\ \A r \in Routes : rows[r] = "theirs" => r = Bypass
  /\ own = NoOwner /\ oblig = <<>> /\ todo = <<>>
  /\ pc = "idle"
  /\ connects = 0 /\ others = 0 /\ crashes = 0
  /\ stuck = {}

SameLedger == UNCHANGED <<reg, stale, file, evidence, store, replay, nextWrite>>
NoAdapterRoutes(t) == [r \in Routes |-> IF r = Bypass THEN t[r] ELSE "none"]

\* Closing the adapter takes its address and its settings along.
CloseAdapter ==
  /\ nic' = "absent" /\ conf' = Pristine /\ addr' = FALSE /\ stuck' = {}

(***************************************************************************)
(* RouteOwner::apply, leaf by leaf.                                         *)
(***************************************************************************)
\* Ensure the adapter (a failed interface configuration drops a new one again)
\* and enter apply.  The runtime retries its obligations before.
ApplyOffer ==
  /\ pc = "idle" /\ connects < MaxConnects /\ oblig = <<>>
  /\ nic' = IF nic = "absent" THEN "new" ELSE "kept"
  /\ own' = NoOwner
  /\ todo' = <<Bypass>> \o SetToSeq(Routes \ {Bypass})
  /\ pc' = "addr"
  /\ connects' = connects + 1
  /\ SameLedger /\ NoFault
  /\ UNCHANGED <<conf, addr, rows, oblig, others, crashes, stuck>>

Fails == pc' = "undo" /\ Fault /\ UNCHANGED <<nic, conf, addr, rows, own, todo>>

\* Only an address that is not there yet is added, and owned.
ApplyAddress ==
  /\ pc = "addr"
  /\ \/ /\ addr' = TRUE /\ own' = [own EXCEPT !.addr = ~addr]
        /\ pc' = "mtu" /\ NoFault
        /\ UNCHANGED <<nic, conf, rows, todo>>
     \/ Fails
  /\ SameLedger
  /\ UNCHANGED <<oblig, budgets, stuck>>

Save(l) == own' = [own EXCEPT !.saved =
                   [x \in DOMAIN own.saved \cup {l} |-> IF x = l THEN conf[l] ELSE own.saved[x]]]

\* Capture the MTU, then set it.
ApplyMtu ==
  /\ pc = "mtu"
  /\ \/ /\ Save("mtu") /\ conf' = [conf EXCEPT !.mtu = "vpn"]
        /\ pc' = "routes" /\ NoFault
        /\ UNCHANGED <<nic, addr, rows, todo>>
     \/ Fails
  /\ SameLedger
  /\ UNCHANGED <<oblig, budgets, stuck>>

\* install_with_outcome and record_owned_route: a row that exists is borrowed;
\* a created one is owned, as an effective row or, when neither read-back nor
\* roll-back got through, as a pending one.
Ownership(r) == IF rows[r] = "none" THEN {"created", "pending"} ELSE {"borrowed"}

InstallRoute ==
  /\ pc = "routes" /\ todo # <<>>
  /\ LET r == Head(todo) IN
     \/ \E how \in Ownership(r) :
          /\ rows' = [rows EXCEPT ![r] = IF @ = "none" THEN "ours" ELSE @]
          /\ own' = IF how = "borrowed" THEN own
                    ELSE [own EXCEPT !.routes = Append(@, Owned(r, how))]
          /\ IF how = "pending" THEN Fault ELSE NoFault
          /\ todo' = Tail(todo)
          /\ UNCHANGED <<pc, nic, conf, addr>>
     \/ Fails
  /\ SameLedger
  /\ UNCHANGED <<oblig, budgets, stuck>>

\* Capture DNS, set it and read it back.  The captured value is kept only when
\* the read-back agrees: a failed one leaves the new setting without an owner.
ApplyDns ==
  /\ pc = "routes" /\ todo = <<>>
  /\ \/ /\ Save("dns") /\ conf' = [conf EXCEPT !.dns = "vpn"]
        /\ pc' = "replay" /\ NoFault
        /\ UNCHANGED <<nic, addr, rows, todo>>
     \/ /\ ReadbackFails
        /\ conf' = [conf EXCEPT !.dns = "vpn"]
        /\ pc' = "undo" /\ Fault
        /\ UNCHANGED <<nic, addr, rows, own, todo>>
     \/ Fails
  /\ SameLedger
  /\ UNCHANGED <<oblig, budgets, stuck>>

(***************************************************************************)
(* The system-proxy family: it degrades, it never fails the apply.          *)
(***************************************************************************)
NetSame == UNCHANGED <<netVars, oblig, todo, budgets>>

\* The inline replay of what earlier sessions left in the ledger.
ReplayFirst ==
  /\ pc = "replay" /\ ~replay.active
  /\ ReplayOpen
  /\ pc' = IF replay'.active THEN "replay" ELSE "plan"
  /\ own' = own /\ NetSame

ReplayNext ==
  /\ pc \in {"replay", "boot"}
  /\ ReplayRecord
  /\ UNCHANGED <<pc, own>> /\ NetSame

ReplayDone ==
  /\ pc \in {"replay", "boot"}
  /\ ReplayEnd
  /\ pc' = IF pc = "boot" THEN "idle" ELSE "plan"
  /\ own' = own /\ NetSame

\* Count the records, read the settings and plan: no user, no proxy, a merge
\* that changes nothing, a PAC that cannot be wrapped and an unreadable hive
\* all end the family without effect.
PlanProxy ==
  /\ pc = "plan"
  /\ UNCHANGED <<reg, stale, file, evidence, store, replay>>
  /\ \/ /\ pc' = "applied" /\ UNCHANGED <<own, nextWrite, faults>>
     \/ /\ nextWrite <= MaxWrites
        /\ \E n \in 0..(MaxWrites + MaxFaults) :
             /\ RecordCount(n)
             /\ own' = [own EXCEPT !.planned =
                          [on |-> TRUE, step |-> Step(reg, nextWrite), keep |-> n]]
        /\ nextWrite' = nextWrite + 1
        /\ pc' = "record"
  /\ NetSame

\* append_step, the durability point: no record, no commit.
RecordProxy ==
  /\ pc = "record"
  /\ UNCHANGED <<reg, stale, replay, nextWrite, own>>
  /\ LET step == own.planned.step IN
     \/ (AppendOk(step) \/ AppendFresh(step)) /\ pc' = "commit"
     \/ AppendFails(step) /\ pc' = "applied"
  /\ NetSame

\* commit_system_proxy_apply: one value is written.  A failure before or after
\* the write keeps the record and leaves the session without the family.
CommitProxy ==
  /\ pc = "commit"
  /\ UNCHANGED <<file, evidence, store, replay, nextWrite>>
  /\ \/ /\ reg' = Written(own.planned.step) /\ NoFault
        /\ own' = [own EXCEPT !.proxy = own.planned]
     \/ /\ reg' \in {reg, Written(own.planned.step)} /\ Fault
        /\ own' = own
  /\ stale' = (stale \/ (reg' # reg /\ reg # own.planned.step.pre))
  /\ pc' = "applied"
  /\ NetSame

(***************************************************************************)
(* Roll-back and clear.                                                     *)
(***************************************************************************)
\* Removing an owned row: an effective row another program changed is left
\* alone (87); a pending one is found by its identity only.
Removable(o) == rows[o.route] # "changed" \/ o.how = "pending"

Removed(os) ==
  [r \in Routes |->
     IF \E i \in DOMAIN os : os[i].route = r /\ Removable(os[i]) THEN "none" ELSE rows[r]]

\* retry_owned_routes_with: what cannot be removed stays owned, in order.
RetryRoutes(os, failed) ==
  /\ rows' = Removed(SelectSeq(os, LAMBDA o : o \notin failed))
  /\ faults' = faults - Cardinality(failed)

Failing(os) == {f \in SUBSET Range(os) : Cardinality(f) <= faults}

\* Compare-and-restore: a setting is put back only when it is still ours.
PutBack(l) == IF conf[l] = "vpn" THEN own.saved[l] ELSE conf[l]

\* Mutant: routes whose removal failed are forgotten.
KeepFailedNone(os, failed) == <<>>

\* The rows whose removal failed, in the order of their installation.
KeepFailed(os, failed) == SelectSeq(os, LAMBDA o : o \in failed)

\* The roll-back of a failed apply: DNS, routes, MTU, address, each best
\* effort; routes that stay become obligations, and a new adapter is closed.
Undo ==
  /\ pc = "undo"
  /\ \E failed \in Failing(own.routes), lost \in SUBSET (DOMAIN own.saved \cup {"addr"}) :
       /\ faults' = faults - Cardinality(failed) - Cardinality(lost) /\ faults' >= 0
       /\ oblig' = KeepFailed(own.routes, failed)
       /\ LET left == Removed(SelectSeq(own.routes, LAMBDA o : o \notin failed)) IN
          \/ nic = "new" /\ CloseAdapter /\ rows' = NoAdapterRoutes(left)
          \/ /\ nic = "kept" /\ nic' = nic
             /\ conf' = [l \in Leaves |-> IF l \in DOMAIN own.saved \ lost THEN PutBack(l)
                                          ELSE conf[l]]
             /\ addr' = (addr /\ ~(own.addr /\ "addr" \notin lost))
             /\ stuck' = stuck \cup lost
             /\ rows' = left
  /\ own' = NoOwner /\ todo' = <<>> /\ pc' = "idle"
  /\ SameLedger
  /\ UNCHANGED budgets

\* RouteOwner::clear; the runtime calls it again after an error.
Clear ==
  /\ pc = "applied" /\ pc' = "clearDns"
  /\ nic' = "kept"
  /\ SameLedger
  /\ UNCHANGED <<conf, addr, rows, stuck, ownVars, budgets, faults>>

\* A leaf that fails hard ends this clear; everything still owned stays owned.
Held == pc' = "applied" /\ Fault

ClearLeaf(l, at, next) ==
  /\ pc = at
  /\ \/ conf' = [conf EXCEPT ![l] = PutBack(l)] /\ pc' = next /\ NoFault
     \/ conf' = conf /\ Held
     \* DNS was put back and could not be read back
     \/ l = "dns" /\ conf' = [conf EXCEPT ![l] = PutBack(l)] /\ Held
  /\ SameLedger
  /\ UNCHANGED <<nic, addr, rows, stuck, ownVars, budgets>>

ClearDns == ClearLeaf("dns", "clearDns", "clearProxy")
ClearMtu == ClearLeaf("mtu", "clearMtu", "clearAddr")

\* Restore the registry; only then is the record forgotten.
ClearProxy ==
  /\ pc = "clearProxy"
  /\ UNCHANGED <<stale, file, evidence, store, replay, nextWrite, own>>
  /\ \/ ~own.proxy.on /\ pc' = "clearRoutes" /\ UNCHANGED <<reg, faults>>
     \/ own.proxy.on /\ RestoreOk(own.proxy.step) /\ pc' = "clearTail"
     \/ own.proxy.on /\ RestoreFails(own.proxy.step) /\ pc' = "applied"
  /\ NetSame

ClearProxyTail ==
  /\ pc = "clearTail"
  /\ UNCHANGED <<reg, stale, replay, nextWrite>>
  /\ ClearTail(own.proxy.keep)
  /\ own' = [own EXCEPT !.proxy = NoProxy]
  /\ pc' = "clearRoutes"
  /\ NetSame

ClearRoutes ==
  /\ pc = "clearRoutes"
  /\ \E failed \in Failing(own.routes) :
       /\ RetryRoutes(own.routes, failed)
       /\ own' = [own EXCEPT !.routes = KeepFailed(@, failed)]
       /\ pc' = IF failed = {} THEN "clearMtu" ELSE "applied"
  /\ SameLedger
  /\ UNCHANGED <<nic, conf, addr, stuck, oblig, todo, budgets>>

ClearAddress ==
  /\ pc = "clearAddr"
  /\ \/ /\ addr' = (addr /\ ~own.addr) /\ own' = NoOwner /\ pc' = "idle" /\ NoFault
     \/ UNCHANGED <<addr, own>> /\ Held
  /\ SameLedger
  /\ UNCHANGED <<nic, conf, rows, stuck, oblig, todo, budgets>>

\* retry_pending_routes before the next apply, at a stop and at the exit.
RetryObligations ==
  /\ pc = "idle" /\ oblig # <<>>
  /\ \E failed \in Failing(oblig) :
       /\ RetryRoutes(oblig, failed)
       /\ oblig' = KeepFailed(oblig, failed)
  /\ SameLedger
  /\ UNCHANGED <<nic, conf, addr, stuck, own, todo, pc, budgets>>

(***************************************************************************)
(* The end of the process, its next start, and everybody else.              *)
(***************************************************************************)
\* A row that outlives the process that created it.
Orphaned(t) == [r \in Routes |-> IF t[r] \in {"ours", "changed"} THEN "stale" ELSE t[r]]

\* The process ends: the adapter goes with it, and so does everything the
\* engine remembered.
Ends ==
  /\ CloseAdapter
  /\ own' = NoOwner /\ oblig' = <<>> /\ todo' = <<>> /\ pc' = "down"
  /\ replay' = NoReplay /\ store' = "disabled"
  /\ UNCHANGED <<reg, stale, evidence, nextWrite, connects, others>>

\* The runtime is dropped: the obligations are retried a last time.
Exit ==
  /\ pc = "idle"
  /\ \E failed \in Failing(oblig) :
       /\ rows' = Orphaned(NoAdapterRoutes(Removed(SelectSeq(oblig, LAMBDA o : o \notin failed))))
       /\ faults' = faults - Cardinality(failed)
  /\ file' = file /\ crashes' = crashes
  /\ Ends

\* The process dies; a frame being appended is cut.
Crash ==
  /\ pc # "down" /\ crashes < MaxCrashes
  /\ crashes' = crashes + 1 /\ faults' = faults
  /\ IF pc = "record" THEN CutAppend(own.planned.step) ELSE file' = file
  /\ rows' = Orphaned(NoAdapterRoutes(rows))
  /\ Ends

\* open_and_replay: a ledger that cannot be opened is disabled.
Restart ==
  /\ pc = "down"
  /\ \/ store' = "open" /\ pc' = "boot" /\ NoFault
     \/ store' = "disabled" /\ pc' = "idle" /\ Fault
  /\ UNCHANGED <<reg, stale, file, evidence, replay, nextWrite, own>>
  /\ NetSame

BootReplay ==
  /\ pc = "boot" /\ ~replay.active
  /\ ReplayOpen
  /\ pc' = IF replay'.active THEN "boot" ELSE "idle"
  /\ own' = own /\ NetSame

UserEdit ==
  /\ UserEdits
  /\ UNCHANGED <<netVars, ownVars, pc, budgets>>

\* Another program changes a setting of the adapter, or changes or deletes a
\* route of ours.
OtherProgram ==
  /\ others < MaxOthers /\ others' = others + 1
  /\ nic # "absent"
  /\ \/ /\ \E l \in Leaves : conf' = [conf EXCEPT ![l] = "other"]
        /\ rows' = rows
     \/ /\ \E r \in Routes, t \in {"changed", "none"} :
             rows[r] = "ours" /\ rows' = [rows EXCEPT ![r] = t]
        /\ conf' = conf
  /\ SameLedger
  /\ UNCHANGED <<nic, addr, stuck, ownVars, pc, connects, crashes, faults>>

Next ==
  \/ ApplyOffer \/ ApplyAddress \/ ApplyMtu \/ InstallRoute \/ ApplyDns
  \/ ReplayFirst \/ ReplayNext \/ ReplayDone
  \/ PlanProxy \/ RecordProxy \/ CommitProxy
  \/ Undo \/ Clear \/ ClearDns \/ ClearProxy \/ ClearProxyTail
  \/ ClearRoutes \/ ClearMtu \/ ClearAddress \/ RetryObligations
  \/ Exit \/ Crash \/ Restart \/ BootReplay \/ UserEdit \/ OtherProgram

Spec == Init /\ [][Next]_vars

(***************************************************************************)
(* Properties.                                                              *)
(***************************************************************************)
\* Whatever the program has written into the user's settings and the user has
\* not edited since is on record, in the journal or in a quarantined one, so
\* that a later replay can undo it: append_step before commit, restore before
\* clear_tail, across crashes, torn frames, failed compactions and restarts.
\* A commit onto settings edited after the plan read them is exempt.
WriteRecorded ==
  reg.writes # <<>> /\ ~stale =>
    \E rec \in Range(Sound(file)) \cup evidence : rec.written = reg

\* While no system call has failed, the user's settings are the user's own
\* between connections: clear undoes this session's change, and the replay at
\* the start that of a session that died anywhere between record and clear.
IdleUndone ==
  pc = "idle" /\ faults = MaxFaults /\ ~stale => reg.writes = <<>>

\* The user's latest edit wins: no restore and no replay brings an older state
\* of the settings back over it (decide_replay and compute_restore compare the
\* fingerprint of what they wrote).
UserWins == reg'.edit >= reg.edit

\* A route this engine created and nobody changed always has an owner that
\* will remove it: the apply in progress, the RouteOwner or the obligations of
\* the runtime (record_owned_route, from_routes, retry_owned_routes_with).
CreatedHasOwner ==
  \A r \in Routes : rows[r] = "ours" =>
    \E o \in Range(own.routes) \cup Range(oblig) : o.route = r

\* What other programs put into the routing table, or changed on the adapter
\* after the apply, survives roll-back and clear (Borrowed rows, error 87,
\* compare-and-restore).
OthersKept ==
  /\ \A r \in Routes : rows[r] \in {"theirs", "stale"} => rows'[r] = rows[r]
  /\ \A l \in Leaves : conf[l] = "other" /\ pc # "mtu" /\ pc # "routes" =>
       conf'[l] = "other" \/ nic' = "absent"

\* Between connections the kept adapter carries no address, MTU or DNS of the
\* last one, except where a best-effort roll-back step failed: apply is all or
\* nothing (D16) and clear restores every leaf before the owner is dropped.
IdleIsClean ==
  pc = "idle" =>
    /\ \A l \in Leaves : conf[l] = "vpn" => l \in stuck
    /\ addr => "addr" \in stuck
=============================================================================
