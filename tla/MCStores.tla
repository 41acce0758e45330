------------------------------- MODULE MCStores ------------------------------
(***************************************************************************)
(* What the programs own and keep, one store per behaviour: the network    *)
(* and proxy settings of a Windows connection, the tunnel aggregate, the   *)
(* packet boundary, the start of the privileged helper with its journal,   *)
(* the writer and the vault of the CSTP crate, the two configuration       *)
(* stores and the shell's own settings.  `which` is chosen initially; the  *)
(* pool variables a store does not need stay unused.                       *)
(***************************************************************************)
EXTENDS Naturals

CONSTANTS
    MaxCall,     \* the teardown owner's calls
    MaxFault,    \* failing system calls of the aggregate and of the settings
    MaxOp,       \* operations on the settings
    HardFaults, ReadbackFails, ReadsFail   \* which reads may fail as well

VARIABLES which, v1, v2, v3, v4, v5, v6, v7, v8, v9, v10, v11, v12, v13, v14, v15,
          v16, v17, v18, v19, v20

N == INSTANCE PlatformTunnel WITH
       nic <- v1, conf <- v2, addr <- v3, rows <- v4, own <- v5, oblig <- v6, pc <- v7,
       todo <- v8, connects <- v9, others <- v10, crashes <- v11, stuck <- v12,
       reg <- v13, stale <- v14, file <- v15, evidence <- v16, store <- v17,
       replay <- v18, nextWrite <- v19, faults <- v20,
       Routes <- {"bypass", "campus"}, Bypass <- "bypass", MaxConnects <- 3,
       MaxOthers <- 1, MaxCrashes <- 1, MaxEdits <- 1, MaxWrites <- 3, MaxFaults <- 3

T == INSTANCE TunnelResources WITH
       cur <- v1, by <- v2, plan <- v3, own <- v4, base <- v5, applied <- v6, op <- v7,
       result <- v8, agg <- v9, td <- v10, saga <- v11, wk <- v12, left <- v13,
       MaxOther <- 1

P == INSTANCE PacketSession WITH
       helper <- v1, psaga <- v2, bar <- v3, cap <- v4, budget <- v5, turn <- v6,
       pending <- v7, held <- v8, wait <- v9,
       QueueMessages <- 2, QueueBytes <- 2, BatchPackets <- 2, BatchBytes <- 2,
       MaxPending <- 1, MaxFull <- 4

R == INSTANCE EngineRecovery WITH
       proc <- v1, owner <- v2, file <- v3, effects <- v4, budgets <- v5,
       Helpers <- {"e1", "e2"}, MaxAppend <- 3, MaxCrash <- 2

M == INSTANCE CstpMux WITH
       control <- v1, data <- v2, turn <- v3, queued <- v4, inflight <- v5, eof <- v6,
       emitted <- v7, passed <- v8, entries <- v9, next <- v10, owed <- v11, futures <- v12,
       ControlCapacity <- 2, DataByteBudget <- 3, Lengths <- 0 .. 2, MaxQueue <- 2,
       Vaults <- {}, MaxEntry <- 0, MaxFuture <- 0

V == INSTANCE CstpMux WITH
       control <- v1, data <- v2, turn <- v3, queued <- v4, inflight <- v5, eof <- v6,
       emitted <- v7, passed <- v8, entries <- v9, next <- v10, owed <- v11, futures <- v12,
       ControlCapacity <- 0, DataByteBudget <- 0, Lengths <- {}, MaxQueue <- 0,
       Vaults <- {"a", "b"}, MaxEntry <- 3, MaxFuture <- 2

W == INSTANCE UserConfig WITH
       file <- v1, key <- v2, core <- v3, task <- v4, said <- v5, left <- v6,
       Users <- {"u1", "u2"}, Tasks <- {"t1", "t2"}

D == INSTANCE DarwinConfig WITH
       file <- v1, key <- v2, mem <- v3, lock <- v4, task <- v5, said <- v6, left <- v7,
       Users <- {"u1", "u2"}, Tasks <- {"t1", "t2"}

U == INSTANCE UiPrefs WITH
       os <- v1, file <- v2, legacy <- v3, item <- v4, page <- v5, queue <- v6,
       save <- v7, want <- v8, left <- v9, MaxEdit <- MaxOp

vars == <<which, v1, v2, v3, v4, v5, v6, v7, v8, v9, v10, v11, v12, v13, v14, v15,
          v16, v17, v18, v19, v20>>
From14 == <<which, v14, v15, v16, v17, v18, v19, v20>>
From13 == <<From14, v13>>
From10 == <<From13, v10, v11, v12>>
From8 == <<From10, v8, v9>>
From7 == <<From8, v7>>
From6 == <<From7, v6>>

Network == which = "network"
Tunnel == which = "tunnel"
Packet == which = "packet"
Recovery == which = "recovery"
Mux == which = "mux"
Vault == which = "vault"
Win32 == which = "win32"
Darwin == which = "darwin"
Prefs == which = "prefs"

Zero14 == v14 = 0 /\ v15 = 0 /\ v16 = 0 /\ v17 = 0 /\ v18 = 0 /\ v19 = 0 /\ v20 = 0
Zero13 == Zero14 /\ v13 = 0
Zero10 == Zero13 /\ v10 = 0 /\ v11 = 0 /\ v12 = 0
Zero8 == Zero10 /\ v8 = 0 /\ v9 = 0
Zero7 == Zero8 /\ v7 = 0
Zero6 == Zero7 /\ v6 = 0

Init ==
  \/ which = "network" /\ N!Init
  \/ which = "tunnel" /\ T!Init /\ Zero14
  \/ which = "packet" /\ P!Init /\ Zero10
  \/ which = "recovery" /\ R!Init /\ Zero6
  \/ which = "mux" /\ M!Init /\ Zero13
  \/ which = "vault" /\ V!Init /\ Zero13
  \/ which = "win32" /\ W!Init /\ Zero7
  \/ which = "darwin" /\ D!Init /\ Zero8
  \/ which = "prefs" /\ U!Init /\ Zero10

Next ==
  \/ Network /\ N!Next /\ UNCHANGED which
  \/ Tunnel /\ T!Next /\ UNCHANGED From14
  \/ Packet /\ P!Next /\ UNCHANGED From10
  \/ Recovery /\ R!Next /\ UNCHANGED From6
  \/ Mux /\ M!Next /\ UNCHANGED From13
  \/ Vault /\ V!Next /\ UNCHANGED From13
  \/ Win32 /\ W!Next /\ UNCHANGED From7
  \/ Darwin /\ D!Next /\ UNCHANGED From8
  \/ Prefs /\ U!Next /\ UNCHANGED From10

Spec == Init /\ [][Next]_vars

(* What the code declares clean is clean.  Between connections the kept
   adapter carries nothing of the last one (but for a best-effort roll-back
   step that failed) and, while no system call has failed, the user's proxy
   settings are the user's own; a cleanup proof of the teardown means that no
   worker, session, adapter or recorded setting is left; ownership of the
   packet plane is released after both sides joined; and a ProvenClean
   recovery found no effect of an earlier helper.                           *)
CleanIsClean ==
  /\ Network => N!IdleIsClean /\ N!IdleUndone
  /\ Tunnel => T!ProofIsClean /\ T!RestoredIsNotOurs
  /\ Packet => P!ReleaseIsLast
  /\ Recovery => R!ProvenCleanIsTrue

(* Nothing that has to be undone is forgotten: a route this engine created has
   an owner that will remove it, a change of the user's proxy settings is on
   record until it is undone, and a late handle stays in its vault until it is
   taken, whatever became of its cleanup futures.                           *)
NothingForgotten ==
  /\ Network => N!CreatedHasOwner /\ N!WriteRecorded
  /\ Vault => V!EntryKeptUntilTaken

(* The user's latest edit of the proxy settings wins over every restore and
   replay, and what other programs put into the routing table or changed on
   the adapter survives roll-back and clear.                                *)
OthersKept == [][Network => N!UserWins /\ N!OthersKept]_vars

(* What has ended is not used again and no bound is passed: no packet worker
   runs in a session that has ended, the writer's EOF is the last thing it
   emits, at most one privileged helper is past the machine's authority, no
   byte budget is exceeded (the writer's together with what its peer has not
   read), and a direction or producer that is ready is passed over at most
   once.                                                                    *)
PlaneHolds ==
  /\ Tunnel => T!NoUseAfterEnd
  /\ Recovery => R!OneHelper
  /\ Packet => P!BytesBounded /\ P!PumpIsFair
  /\ Mux => M!EofIsLast /\ M!BufferBounded /\ M!ProducersAlternate

(* The stored password is the stored account's own, is kept by the user's
   choice only and opens with the key on disk, and what is sent or shown pairs
   an account with its own password.  The settings page shows the user's last
   choices, and with no save under way the accepted values, the file and the
   login item agree.                                                        *)
SettingsHold ==
  /\ Win32 => W!PasswordIsAccounts
  /\ Darwin => D!PasswordIsAccounts
  /\ Prefs => U!EditsKept /\ U!PrefsAreReal
=============================================================================
