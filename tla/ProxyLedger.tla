---------------------------- MODULE ProxyLedger ----------------------------
(***************************************************************************)
(* The write-ahead ledger of the Windows system-proxy exemption: the        *)
(* user's Internet Settings in the registry, the journal file that records  *)
(* every change before it is made, and the replay that undoes what a        *)
(* crashed session left behind (system_proxy_journal.rs, journal_store.rs,  *)
(* system_proxy_family*.rs).                                                *)
(*                                                                          *)
(* A registry value abstracts the five values the program fingerprints:     *)
(* "edit" says which of the user's own settings it carries and "writes"     *)
(* which changes of the program lie on top.  A plan changes exactly one of  *)
(* the five, so a restore that stops half way leaves either the written     *)
(* value or the old one, never a third.                                     *)
(***************************************************************************)
EXTENDS Integers, Sequences, SequencesExt

CONSTANTS MaxEdits,      \* edits the user makes to the proxy settings
          MaxWrites,     \* changes the program makes to them
          MaxFaults,     \* system calls that fail
          HardFaults     \* whether reading the journal to repair it or to count
                         \* its records, and the repair itself, may fail too

VARIABLES
  reg,        \* the user's Internet Settings
  stale,      \* a change was written on settings edited after they were read
  file,       \* journal.bin
  evidence,   \* records in quarantined journal.bin.corrupt-<ts> files
  store,      \* the held WinJournalStore: "open", or "disabled" (None)
  replay,     \* the replay_pending call in progress
  nextWrite,  \* the next change of the program
  faults      \* failing system calls left

ledgerVars == <<reg, stale, file, evidence, store, replay, nextWrite, faults>>

Settings(e, w) == [edit |-> e, writes |-> w]

\* SystemProxyFamilyStep: the settings before and after the one planned change.
Step(pre, id) ==
  [kind |-> "step", pre |-> pre, written |-> Settings(pre.edit, Append(pre.writes, id))]

\* A frame cut inside its header or digest, and one cut inside its payload.
TornFrame == [kind |-> "torn"]
CutPayload == [kind |-> "cut"]

IsStep(e) == e.kind = "step"

NoReplay == [active |-> FALSE, records |-> <<>>, keep |-> 0, idx |-> 0]

\* The complete records in front of the first damaged frame.
Sound(f) ==
  LET damaged == {i \in DOMAIN f : ~IsStep(f[i])}
  IN  IF damaged = {} THEN f
      ELSE SubSeq(f, 1, (CHOOSE i \in damaged : \A j \in damaged : i <= j) - 1)

\* What decode makes of the file: a torn last frame is a torn tail; a cut
\* payload, or anything after a damaged frame, is corruption, except that a
\* frame read across the damage may look like a torn tail once more.
Decode(f) ==
  LET n == Len(Sound(f)) IN
  CASE n = Len(f) -> {"Clean"}
    [] n = Len(f) - 1 /\ f[Len(f)] = TornFrame -> {"TornTail"}
    [] n < Len(f) - 1 /\ f[n + 1] = TornFrame -> {"TornTail", "Corrupt"}
    [] OTHER -> {"Corrupt"}

LedgerTypeOK ==
  /\ reg \in [edit : 0..MaxEdits, writes : Seq(1..MaxWrites)]
  /\ stale \in BOOLEAN
  /\ \A i \in DOMAIN file : file[i].kind \in {"step", "torn", "cut"}
  /\ \A e \in evidence : IsStep(e)
  /\ store \in {"open", "disabled"}
  /\ replay.active => replay.idx \in 0..Len(replay.records)
  /\ nextWrite \in 1..(MaxWrites + 1)
  /\ faults \in 0..MaxFaults

LedgerInit ==
  /\ reg = Settings(0, <<>>)
  /\ stale = FALSE
  /\ file = <<>>
  /\ evidence = {}
  /\ store = "open"
  /\ replay = NoReplay
  /\ nextWrite = 1
  /\ faults = MaxFaults

\* One system call fails.
Fault == faults > 0 /\ faults' = faults - 1
NoFault == faults' = faults

(***************************************************************************)
(* The store.                                                               *)
(***************************************************************************)
\* WinJournalStore::open, for a start or after a failure: a store, or none.
Reopen ==
  \/ store' = "open"
  \/ store' = "disabled"

\* compact replaces the file by the kept records in one rename.
CompactOk(kept) == file' = kept /\ store' = store /\ NoFault

\* A failed compact happened before or after the rename; the handle it gave up
\* is opened anew or the ledger is disabled for the session.
CompactFails(kept) == file' \in {file, kept} /\ Reopen /\ Fault

\* quarantine_locked: close, rename the corrupt file away, open a fresh one.
\* A failed rename or open disables the ledger.
Quarantine ==
  \/ /\ file' = <<>> /\ store' = "open" /\ NoFault
     /\ evidence' = evidence \cup Range(Sound(file))
  \/ /\ file' = <<>> /\ store' = "disabled" /\ Fault
     /\ evidence' = evidence \cup Range(Sound(file))
  \/ /\ file' = file /\ store' = "disabled" /\ Fault
     /\ evidence' = evidence

(***************************************************************************)
(* replay_pending: at the start of the engine and before every apply.       *)
(***************************************************************************)
ReplayStart(records) ==
  replay' = [active |-> TRUE, records |-> records,
             keep |-> Len(records), idx |-> Len(records)]

ReplaySkipped == replay' = NoReplay

\* Read the file and repair it: nothing is replayed when it cannot be read,
\* when the torn tail stays, or when the file is corrupt and set aside.
ReplayOpen ==
  /\ UNCHANGED <<reg, stale, nextWrite>>
  /\ \/ /\ store = "disabled"
        /\ ReplaySkipped
        /\ UNCHANGED <<file, evidence, store, faults>>
     \/ /\ store = "open"
        /\ HardFaults /\ Fault
        /\ ReplaySkipped
        /\ UNCHANGED <<file, evidence, store>>
     \/ /\ store = "open" /\ "Clean" \in Decode(file)
        /\ ReplayStart(file)
        /\ UNCHANGED <<file, evidence, store, faults>>
     \/ /\ store = "open" /\ "TornTail" \in Decode(file)
        /\ evidence' = evidence
        /\ \/ CompactOk(Sound(file)) /\ ReplayStart(Sound(file))
           \/ HardFaults /\ CompactFails(Sound(file)) /\ ReplaySkipped
     \/ /\ store = "open" /\ "Corrupt" \in Decode(file)
        /\ Quarantine
        /\ ReplaySkipped

\* Mutant: the compare against the written fingerprint is dropped.
DecisionForced(step) ==
  IF reg = step.pre THEN "AlreadyClean" ELSE "Restore"

\* decide_replay on the fingerprints: the written state is undone, the old
\* state needs nothing, any other is the user's and the record is forfeited.
Decision(step) ==
  CASE reg = step.written /\ step.written # step.pre -> "Restore"
    [] reg = step.pre -> "AlreadyClean"
    [] OTHER -> "SkipForfeit"

\* One record, newest first: a failed capture or a failed leaf of the restore
\* keeps it and everything before it.
ReplayRecord ==
  /\ replay.active /\ replay.idx > 0
  /\ UNCHANGED <<stale, file, evidence, store, nextWrite>>
  /\ LET step == replay.records[replay.idx] IN
     \/ /\ Fault
        /\ reg' \in IF Decision(step) = "Restore" THEN {reg, step.pre} ELSE {reg}
        /\ replay' = [replay EXCEPT !.idx = 0]
     \/ /\ NoFault
        /\ reg' = IF Decision(step) = "Restore" THEN step.pre ELSE reg
        /\ replay' = [replay EXCEPT !.idx = @ - 1, !.keep = replay.idx - 1]

\* The settled suffix is compacted away.
ReplayEnd ==
  /\ replay.active /\ replay.idx = 0
  /\ UNCHANGED <<reg, stale, evidence, nextWrite>>
  /\ replay' = NoReplay
  /\ \/ replay.keep = Len(replay.records) /\ UNCHANGED <<file, store, faults>>
     \/ /\ replay.keep < Len(replay.records)
        /\ LET kept == SubSeq(replay.records, 1, replay.keep)
           IN  CompactOk(kept) \/ CompactFails(kept)

(***************************************************************************)
(* One step of a connection: count, record, write, restore, forget.         *)
(***************************************************************************)
\* record_count before the step: 0 when there is no ledger, when the file is
\* corrupt, and when it cannot be read.
RecordCount(n) ==
  \/ store = "disabled" /\ n = 0 /\ NoFault
  \/ store = "open" /\ "Corrupt" \in Decode(file) /\ n = 0 /\ NoFault
  \/ store = "open" /\ Decode(file) # {"Corrupt"} /\ n = Len(Sound(file)) /\ NoFault
  \/ store = "open" /\ HardFaults /\ n = 0 /\ Fault

\* The frame is appended and flushed.
AppendOk(step) ==
  /\ store = "open" /\ Decode(file) # {"Corrupt"}
  /\ file' = Append(file, step)
  /\ UNCHANGED <<evidence, store, faults>>

\* A corrupt journal is set aside first and the record starts a fresh one.
AppendFresh(step) ==
  /\ store = "open" /\ "Corrupt" \in Decode(file)
  /\ file' = <<step>>
  /\ evidence' = evidence \cup Range(Sound(file))
  /\ UNCHANGED <<store, faults>>

\* The append failed: nothing, part of the frame, or an unflushed whole frame
\* is in the file, or setting the corrupt file aside failed.
AppendFails(step) ==
  \/ store = "disabled" /\ UNCHANGED <<file, evidence, store, faults>>
  \/ /\ store = "open" /\ Fault
     /\ file' \in {file, Append(file, TornFrame), Append(file, CutPayload),
                   Append(file, step)}
     /\ UNCHANGED <<evidence, store>>
  \/ /\ store = "open" /\ "Corrupt" \in Decode(file) /\ Fault
     /\ store' = "disabled"
     /\ \/ file' = file /\ evidence' = evidence
        \/ file' = <<>> /\ evidence' = evidence \cup Range(Sound(file))

\* clear_tail: only the strict suffix behind "keep" is dropped.
ClearTail(keep) ==
  /\ evidence' = evidence
  /\ LET recs == Sound(file) IN
     \/ /\ \/ store = "disabled" \/ "Corrupt" \in Decode(file) \/ keep >= Len(recs)
        /\ UNCHANGED <<file, store, faults>>
     \/ /\ store = "open" /\ Fault
        /\ UNCHANGED <<file, store>>
     \/ /\ store = "open" /\ Decode(file) # {"Corrupt"} /\ keep < Len(recs)
        /\ \/ CompactOk(SubSeq(recs, 1, keep))
           \/ CompactFails(SubSeq(recs, 1, keep))

\* The value a completed commit leaves: one value is written on whatever the
\* settings are by now.
Written(step) == Settings(reg.edit, Append(reg.writes, Last(step.written.writes)))

\* restore_system_proxy_step: the written state is undone, any other is the
\* user's and stays (a typed skip, not an error).
RestoreOk(step) ==
  /\ reg' = IF reg = step.written THEN step.pre ELSE reg
  /\ NoFault

RestoreFails(step) ==
  /\ reg' \in IF reg = step.written THEN {reg, step.pre} ELSE {reg}
  /\ Fault

(***************************************************************************)
(* The user, and a crash in the middle of an append.                        *)
(***************************************************************************)
\* The user edits the settings.  What the program wrote before and the edit
\* leaves in place is the user's from then on: no fingerprint matches it.
UserEdits ==
  /\ reg.edit < MaxEdits
  /\ reg' = Settings(reg.edit + 1, <<>>)
  /\ stale' = FALSE
  /\ UNCHANGED <<file, evidence, store, replay, nextWrite, faults>>

\* What a crash leaves of a frame being appended.
CutAppend(step) ==
  file' \in {file, Append(file, TornFrame), Append(file, CutPayload), Append(file, step)}
=============================================================================
