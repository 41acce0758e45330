---------------------------- MODULE DarwinConfig ----------------------------
(***************************************************************************)
(* Settings and stored credentials on macOS.  The Core keeps one copy of   *)
(* the configuration in memory, behind a lock; ConfigSet and Connect work  *)
(* on that copy and save it under the lock, ConfigGet reads and writes the *)
(* file outside it and then replaces the copy.                             *)
(***************************************************************************)
EXTENDS ConfigFile

CONSTANTS Users, Tasks, MaxOp, MaxFault

VARIABLES file, key,   \* config.json and key.bin
          mem,         \* the shared DarwinUiConfig
          lock,        \* the task that holds its lock, or "free"
          task,        \* the handlers: [op, pc, form, cfg]
          said,        \* the pair of account and password last sent
          left         \* operations, faults and keys left

vars == <<file, key, mem, lock, task, said, left>>

Forms == [user : Users \cup {"same"}, typed : BOOLEAN, remember : {"same", "yes", "no"}]
ValidForm(f) == f.user = "same" => ~f.typed
NoForm == [user |-> "same", typed |-> FALSE, remember |-> "same"]
Idle == [op |-> "none", pc |-> "none", form |-> NoForm, cfg |-> Default]

\* The Core loads its copy at the start; the key is made when first needed.
Init ==
  /\ file \in {Missing, Bad, Written([Default EXCEPT !.extra = TRUE])} /\ key = NoKey
  /\ mem = LoadFromDir(file) /\ lock = "free" /\ task = [t \in Tasks |-> Idle]
  /\ said = [user |-> "nobody", pw |-> "nobody"]
  /\ left = [op |-> MaxOp, fault |-> MaxFault, key |-> 1]

Faults == left.fault > 0 /\ left' = [left EXCEPT !.fault = @ - 1]
Replies(t) == task' = [task EXCEPT ![t] = Idle]
At(t, op, pc) == task[t].op = op /\ task[t].pc = pc

CoreRestarts ==
  /\ Faults
  /\ mem' = LoadFromDir(file) /\ lock' = "free" /\ task' = [t \in Tasks |-> Idle]
  /\ UNCHANGED <<file, key, said>>

Begins(t) ==
  /\ task[t] = Idle /\ left.op > 0
  /\ \/ task' = [task EXCEPT ![t] = [Idle EXCEPT !.op = "get", !.pc = "read"]]
     \/ \E f \in {g \in Forms : ValidForm(g)} :
          task' = [task EXCEPT ![t] = [Idle EXCEPT !.op = "set", !.pc = "lock", !.form = f]]
     \/ \E u \in Users, persist \in {"yes", "no"} :
          task' = [task EXCEPT ![t] =
            [Idle EXCEPT !.op = "connect", !.pc = "lock",
                         !.form = [user |-> u, typed |-> TRUE, remember |-> persist]]]
     \/ task' = [task EXCEPT ![t] = [Idle EXCEPT !.op = "saved", !.pc = "lock"]]
  /\ left' = [left EXCEPT !.op = @ - 1]
  /\ UNCHANGED <<file, key, mem, lock, said>>

---------------------------------------------------------------------------
\* config_get

GetReads(t) ==
  /\ At(t, "get", "read")
  /\ task' = [task EXCEPT ![t].cfg = LoadForStartup(file).cfg, ![t].pc = "write"]
  /\ UNCHANGED <<file, key, mem, lock, said, left>>

GetWrites(t) ==
  /\ At(t, "get", "write")
  /\ \/ /\ file' = Written(task[t].cfg) /\ UNCHANGED left
        /\ task' = [task EXCEPT ![t].pc = "refresh"]
     \/ Faults /\ Replies(t) /\ UNCHANGED file
  /\ UNCHANGED <<key, mem, lock, said>>

GetRefreshes(t) ==
  /\ At(t, "get", "refresh") /\ lock = "free"
  /\ mem' = [task[t].cfg EXCEPT !.extra = FALSE] /\ Replies(t)
  /\ UNCHANGED <<file, key, lock, said, left>>

---------------------------------------------------------------------------
\* config_set and the credentials of a Connect, under the lock

\* ConfigUpdate::apply: a new account drops the stored password, a choice not
\* to remember drops it too; a typed one is sealed afterwards.
UpdateApply(c, f) ==
  LET user == IF f.user = "same" THEN c.user ELSE f.user
      remember == IF f.remember = "same" THEN c.remember ELSE f.remember = "yes"
      keeps == user = c.user /\ remember
  IN [c EXCEPT !.user = user, !.remember = remember, !.opt = 1 - @,
               !.pw = IF keeps THEN @ ELSE NoPassword]

\* apply_ui_credentials_and_save: account and password in one batch.
ApplyUiCredentials(c, f) ==
  [c EXCEPT !.user = f.user, !.remember = TRUE,
            !.pw = IF c.user = f.user THEN @ ELSE NoPassword]

\* A request that does not validate ends before the lock; a Connect that does
\* not persist only uses a copy with the account of its credentials.
Locks(t) ==
  /\ task[t].pc = "lock" /\ lock = "free"
  /\ LET f == task[t].form
         set == UpdateApply(mem, f)
     IN \/ /\ task[t].op = "set"
           /\ task' = [task EXCEPT ![t].cfg = set,
                                   ![t].pc = IF set.remember /\ f.typed THEN "key" ELSE "save"]
        \/ /\ task[t].op = "connect" /\ f.remember = "yes"
           /\ task' = [task EXCEPT ![t].cfg = ApplyUiCredentials(mem, f), ![t].pc = "key"]
        \/ /\ task[t].op = "connect" /\ f.remember = "no"
           /\ task' = [task EXCEPT ![t].cfg = [mem EXCEPT !.user = f.user], ![t].pc = "send"]
        \/ /\ task[t].op = "saved"
           /\ task' = [task EXCEPT ![t].cfg = mem, ![t].pc = "send"]
  /\ lock' = t
  /\ UNCHANGED <<file, key, mem, said, left>>

SetRefused(t) ==
  /\ At(t, "set", "lock") /\ Replies(t)
  /\ UNCHANGED <<file, key, mem, lock, said, left>>

\* ensure_key renames a complete key into place.
Seals(t) ==
  /\ task[t].pc = "key"
  /\ key' = IF LoadKey(key) THEN key ELSE left.key
  /\ left' = IF LoadKey(key) THEN left ELSE [left EXCEPT !.key = @ + 1]
  /\ task' = [task EXCEPT ![t].cfg.pw = EncryptPassword(task[t].form.user, key'),
                          ![t].pc = "save"]
  /\ UNCHANGED <<file, mem, lock, said>>

\* The copy is replaced once the file is; a failure changes neither.
Saves(t) ==
  /\ task[t].pc = "save"
  /\ \/ /\ file' = SaveToDir(task[t].cfg) /\ mem' = task[t].cfg /\ UNCHANGED left
        /\ IF task[t].op = "set" THEN Replies(t) /\ lock' = "free"
           ELSE task' = [task EXCEPT ![t].pc = "send"] /\ UNCHANGED lock
     \/ Faults /\ UNCHANGED <<file, mem>> /\ Replies(t) /\ lock' = "free"
  /\ UNCHANGED <<key, said>>

\* The envelope: the credentials of the request, or the stored ones.
Sends(t) ==
  /\ task[t].pc = "send"
  /\ LET c == task[t].cfg
         p == IF task[t].op = "connect" THEN task[t].form.user
              ELSE IF c.remember /\ LoadKey(key) THEN DecryptPassword(c.pw, key) ELSE "nobody"
     IN said' = IF p = "nobody" THEN said ELSE [user |-> c.user, pw |-> p]
  /\ Replies(t) /\ lock' = "free"
  /\ UNCHANGED <<file, key, mem, left>>

Next ==
  \/ CoreRestarts
  \/ \E t \in Tasks : Begins(t) \/ GetReads(t) \/ GetWrites(t) \/ GetRefreshes(t)
                        \/ Locks(t) \/ SetRefused(t) \/ Seals(t) \/ Saves(t) \/ Sends(t)
Spec == Init /\ [][Next]_vars

---------------------------------------------------------------------------
\* As on Windows: file and memory hold the account's own password, by the
\* user's choice and readable with the key; what is sent pairs them.
PasswordIsAccounts ==
  /\ \A c \in {file.cfg, mem} :
       c.pw # NoPassword => c.pw.of = c.user /\ c.remember /\ c.pw.key = key
  /\ said.user = said.pw

=============================================================================
