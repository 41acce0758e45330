----------------------------- MODULE UserConfig -----------------------------
(***************************************************************************)
(* Settings and stored credentials on Windows: the Core's ConfigGet and    *)
(* ConfigSet, the credentials a Connect brings or looks up, and the        *)
(* password the shell shows on demand.  The handlers run concurrently on   *)
(* the same two files, without a lock, and the Core may die between any    *)
(* two of their steps.                                                     *)
(***************************************************************************)
EXTENDS ConfigFile

CONSTANTS Users, Tasks, MaxOp, MaxFault

VARIABLES file,   \* config.json
          key,    \* key.bin
          core,   \* the Core: down, a step of its ensure_key, or up
          task,   \* the handlers: [op, pc, form, cfg]
          said,   \* the pair of account and password last sent or shown
          left    \* operations, faults and keys left

vars == <<file, key, core, task, said, left>>

\* A ConfigSet: fields that are absent leave the configuration as it is; a
\* password comes with the account it belongs to.
Forms == [user : Users \cup {"same"}, typed : BOOLEAN, remember : {"same", "yes", "no"}]
ValidForm(f) == f.user = "same" => ~f.typed
NoForm == [user |-> "same", typed |-> FALSE, remember |-> "same"]
Idle == [op |-> "none", pc |-> "none", form |-> NoForm, cfg |-> Default]

Init ==
  /\ file \in {Missing, Bad, Written([Default EXCEPT !.extra = TRUE])} /\ key = NoKey
  /\ core = "down" /\ task = [t \in Tasks |-> Idle]
  /\ said = [user |-> "nobody", pw |-> "nobody"]
  /\ left = [op |-> MaxOp, fault |-> MaxFault, key |-> 1]

Faults == left.fault > 0 /\ left' = [left EXCEPT !.fault = @ - 1]
Step(t, pc) == task' = [task EXCEPT ![t].pc = pc]
Replies(t) == task' = [task EXCEPT ![t] = Idle]
At(t, op, pc) == task[t].op = op /\ task[t].pc = pc

---------------------------------------------------------------------------
\* The Core's start: ensure_key, whose failure is not looked at.

NeedsKey == ~LoadKey(key)

CoreStarts ==
  /\ core = "down"
  /\ \/ core' = (IF NeedsKey THEN "key" ELSE "up") /\ UNCHANGED left
     \/ Faults /\ core' = "up"
  /\ UNCHANGED <<file, key, task, said>>

\* save_key truncates the file and then writes it.
CoreWritesKey ==
  /\ core \in {"key", "short"}
  /\ IF core = "key" THEN key' = ShortKey /\ core' = "short" /\ UNCHANGED left
     ELSE key' = left.key /\ core' = "up" /\ left' = [left EXCEPT !.key = @ + 1]
  /\ UNCHANGED <<file, task, said>>

CoreDies ==
  /\ core # "down" /\ Faults /\ core' = "down"
  /\ task' = [t \in Tasks |-> Idle]
  /\ UNCHANGED <<file, key, said>>

---------------------------------------------------------------------------
\* A call arrives.  One Connect at a time has the Engine.

Begins(t) ==
  /\ core = "up" /\ task[t] = Idle /\ left.op > 0
  /\ \/ task' = [task EXCEPT ![t] = [Idle EXCEPT !.op = "get", !.pc = "read"]]
     \/ \E f \in {g \in Forms : ValidForm(g)} :
          task' = [task EXCEPT ![t] = [Idle EXCEPT !.op = "set", !.pc = "load", !.form = f]]
     \/ /\ \A u \in Tasks : task[u].op \notin {"connect", "saved"}
        /\ \/ \E u \in Users, persist \in {"yes", "no"} :
                task' = [task EXCEPT ![t] =
                  [Idle EXCEPT !.op = "connect", !.pc = "load",
                               !.form = [user |-> u, typed |-> TRUE, remember |-> persist]]]
           \/ task' = [task EXCEPT ![t] = [Idle EXCEPT !.op = "saved", !.pc = "load"]]
     \/ \E u \in Users :
          task' = [task EXCEPT ![t] =
            [Idle EXCEPT !.op = "show", !.pc = "load", !.form.user = u]]
  /\ left' = [left EXCEPT !.op = @ - 1]
  /\ UNCHANGED <<file, key, core, said>>

\* config_get: read and classified, and written back.
GetReads(t) ==
  /\ At(t, "get", "read")
  /\ task' = [task EXCEPT ![t].cfg = LoadForStartup(file).cfg, ![t].pc = "write"]
  /\ UNCHANGED <<file, key, core, said, left>>

GetWrites(t) ==
  /\ At(t, "get", "write")
  /\ \/ file' = Written(task[t].cfg) /\ UNCHANGED left
     \/ Faults /\ UNCHANGED file
  /\ Replies(t)
  /\ UNCHANGED <<key, core, said>>

\* config_set: the items change what was loaded; an unknown or ill-formed
\* one ends the call before anything is saved.
ApplyItems(c, f) ==
  LET user == IF f.user = "same" THEN c.user ELSE f.user
      remember == IF f.remember = "same" THEN c.remember ELSE f.remember = "yes"
  IN [c EXCEPT !.user = user, !.remember = remember, !.opt = 1 - @]

\* Mutant: a new account keeps the stored password.
InheritedPassword(c, f) == c.pw

\* Another account without its password, and a choice not to remember, clear
\* the stored one.
KeptPassword(c, f) ==
  IF (f.user \notin {"same", c.user} /\ ~f.typed) \/ ~ApplyItems(c, f).remember
  THEN NoPassword ELSE c.pw

SetLoads(t) ==
  /\ At(t, "set", "load")
  /\ \/ Replies(t)
     \/ LET c == LoadFromDir(file)
            f == task[t].form
            new == [ApplyItems(c, f) EXCEPT !.pw = KeptPassword(c, f)]
        IN task' = [task EXCEPT ![t].cfg = new,
                                ![t].pc = IF new.remember /\ f.typed THEN "key" ELSE "save"]
  /\ UNCHANGED <<file, key, core, said, left>>

\* The key is only read; without one the call fails.
SetSeals(t) ==
  /\ At(t, "set", "key")
  /\ IF LoadKey(key)
     THEN task' = [task EXCEPT ![t].cfg = SetPasswordEncrypted(@, task[t].form.user, key),
                               ![t].pc = "save"]
     ELSE Replies(t)
  /\ UNCHANGED <<file, key, core, said, left>>

\* Written to a temporary file and renamed over, or not at all.
Saves(t) ==
  /\ task[t].pc = "save"
  /\ \/ file' = SaveToDir(task[t].cfg) /\ UNCHANGED left
     \/ Faults /\ UNCHANGED file
  /\ IF task[t].op = "set" \/ file' = file THEN Replies(t) ELSE Step(t, "send")
  /\ UNCHANGED <<key, core, said>>

---------------------------------------------------------------------------
\* A Connect with the credentials of its request

ConnectLoads(t) ==
  /\ At(t, "connect", "load")
  /\ task' = [task EXCEPT ![t].cfg = [LoadFromDir(file) EXCEPT !.user = task[t].form.user],
                          ![t].pc = IF task[t].form.remember = "yes" THEN "key" ELSE "send"]
  /\ UNCHANGED <<file, key, core, said, left>>

\* persist_ui_credentials: ensure_key, seal, save.
EnsureKey(t) ==
  /\ At(t, "connect", "key")
  /\ IF LoadKey(key)
     THEN /\ task' = [task EXCEPT ![t].cfg = SetPasswordEncrypted(@, task[t].form.user, key),
                                  ![t].pc = "save"]
          /\ UNCHANGED key
     ELSE key' = ShortKey /\ Step(t, "fill")
  /\ UNCHANGED <<file, core, said, left>>

FillsKey(t) ==
  /\ At(t, "connect", "fill")
  /\ key' = left.key /\ left' = [left EXCEPT !.key = @ + 1]
  /\ task' = [task EXCEPT ![t].cfg = SetPasswordEncrypted(@, task[t].form.user, left.key),
                          ![t].pc = "save"]
  /\ UNCHANGED <<file, core, said>>

ConnectSends(t) ==
  /\ At(t, "connect", "send")
  /\ said' = [user |-> task[t].cfg.user, pw |-> task[t].form.user]
  /\ Replies(t)
  /\ UNCHANGED <<file, key, core, left>>

\* A Connect without credentials: load_credentials, or a request for them.
SavedLoads(t) ==
  /\ At(t, "saved", "load")
  /\ task' = [task EXCEPT ![t].cfg = LoadFromDir(file), ![t].pc = "key"]
  /\ UNCHANGED <<file, key, core, said, left>>

SavedSends(t) ==
  /\ At(t, "saved", "key")
  /\ LET p == DecryptPassword(task[t].cfg.pw, key)
     IN said' = IF LoadKey(key) /\ p # "nobody"
                THEN [user |-> task[t].cfg.user, pw |-> p] ELSE said
  /\ Replies(t)
  /\ UNCHANGED <<file, key, core, left>>

\* saved_password: the shell compares the account with the Core's answer and,
\* in read_for_display, with the file it then reads.
ShowLoads(t) ==
  /\ At(t, "show", "load")
  /\ LET c == LoadFromDir(file)
     IN IF c.user = task[t].form.user /\ c.remember /\ c.pw # NoPassword
        THEN task' = [task EXCEPT ![t].cfg = c, ![t].pc = "key"] ELSE Replies(t)
  /\ UNCHANGED <<file, key, core, said, left>>

Shows(t) ==
  /\ At(t, "show", "key")
  /\ LET p == DecryptPassword(task[t].cfg.pw, key)
     IN said' = IF LoadKey(key) /\ p # "nobody"
                THEN [user |-> task[t].form.user, pw |-> p] ELSE said
  /\ Replies(t)
  /\ UNCHANGED <<file, key, core, left>>

Next ==
  \/ CoreStarts \/ CoreWritesKey \/ CoreDies
  \/ \E t \in Tasks : \/ Begins(t) \/ GetReads(t) \/ GetWrites(t) \/ SetLoads(t) \/ SetSeals(t)
                      \/ Saves(t) \/ ConnectLoads(t) \/ EnsureKey(t) \/ FillsKey(t)
                      \/ ConnectSends(t) \/ SavedLoads(t) \/ SavedSends(t) \/ ShowLoads(t) \/ Shows(t)
Spec == Init /\ [][Next]_vars

---------------------------------------------------------------------------
\* The stored password is the stored account's, is there only by the user's
\* choice, and can be opened with the key on disk; what is sent to the
\* server or shown pairs an account with its own password - whatever calls
\* overlapped and wherever the Core died.
PasswordIsAccounts ==
  /\ LET c == file.cfg
     IN c.pw # NoPassword => c.pw.of = c.user /\ c.remember /\ c.pw.key = key
  /\ said.user = said.pw

=============================================================================
