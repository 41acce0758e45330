---------------------------- MODULE PreUninstall ----------------------------
(***************************************************************************)
(* The macOS shell's pre-uninstall: stop the connection, have the Core     *)
(* remove the system part behind one elevation, then delete what the user  *)
(* owns item by item and the application bundle last, and report every     *)
(* item.  A path is "none", "ok" (what EXV put there), "link" (a symbolic  *)
(* link that resolves), "dangling" (one that does not), "foreign" (someone *)
(* else's), "readonly" (its volume is), "unsure" (its volume or its name   *)
(* cannot be determined) or "stuck" (something in it will not go).         *)
(***************************************************************************)
EXTENDS Naturals, Sequences, FiniteSets

VARIABLES
    conn,     \* the connection: "idle", "up", "stopping", and "stuck" if it will not end
    system,   \* what a root verb has to remove is still there
    path,     \* [Items -> the kinds above]
    rundir,   \* a runtime directory: "live", "dead" (empty), "socket", "odd", "foreign"
    pre       \* the command: pc, the report so far, what was skipped, aborted

vars == <<conn, system, path, rundir, pre>>

\* The items in the order they are deleted.  The four caches under ~/Library
\* are handled alike and stand as one.
Order == <<"config", "prefs", "autostart", "cache", "single", "runtime", "bundle">>
Items == {"config", "prefs", "autostart", "cache", "single", "bundle"}
Trees == {"config", "cache"}

Kinds(i) ==
    CASE i \in Trees -> {"none", "ok", "link", "dangling", "readonly", "stuck"}
      [] i = "bundle" -> {"none", "ok", "link", "foreign", "readonly", "unsure", "stuck"}
      [] OTHER -> {"none", "ok", "link", "dangling", "foreign", "readonly"}

\* At most one of the items is out of the ordinary.
Init ==
    /\ conn \in {"idle", "up", "stuck"}
    /\ system = TRUE
    /\ \E i \in Items : \E x \in Kinds(i), rest \in {"none", "ok"} :
         path = [[j \in Items |-> rest] EXCEPT ![i] = x]
    /\ rundir \in {"none", "live", "dead", "socket", "odd", "foreign"}
    /\ pre = [pc |-> "idle", at |-> 1, report |-> <<>>, skipped |-> FALSE, aborted |-> FALSE]

-----------------------------------------------------------------------------
(* stop_active_connection. *)

Report(item, status) == Append(pre.report, <<item, status>>)

Aborts == pre' = [pre EXCEPT !.pc = "done", !.aborted = TRUE, !.report = Report("connection", "failed")]

Proceeds(status) == pre' = [pre EXCEPT !.pc = "elevate", !.report = Report("connection", status)]

\* The snapshot cannot be read, is idle already, or a stop is sent, which may fail.
Begins ==
    /\ pre.pc = "idle" /\ UNCHANGED <<system, path, rundir>>
    /\ \/ Aborts /\ UNCHANGED conn
       \/ conn = "idle" /\ Proceeds("absent") /\ UNCHANGED conn
       \/ /\ conn # "idle"
          /\ pre' = [pre EXCEPT !.pc = "stopping"]
          /\ conn' = IF conn = "up" THEN "stopping" ELSE conn

\* The connection ends, in its own time.
Stopped ==
    /\ conn = "stopping" /\ conn' = "idle"
    /\ UNCHANGED <<system, path, rundir, pre>>

\* The poll: idle, a snapshot that cannot be read, or the deadline.
AwaitsIdle ==
    /\ pre.pc = "stopping" /\ UNCHANGED <<conn, system, path, rundir>>
    /\ \/ conn = "idle" /\ Proceeds("removed")
       \/ Aborts

-----------------------------------------------------------------------------
(* The elevated part and what is left afterwards. *)

\* classify_elevation_failure: denied, or failed.
Elevates ==
    /\ pre.pc = "elevate" /\ UNCHANGED <<conn, path, rundir>>
    /\ \/ /\ pre' = [pre EXCEPT !.pc = "check"]
          /\ system' \in {TRUE, FALSE}
       \/ /\ \E status \in {"skipped", "failed"} :
               pre' = [pre EXCEPT !.pc = "user", !.skipped = TRUE, !.report = Report("system", status)]
          /\ UNCHANGED system

\* post_check_system_segment: what is there counts, not the exit code.
\* Mutant: the exit code counts.
TrustsExit ==
    /\ pre.pc = "check" /\ UNCHANGED <<conn, system, path, rundir>>
    /\ pre' = [pre EXCEPT !.pc = "user", !.report = Report("system", "removed")]

PostChecks ==
    /\ pre.pc = "check" /\ UNCHANGED <<conn, system, path, rundir>>
    /\ pre' = [pre EXCEPT !.pc = "user",
                          !.report = Report("system", IF system THEN "skipped" ELSE "removed")]

-----------------------------------------------------------------------------
(* The user's part. *)

\* Path::exists follows a link, so that one that leads nowhere is not there.
Exists(k) == k \notin {"none", "dangling"}

\* clear_dir_then_remove: no link at the root, no read-only volume, then the
\* tree, links inside it unlinked and not followed.
ClearDirThenRemove(k) ==
    CASE k = "link" -> "skipped"
      [] k = "readonly" -> "skipped"
      [] k = "stuck" -> "failed"
      [] OTHER -> "removed"

\* remove_file_at, tmp_leaf_target: open_target refuses a link and a stranger's.
RemoveLeaf(k) == IF k \in {"link", "foreign", "readonly"} THEN "skipped" ELSE "removed"

\* remove_app_bundle: what cannot be told to be EXV's on a writable volume stays.
RemoveAppBundle(k) ==
    CASE k \in {"readonly", "unsure", "link", "foreign"} -> "skipped"
      [] k = "stuck" -> "failed"
      [] OTHER -> "removed"

Removal(i, k) ==
    IF i = "bundle" THEN (IF k = "none" THEN "absent" ELSE RemoveAppBundle(k))
    ELSE IF ~Exists(k) THEN "absent"
    ELSE IF i \in Trees THEN ClearDirThenRemove(k)
    ELSE RemoveLeaf(k)

Now == Order[pre.at]
Moves(status) ==
    [pre EXCEPT !.pc = IF pre.at = Len(Order) THEN "done" ELSE "user",
                !.at = IF @ = Len(Order) THEN @ ELSE @ + 1,
                !.report = Report(Now, status)]

\* A configuration directory somewhere else is not touched.
SkipsConfig ==
    /\ pre.pc = "user" /\ Now = "config"
    /\ pre' = Moves("skipped")
    /\ UNCHANGED <<conn, system, path, rundir>>

Deletes ==
    /\ pre.pc = "user" /\ Now # "runtime"
    /\ pre' = Moves(Removal(Now, path[Now]))
    /\ path' = IF Removal(Now, path[Now]) = "removed" THEN [path EXCEPT ![Now] = "none"] ELSE path
    /\ UNCHANGED <<conn, system, rundir>>

\* sweep_user_runtime_dirs: a live creator's directory is kept, one with an
\* entry is emptied with rmdir, which a socket refuses.
SweepsRuntime ==
    /\ pre.pc = "user" /\ Now = "runtime"
    /\ rundir' = IF rundir = "dead" THEN "none" ELSE rundir
    /\ pre' = Moves(IF rundir \in {"none", "dead"} THEN "removed" ELSE "skipped")
    /\ UNCHANGED <<conn, system, path>>

\* pre_uninstall_quit, sent by the page after it has shown the report.
Quits ==
    /\ pre.pc = "done" /\ pre' = [pre EXCEPT !.pc = "quit"]
    /\ UNCHANGED <<conn, system, path, rundir>>

Steps == Begins \/ AwaitsIdle \/ Elevates \/ PostChecks \/ SkipsConfig \/ Deletes \/ SweepsRuntime

Next == Steps \/ Stopped \/ Quits

Fairness == WF_vars(Steps)

Spec == Init /\ [][Next]_vars /\ Fairness

-----------------------------------------------------------------------------
(* Properties. *)

Reported(item) == {pre.report[n][2] : n \in {m \in 1 .. Len(pre.report) : pre.report[m][1] = item}}

\* What the report calls removed or absent is not there any more - a link that
\* leads nowhere apart, which Path::exists does not see - and what it keeps
\* is still there.
ReportIsHonest ==
    /\ \A i \in Items :
         /\ Reported(i) \cap {"removed", "absent"} # {} => path[i] \in {"none", "dangling"}
         /\ Reported(i) \cap {"skipped", "failed"} # {} => path[i] # "none" \/ i = "config"
    /\ "removed" \in Reported("system") => ~system
    /\ "removed" \in Reported("runtime") => rundir = "none"

\* Nothing is deleted while the connection is up or may be: a command that
\* could not stop it touches nothing, and a live session's directory stays.
DeletesOnlyStopped ==
    /\ (path' # path \/ system' # system \/ rundir' # rundir) => conn = "idle" /\ ~pre.aborted
    /\ rundir = "live" => rundir' = "live"
=============================================================================
