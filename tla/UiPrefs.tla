-------------------------------- MODULE UiPrefs --------------------------------
(***************************************************************************)
(* The shell's own settings: the preference file with its Tauri commands   *)
(* (tauri app ui_prefs.rs), the login item it stands for (autostart.rs:    *)
(* the Run value on Windows, a LaunchAgent on macOS) and the page that     *)
(* edits both (frontend ui-prefs.ts): accepted values, a draft of unsaved  *)
(* edits and a queue that saves one request at a time.                     *)
(*                                                                         *)
(* Two settings stand for all: launch_at_login, which also has the login   *)
(* item, and close_preference, which Windows once kept in another file.    *)
(* "on" is the value that is not the default.                              *)
(***************************************************************************)
EXTENDS Naturals, Sequences

CONSTANTS MaxEdit,        \* edits by the user
          MaxFault,       \* failing registry, file or launchd operations
          ReadsFail       \* whether reading the file or the login item may fail

VARIABLES os,      \* the platform
          file,    \* ui-preferences.json: whether it is there, its keys' values
          legacy,  \* close-preference.json of the older shell holds a choice
          item,    \* the login item: "off", "on", or another program's
          page,    \* the page: accepted values, draft, keys being saved
          queue,   \* saves waiting for their turn
          save,    \* the save running
          want,    \* ghost: the user's last choice of each setting
          left     \* edits and faults left

vars == <<os, file, legacy, item, page, queue, save, want, left>>

Keys == {"login", "close"}
Values == {"on", "off"}
NoPatch == [k \in Keys |-> "none"]
Defaults == [k \in Keys |-> "off"]
Idle == [pc |-> "idle", patch |-> NoPatch, previous |-> Defaults, changed |-> FALSE]

\* What is not there reads as an empty object.
LoadRawObject == IF file.there THEN file.map ELSE NoPatch

\* Merged over: a patch's own keys replace, the others stay.
Merged(map, patch) == [k \in Keys |-> IF patch[k] # "none" THEN patch[k] ELSE map[k]]

\* The effective view: a key that is not set has its default.
Effective(map) == Merged(Defaults, map)

\* The older shell's choice is taken over while the new file does not exist.
ImportLegacyClosePreference ==
  IF ~file.there /\ os = "win32" /\ legacy
  THEN [LoadRawObject EXCEPT !["close"] = "on"] ELSE LoadRawObject

\* The shell reads its settings at startup, before the page can save any.
LoadEffective ==
  /\ file' = IF ImportLegacyClosePreference = LoadRawObject THEN file
             ELSE [there |-> TRUE, map |-> ImportLegacyClosePreference]
  /\ page' = [loaded |-> TRUE, state |-> Effective(ImportLegacyClosePreference),
              draft |-> NoPatch, pending |-> {}]
  /\ want' = Effective(ImportLegacyClosePreference)

Init ==
  /\ os \in {"win32", "darwin"}
  /\ file = [there |-> FALSE, map |-> NoPatch]
  /\ legacy \in BOOLEAN
  /\ item \in (IF os = "win32" THEN {"off"} ELSE {"off", "foreign"})
  /\ page = [loaded |-> FALSE, state |-> Defaults, draft |-> NoPatch, pending |-> {}]
  /\ queue = <<>>
  /\ save = Idle
  /\ want = Defaults
  /\ left = [edits |-> MaxEdit, faults |-> MaxFault]

Fault == left.faults > 0 /\ left' = [left EXCEPT !.faults = @ - 1]

-----------------------------------------------------------------------------
(* The page.                                                               *)

\* What the controls show: the draft over the accepted values.
Shown == Merged(page.state, page.draft)

\* An edit; going back to the accepted value is no longer a change, unless
\* the key is being saved.
EditUiPreference(k, v) ==
  /\ page.loaded
  /\ left.edits > 0
  /\ v # Shown[k]
  /\ page' = [page EXCEPT !.draft[k] =
                IF v = page.state[k] /\ k \notin page.pending THEN "none" ELSE v]
  /\ want' = [want EXCEPT ![k] = v]
  /\ left' = [left EXCEPT !.edits = @ - 1]
  /\ UNCHANGED <<os, file, legacy, item, queue, save>>

\* The keys a request saves, with the values they have now.
Taken(keys) ==
  [k \in Keys |-> IF k \in keys /\ k \notin page.pending THEN page.draft[k] ELSE "none"]

\* A request puts its patch in the queue; one whose keys are all being saved
\* waits for the queue and asks again.
UpdateUiPreferences(keys, waiting) ==
  LET patch == Taken(keys)
      again == \E k \in keys : k \in page.pending /\ page.draft[k] # "none"
  IN /\ \/ /\ patch # NoPatch
           /\ queue' = Append(waiting, [patch |-> patch, again |-> {}])
           /\ page' = [page EXCEPT !.pending = @ \cup {k \in Keys : patch[k] # "none"}]
        \/ /\ patch = NoPatch
           /\ queue' = IF again THEN Append(waiting, [patch |-> NoPatch, again |-> keys]) ELSE waiting
           /\ UNCHANGED page
     /\ UNCHANGED <<os, file, legacy, item, save, want, left>>

\* The user saves all settings, or a dialog saves one.
RequestSave(keys) ==
  /\ Len(queue) < 2
  /\ page.draft # NoPatch
  /\ UpdateUiPreferences(keys, queue)

AsksAgain ==
  /\ save.pc = "idle"
  /\ queue # <<>>
  /\ Head(queue).again # {}
  /\ UpdateUiPreferences(Head(queue).again, Tail(queue))

\* The next save runs.  The login item comes first, when it changes.
SaveRuns ==
  /\ save.pc = "idle"
  /\ queue # <<>>
  /\ Head(queue).again = {}
  /\ LET patch == Head(queue).patch
     IN save' = [pc |-> IF patch["login"] \notin {"none", page.state["login"]}
                        THEN "item" ELSE "set",
                 patch |-> patch, previous |-> page.state, changed |-> FALSE]
  /\ queue' = Tail(queue)
  /\ UNCHANGED <<os, file, legacy, item, page, want, left>>

-----------------------------------------------------------------------------
(* The login item.                                                         *)

\* Writing or deleting the Run value, or an error before it changes.
SetRunValue(v) == item' = v /\ UNCHANGED left

\* The plist is renamed into place, or removed.
SetPlist(v) == item' = v /\ UNCHANGED left

SetAutostart(v) == IF os = "win32" THEN SetRunValue(v) ELSE SetPlist(v)

\* autostart_set: the item is set and read back.  An error, or a read-back
\* that fails after the item was set, is a refusal to the page.
SaveSetsItem ==
  /\ save.pc = "item"
  /\ \/ SetAutostart(save.patch["login"]) /\ save' = [save EXCEPT !.pc = "set", !.changed = TRUE]
     \/ Fault /\ item' = item /\ save' = [save EXCEPT !.pc = "fail"]
     \/ ReadsFail /\ Fault /\ item' = save.patch["login"] /\ save' = [save EXCEPT !.pc = "fail"]
  /\ UNCHANGED <<os, file, legacy, page, queue, want>>

-----------------------------------------------------------------------------
(* The preference file.                                                    *)

\* The temporary file is renamed over the old one.
StoreAtomic(map) == file' = [there |-> TRUE, map |-> map]

\* ui_prefs_set, under the store's lock: read, merge, store; or an error
\* before the file is replaced.  A file that cannot be read is an empty one.
ApplyPatchAndStore ==
  /\ save.pc = "set"
  /\ \/ /\ StoreAtomic(Merged(LoadRawObject, save.patch))
        /\ save' = [save EXCEPT !.pc = "accept"]
        /\ UNCHANGED left
     \/ /\ ReadsFail
        /\ Fault
        /\ StoreAtomic(save.patch)
        /\ save' = [save EXCEPT !.pc = "accept"]
     \/ /\ Fault
        /\ save' = [save EXCEPT !.pc = "fail"]
        /\ UNCHANGED file
  /\ UNCHANGED <<os, legacy, item, page, queue, want>>

-----------------------------------------------------------------------------
(* The page again.                                                         *)

Saved == {k \in Keys : save.patch[k] # "none"}

\* The draft after a save: gone where it is what was saved, and otherwise the
\* user's newest choice, also one that went back to the old value meanwhile.
Remaining ==
  [k \in Keys |->
     IF k \notin Saved THEN page.draft[k]
     ELSE IF Shown[k] = save.patch[k] THEN "none" ELSE Shown[k]]

SaveAccepted ==
  /\ save.pc = "accept"
  /\ page' = [page EXCEPT !.state = Merged(page.state, save.patch), !.draft = Remaining,
                      !.pending = page.pending \ Saved]
  /\ save' = Idle
  /\ UNCHANGED <<os, file, legacy, item, queue, want, left>>

\* A failed save puts a changed login item back, which may fail too, and
\* keeps the draft.
SaveFailed ==
  /\ save.pc = "fail"
  /\ \/ save.changed /\ SetAutostart(save.previous["login"])
     \/ save.changed /\ Fault /\ item' = item
     \/ ~save.changed /\ UNCHANGED <<item, left>>
  /\ page' = [page EXCEPT !.pending = @ \ Saved]
  /\ save' = Idle
  /\ UNCHANGED <<os, file, legacy, queue, want>>

\* The shell starts, or is closed between saves and started again.
Starts ==
  /\ save.pc = "idle"
  /\ queue = <<>>
  /\ page.loaded => left.edits > 0
  /\ LoadEffective
  /\ left' = IF page.loaded THEN [left EXCEPT !.edits = @ - 1] ELSE left
  /\ UNCHANGED <<os, legacy, item, queue, save>>

Next ==
  \/ \E k \in Keys, v \in Values : EditUiPreference(k, v)
  \/ \E keys \in {Keys, {"login"}} : RequestSave(keys)
  \/ AsksAgain
  \/ SaveRuns
  \/ SaveSetsItem
  \/ ApplyPatchAndStore
  \/ SaveAccepted
  \/ SaveFailed
  \/ Starts

-----------------------------------------------------------------------------

\* A page shows the user's last choice of every setting, whatever was saved,
\* refused or edited again while a save was under way: no edit is lost.
EditsKept == Shown = want

\* With no save under way the accepted values are those of the file, and the
\* login item is the one the file records, after any one operation failed.
PrefsAreReal ==
  page.loaded /\ save.pc = "idle" =>
    /\ page.state = Effective(LoadRawObject)
    /\ (item = "on") = (Effective(LoadRawObject)["login"] = "on")
================================================================================
