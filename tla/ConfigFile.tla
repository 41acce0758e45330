----------------------------- MODULE ConfigFile -----------------------------
(***************************************************************************)
(* The user's configuration as a value: config.json and key.bin of the     *)
(* Windows configuration crate.  An account stands for its name and for    *)
(* its password; opt is any other setting; extra are fields this version   *)
(* does not know.                                                          *)
(***************************************************************************)
EXTENDS Naturals

\* A stored password is bound to the account it was typed for and to the key
\* that sealed it; nobody's is the empty field.
NoPassword == [of |-> "nobody", key |-> 0]
Default == [user |-> "nobody", pw |-> NoPassword, remember |-> FALSE, opt |-> 0,
            extra |-> FALSE]

\* config.json: absent, not a configuration, or one.
Missing == [kind |-> "missing", cfg |-> Default]
Bad == [kind |-> "bad", cfg |-> Default]
Written(c) == [kind |-> "ok", cfg |-> c]

\* load_from_dir: an absent or unreadable file is the default; unknown fields
\* are dropped.
LoadFromDir(f) == IF f.kind = "ok" THEN [f.cfg EXCEPT !.extra = FALSE] ELSE Default

\* save_to_dir writes the known fields.
SaveToDir(c) == Written([c EXCEPT !.extra = FALSE])

\* load_for_startup: what is absent or bad becomes the default, a valid file
\* is written back with its unknown fields.
BootstrapDefault == SaveToDir(Default)
HydrateKnownFields(f) == Written(f.cfg)
LoadForStartup(f) == IF f.kind = "ok" THEN HydrateKnownFields(f) ELSE BootstrapDefault

\* key.bin: absent, shorter than a key, or key number n.
NoKey == 0
ShortKey == 99
LoadKey(k) == k \notin {NoKey, ShortKey}

EncryptPassword(user, key) == [of |-> user, key |-> key]
\* decrypt_password: the tag only verifies under the key that sealed it.
DecryptPassword(pw, key) == IF pw.key = key THEN pw.of ELSE "nobody"

SetPasswordEncrypted(c, user, key) ==
  [c EXCEPT !.pw = EncryptPassword(user, key), !.remember = TRUE]
=============================================================================
