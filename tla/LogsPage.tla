------------------------------ MODULE LogsPage -------------------------------
(***************************************************************************)
(* The Logs page of the desktop window: a polling load that follows        *)
(* next_after_seq while pages come back full, a cursor kept while the page *)
(* lives, and a clear that forgets both.  `p` is the page's state; `up` is *)
(* whether a Core can be called.                                           *)
(***************************************************************************)
EXTENDS Integers, Sequences, SequencesExt

NoReply == [entries |-> <<>>, next |-> 0]

PageInit == [cur |-> 0, once |-> FALSE, after |-> 0, shown |-> <<>>, got |-> <<>>,
             load |-> "no", reply |-> NoReply, clear |-> "no"]

Sent(up) == IF up THEN "sent" ELSE "failed"

MayLoad(p) == p.load = "no" /\ p.clear = "no"

\* loadHistory: the first load starts at 0, later ones at the cursor.
LoadBegun(p, up) ==
    [p EXCEPT !.load = Sent(up), !.after = IF p.once THEN p.cur ELSE 0, !.got = <<>>]

\* appendUnique.
AppendUnique(shown, new) == shown \o SelectSeq(new, LAMBDA e : e \notin ToSet(shown))

\* The shell's logs_list: next_after_seq never moves back.
NextAfter(reply, after) == IF reply.next - 1 > after THEN reply.next - 1 ELSE after

\* Another request while a full page moved the cursor, otherwise the entries
\* are shown and the cursor advances.
PageTaken(p, up, limit) ==
    LET next == NextAfter(p.reply, p.after)
        got == p.got \o p.reply.entries
        more == Len(p.reply.entries) >= limit /\ next # p.after
    IN IF more
       THEN [p EXCEPT !.load = Sent(up), !.after = next, !.got = got, !.reply = NoReply]
       ELSE [p EXCEPT !.load = "no", !.once = TRUE, !.got = <<>>, !.reply = NoReply,
                      !.after = 0, !.shown = AppendUnique(@, got),
                      !.cur = IF next > @ THEN next ELSE @]

\* Mutant: a failed load leaves `loading` set.
LoadFailedSticks(p) == [p EXCEPT !.got = <<>>]

\* The load failed: nothing of it is kept.
LoadFailed(p) == [p EXCEPT !.load = "no", !.got = <<>>, !.after = 0]

\* clearLogs only looks at `clearing`: a load may be in flight.
ClearBegun(p, up) == [p EXCEPT !.clear = Sent(up)]

\* logs_clear succeeded: the page forgets its entries and its cursor.
ClearTaken(p) == [p EXCEPT !.clear = "no", !.shown = <<>>, !.cur = 0, !.once = FALSE]

\* logs_clear failed: entries and cursor stay.
ClearFailed(p) == [p EXCEPT !.clear = "no"]

\* The Core died: its answers will not come, and one on its way may be lost.
CallsFail(p, lost) ==
    LET Fails(c) == IF c = "sent" \/ (lost /\ c = "answered") THEN "failed" ELSE c
    IN [p EXCEPT !.load = Fails(@), !.clear = Fails(@)]

\* A clear was served and the page will not hear of it.
Unheard(p, lost) == lost /\ p.clear = "answered"
=============================================================================
