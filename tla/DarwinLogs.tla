------------------------------ MODULE DarwinLogs -----------------------------
(***************************************************************************)
(* The log pipeline of the macOS build: the Engine's sink with one sender, *)
(* one ingest task per tunnel connection, the Core's aggregator (a bounded *)
(* ring in memory that answers, a JSONL file that carries the sequence     *)
(* number in every line and is rewritten every COMPACTION_INTERVAL         *)
(* entries) and the Logs page reading it.                                  *)
(*                                                                         *)
(* An entry is [seq, ev].  A line of the file is an entry or Bad; the last *)
(* one is open when a write ended before its newline.                      *)
(***************************************************************************)
EXTENDS LogsPage, FiniteSets, TLC

CONSTANTS
    MaxEntries,         \* MAX_ENTRIES
    CompactionInterval, \* COMPACTION_INTERVAL
    ChannelCapacity,    \* SINK_CHANNEL_CAPACITY
    PageLimit,          \* the limit the page asks for
    MaxEmit,            \* bound: events of Engine and Core together
    MaxStream,          \* bound: log streams opened
    MaxFault            \* bound: failed writes, deaths and clears

Streams == 1 .. MaxStream
Bad == [seq |-> 0, ev |-> 0]

VARIABLES
    push,    \* the stream the sink's sender feeds, 0 for none
    ch,      \* per stream: its buffer, and whether its ingest task runs
    ram,     \* the ring of entries
    file,    \* the lines on disk
    agg,     \* up, last_seq, persisted (file handle kept)
    page,    \* the Logs page
    rd,      \* a logs_list between its two locks: the entries it read
    from,    \* ghost: the first sequence number the page can be expected to
             \* show: where its initial tail began, later what was not evicted
    skew,    \* ghost: how a cursor lost its meaning
    count    \* the bounded events so far

vars == <<push, ch, ram, file, agg, page, rd, from, skew, count>>

Idle == [on |-> FALSE, entries |-> <<>>]

Init ==
    /\ push = 0
    /\ ch = [s \in Streams |-> [buf |-> <<>>, st |-> "none"]]
    /\ ram = <<>> /\ file = <<>>
    /\ agg = [up |-> TRUE, lastSeq |-> 0, persisted |-> TRUE]
    /\ page = PageInit
    /\ rd = Idle
    /\ from = 0
    /\ skew = {}
    /\ count = [emit |-> 0, fault |-> 0]

Fault == /\ count.fault < MaxFault
         /\ count' = [count EXCEPT !.fault = @ + 1]

Emits == /\ count.emit < MaxEmit
         /\ count' = [count EXCEPT !.emit = @ + 1]

Event == count.emit + 1

-----------------------------------------------------------------------------
(* The Engine's sink and the ingest tasks                                   *)

\* open_stream of a new connection: its sender replaces the previous one, and
\* the ingest task of the previous stream runs on until that stream ends.
StreamOpens(s) ==
    /\ agg.up /\ ch[s].st = "none"
    /\ \A r \in 1 .. s - 1 : ch[r].st # "none"
    /\ push' = s
    /\ ch' = [ch EXCEPT ![s] = [buf |-> <<>>, st |-> "open"]]
    /\ UNCHANGED <<ram, file, agg, page, rd, from, skew, count>>

\* publish: try_send to the current sender; no sender, a full channel or a
\* closed one drop the event.
Publish ==
    /\ Emits
    /\ LET taken == push # 0 /\ ch[push].st = "open"
                    /\ Len(ch[push].buf) < ChannelCapacity
       IN ch' = IF taken THEN [ch EXCEPT ![push].buf = Append(@, Event)] ELSE ch
    /\ UNCHANGED <<push, ram, file, agg, page, rd, from, skew>>

\* A stream ends (its sender was replaced, or the connection was lost).
StreamEnds(s) ==
    /\ ch[s].st = "open"
    /\ \/ push # s /\ ch[s].buf = <<>> /\ UNCHANGED count
       \/ Fault
    /\ ch' = [ch EXCEPT ![s] = [buf |-> <<>>, st |-> "closed"]]
    /\ UNCHANGED <<push, ram, file, agg, page, rd, from, skew>>

-----------------------------------------------------------------------------
(* The aggregator                                                           *)

Line(e, o) == [e |-> e, open |-> o]

Written(f, e, o) ==
    IF f # <<>> /\ Last(f).open THEN Append(Front(f), Line(Bad, o))
    ELSE Append(f, Line(e, o))

\* The ring drops its oldest entry beyond MaxEntries.
Pushed(r, e) == IF Len(r) = MaxEntries THEN Append(Tail(r), e) ELSE Append(r, e)

Covers(r) == IF Len(ram) = MaxEntries /\ r[1].seq > from THEN r[1].seq ELSE from

Lines(r) == [i \in 1 .. Len(r) |-> Line(r[i], FALSE)]

\* compact: set_len(0) and the ring written anew.
Compact(f, r) == Lines(r)

Compacts(seq) == seq % CompactionInterval = 0

\* append: number the entry, ring, write_entry, compact when it is due.
Appended(ev) ==
    LET e == [seq |-> agg.lastSeq + 1, ev |-> ev]
        r == Pushed(ram, e)
        f == Written(file, e, FALSE)
    IN /\ ram' = r
       /\ from' = Covers(r)
       /\ agg' = [agg EXCEPT !.lastSeq = @ + 1]
       /\ file' = IF ~agg.persisted THEN file
                  ELSE IF Compacts(e.seq) THEN Compact(f, r) ELSE f

\* write_entry fails on the way: the handle is dropped, and everything from
\* here on lives in memory only.
AppendedUnwritten(ev) ==
    LET e == [seq |-> agg.lastSeq + 1, ev |-> ev]
    IN /\ agg.persisted
       /\ ram' = Pushed(ram, e)
       /\ from' = Covers(Pushed(ram, e))
       /\ agg' = [agg EXCEPT !.lastSeq = @ + 1, !.persisted = FALSE]
       /\ \/ UNCHANGED file
          \/ \E part \in {Bad, e} : file' = Written(file, part, TRUE)

\* append_core.
CoreAppends ==
    /\ agg.up /\ Emits
    /\ Appended(Event)
    /\ UNCHANGED <<push, ch, page, rd, skew>>

Ingested(s) ==
    /\ agg.up /\ ch[s].st = "open" /\ ch[s].buf # <<>>
    /\ ch' = [ch EXCEPT ![s].buf = Tail(@)]
    /\ UNCHANGED <<push, page, rd, skew>>

\* The ingest task of one stream: append_engine.
Ingests(s) == Ingested(s) /\ Appended(Head(ch[s].buf)) /\ UNCHANGED count

IngestsUnwritten(s) == Ingested(s) /\ AppendedUnwritten(Head(ch[s].buf)) /\ Fault

\* What a death can leave of an append: nothing, part of its line, or - when
\* the append compacts - part of the rewritten file.
Interrupted ==
    \/ UNCHANGED file
    \/ LET e == [seq |-> agg.lastSeq + 1, ev |-> MaxEmit + 1]
           r == Pushed(ram, e)
       IN /\ agg.persisted
          /\ \/ \E part \in {Bad, e} : file' = Written(file, part, TRUE)
             \/ /\ Compacts(e.seq)
                /\ \E n \in 0 .. Len(r) : file' = SubSeq(Lines(r), 1, n)

\* The Core dies: ring, ingest tasks and calls in progress are gone.
CoreDies ==
    /\ agg.up /\ Fault
    /\ Interrupted
    /\ agg' = [agg EXCEPT !.up = FALSE]
    /\ ram' = <<>>
    /\ rd' = Idle
    /\ ch' = [s \in Streams |-> IF ch[s].st = "none" THEN ch[s]
                                ELSE [buf |-> <<>>, st |-> "closed"]]
    /\ \E lost \in BOOLEAN :
         /\ page' = CallsFail(page, lost)
         /\ skew' = IF Unheard(page, lost) THEN skew \cup {"overtaken"} ELSE skew
    /\ UNCHANGED <<push, from>>

Parsed(f) == SelectSeq([i \in 1 .. Len(f) |-> f[i].e], LAMBDA e : e # Bad)

Highest(s) == IF s = <<>> THEN 0
              ELSE CHOOSE n \in {s[i].seq : i \in 1 .. Len(s)} :
                     \A i \in 1 .. Len(s) : s[i].seq <= n

\* replay_from_disk: the readable lines, the newest MaxEntries of them, and
\* the highest sequence number among them.
Replay(f) ==
    LET es == Parsed(f)
        n == Len(es)
    IN [ram |-> SubSeq(es, IF n > MaxEntries THEN n - MaxEntries + 1 ELSE 1, n),
        last |-> Highest(es)]

\* open: the handle, then the replay.  What memory held alone is gone.
Restart ==
    /\ ~agg.up
    /\ LET back == Replay(file)
       IN /\ ram' = back.ram
          /\ agg' = [up |-> TRUE, lastSeq |-> back.last, persisted |-> TRUE]
          /\ skew' = IF ~agg.persisted THEN skew \cup {"degraded"}
                     ELSE IF back.last < agg.lastSeq THEN skew \cup {"regressed"}
                     ELSE skew
    /\ UNCHANGED <<push, ch, file, page, rd, from, count>>

-----------------------------------------------------------------------------
(* logs_list, logs_clear and the page                                       *)

After(n) == SelectSeq(ram, LAMBDA e : e.seq > n)

FirstOf(s, limit) == SubSeq(s, 1, IF Len(s) < limit THEN Len(s) ELSE limit)

TailOf(s, limit) == SubSeq(s, IF Len(s) > limit THEN Len(s) - limit + 1 ELSE 1, Len(s))

\* The page after the cursor's entries `es`; an empty page ends at `last`.
Reply(es, last) ==
    [entries |-> es, next |-> IF es = <<>> THEN last + 1 ELSE Last(es).seq + 1]

\* An incremental page: one lock.
PageServed ==
    /\ agg.up /\ page.load = "sent" /\ page.after > 0
    /\ page' = [page EXCEPT !.load = "answered",
                            !.reply = Reply(FirstOf(After(page.after), PageLimit), agg.lastSeq)]
    /\ UNCHANGED <<push, ch, ram, file, agg, rd, from, skew, count>>

\* The initial page: the tail of what there is ...
TailRead ==
    /\ agg.up /\ page.load = "sent" /\ page.after = 0 /\ ~rd.on
    /\ rd' = [on |-> TRUE, entries |-> TailOf(After(0), PageLimit)]
    /\ UNCHANGED <<push, ch, ram, file, agg, page, from, skew, count>>

\* ... and, when it was empty, last_seq under a second lock: entries that
\* came between the two are passed over.
TailServed ==
    /\ agg.up /\ page.load = "sent" /\ rd.on
    /\ page' = [page EXCEPT !.load = "answered", !.reply = Reply(rd.entries, agg.lastSeq)]
    /\ rd' = Idle
    /\ from' = IF rd.entries = <<>> THEN 1
               ELSE IF from > rd.entries[1].seq THEN from ELSE rd.entries[1].seq
    /\ skew' = IF rd.entries = <<>> /\ agg.lastSeq > 0
               THEN skew \cup {"passed"} ELSE skew
    /\ UNCHANGED <<push, ch, ram, file, agg, count>>

LoadBegins ==
    /\ MayLoad(page)
    /\ page' = LoadBegun(page, agg.up)
    /\ UNCHANGED <<push, ch, ram, file, agg, rd, from, skew, count>>

PageReceived ==
    /\ page.load = "answered"
    /\ page' = PageTaken(page, agg.up, PageLimit)
    /\ UNCHANGED <<push, ch, ram, file, agg, rd, from, skew, count>>

LoadFails ==
    /\ page.load = "failed"
    /\ page' = LoadFailed(page)
    /\ UNCHANGED <<push, ch, ram, file, agg, rd, from, skew, count>>

ClearBegins ==
    /\ page.clear = "no" /\ Fault
    /\ page' = ClearBegun(page, agg.up)
    /\ UNCHANGED <<push, ch, ram, file, agg, rd, from, skew>>

\* clear: truncate, empty the ring, last_seq 0.
ClearServed ==
    /\ agg.up /\ page.clear = "sent"
    /\ file' = IF agg.persisted THEN <<>> ELSE file
    /\ ram' = <<>>
    /\ agg' = [agg EXCEPT !.lastSeq = 0]
    /\ from' = 0
    /\ page' = [page EXCEPT !.clear = "answered"]
    /\ UNCHANGED <<push, ch, rd, skew, count>>

\* The truncation fails: the handle is dropped, ring and counter stay, and
\* the handler answers an error.
ClearServedNot ==
    /\ agg.up /\ agg.persisted /\ page.clear = "sent" /\ Fault
    /\ agg' = [agg EXCEPT !.persisted = FALSE]
    /\ page' = [page EXCEPT !.clear = "failed"]
    /\ UNCHANGED <<push, ch, ram, file, rd, from, skew>>

ClearDone ==
    /\ page.clear = "answered"
    /\ page' = ClearTaken(page)
    /\ skew' = IF page.load = "no" THEN skew ELSE skew \cup {"overtaken"}
    /\ UNCHANGED <<push, ch, ram, file, agg, rd, from, count>>

ClearFails ==
    /\ page.clear = "failed"
    /\ page' = ClearFailed(page)
    /\ UNCHANGED <<push, ch, ram, file, agg, rd, from, skew, count>>

-----------------------------------------------------------------------------
PageSteps == LoadBegins \/ PageReceived \/ LoadFails \/ ClearDone \/ ClearFails

Serves == PageServed \/ TailRead \/ TailServed

Next ==
    \/ Publish \/ CoreAppends
    \/ \E s \in Streams : StreamOpens(s) \/ StreamEnds(s) \/ Ingests(s) \/ IngestsUnwritten(s)
    \/ CoreDies \/ Restart
    \/ PageSteps \/ Serves
    \/ ClearBegins \/ ClearServed \/ ClearServedNot

\* The ingest tasks and the handlers run, the page polls and takes its
\* replies, a dead Core is recovered.
Spec == /\ Init /\ [][Next]_vars
        /\ \A s \in Streams : WF_vars(Ingests(s))
        /\ WF_vars(PageSteps) /\ WF_vars(Serves) /\ WF_vars(ClearServed) /\ WF_vars(Restart)

-----------------------------------------------------------------------------
Seqs(s) == {s[i].seq : i \in 1 .. Len(s)}

(* The Logs page shows every entry the ring still holds between the start of
   its initial tail and its cursor: eviction and compaction never make the
   incremental cursor skip one.  Excepted (skew) are a restart that
   comes back with a lower last_seq (memory-only entries, a death inside
   compact, a torn line joined), a clear overtaking a load or not heard of,
   and an initial page that was empty between its two locks.               *)
NothingSkipped ==
    (skew = {} /\ MayLoad(page)) =>
        \A i \in 1 .. Len(ram) :
            ram[i].seq \in from .. page.cur => ram[i] \in ToSet(page.shown)

(* Sequence numbers rise in the ring and none is above last_seq, also after
   a replay of a file with torn lines.                                      *)
RingIsNumbered ==
    /\ \A i \in 1 .. Len(ram) - 1 : ram[i].seq < ram[i + 1].seq
    /\ agg.up => \A n \in Seqs(ram) : n <= agg.lastSeq

\* Everything the page can be expected to show is on it.
Shown == \A i \in 1 .. Len(ram) : ram[i].seq >= from => ram[i] \in ToSet(page.shown)
=============================================================================
