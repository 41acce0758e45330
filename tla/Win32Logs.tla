------------------------------ MODULE Win32Logs ------------------------------
(***************************************************************************)
(* The log pipeline of the Windows build: the Engine's LogSink (bounded    *)
(* push channels, raw file when nobody takes the event), the Core's log    *)
(* forwarder and its line-numbered aggregate file, and the Logs page that  *)
(* pages through that file with a cursor it keeps across Core restarts.    *)
(*                                                                         *)
(* An Engine event is <<engine, tick>>, a Core event <<0, n>>.  A line of  *)
(* the file is an event or Bad (bytes that do not parse); the last line is *)
(* "open" when a failed or interrupted write left it without its newline.  *)
(***************************************************************************)
EXTENDS LogsPage, FiniteSets, TLC

CONSTANTS
    HistoryCapacity,   \* HISTORY_CAPACITY
    StreamCapacity,    \* STREAM_CAPACITY
    PageLimit,         \* the limit the page asks for
    MaxCore,           \* bound: events the Core appends of itself
    MaxEvent           \* bound: Engine events, cuts, swaps, failed writes, deaths, clears

Bad == <<0, 0>>
Streams == 1 .. MaxEvent + 1

VARIABLES
    snk,    \* the LogSink: process, tick, push list, channels, raw file; ghosts:
            \* events emitted, and events lost with a stream or a raw write
    fwd,    \* the forwarder: its pc and the stream it reads
    file,   \* the aggregate file
    core,   \* the Core: up, and the aggregator's last_seq
    page,   \* the Logs page: cursor, shown entries, the request in flight
    kept,   \* ghost: events the aggregator was handed
    skew,   \* ghost: how the cursor lost its meaning (see Restart, ClearDone)
    count   \* the bounded events so far

vars == <<snk, fwd, file, core, page, kept, skew, count>>

Channel == [buf |-> <<>>, st |-> "none"]

Init ==
    /\ snk = [eng |-> 1, tick |-> 0, emitted |-> {}, push |-> <<>>, raw |-> {}, lost |-> {},
              ch |-> [c \in Streams |-> Channel]]
    /\ fwd = [pc |-> "dial", ch |-> 0]
    /\ file = <<>>
    /\ core = [up |-> TRUE, lastSeq |-> 0]
    /\ page = PageInit
    /\ kept = {}
    /\ skew = {}
    /\ count = [core |-> 0, event |-> 0]

Counted(k) == count' = [count EXCEPT ![k] = @ + 1]

Spend == count.event < MaxEvent /\ Counted("event")

-----------------------------------------------------------------------------
(* The Engine's sink                                                        *)

\* The ring of the last HistoryCapacity events.
History(s) ==
    {t \in 1 .. s.tick : t > s.tick - HistoryCapacity}

Takes(s, c) == s.ch[c].st # "closed" /\ Len(s.ch[c].buf) < StreamCapacity

\* RawLogDumper.dump: `ok` is whether the file could be opened and written.
Dump(s, e, ok) ==
    IF ok THEN [s EXCEPT !.raw = @ \cup {e}] ELSE [s EXCEPT !.lost = @ \cup {e}]

\* emit: tick, ring, try_send to every channel (a closed one is dropped, a
\* full one is kept and misses the event); nobody took it -> raw file.
Emit(s, ok) ==
    LET e == <<s.eng, s.tick + 1>>
        live == {c \in ToSet(s.push) : s.ch[c].st # "closed"}
        taken == {c \in live : Takes(s, c)}
        s2 == [s EXCEPT !.tick = @ + 1,
                        !.emitted = @ \cup {e},
                        !.push = SelectSeq(@, LAMBDA c : c \in live),
                        !.ch = [c \in Streams |->
                                  IF c \in taken
                                  THEN [s.ch[c] EXCEPT !.buf = Append(@, e)]
                                  ELSE s.ch[c]]]
    IN IF taken # {} THEN s2 ELSE Dump(s2, e, ok)

\* open_stream: events of the ring after `resume` first (none when it is 0),
\* as many as fit, then the channel joins the push list.
OpenStream(s, c, resume) ==
    LET later == {t \in History(s) : resume > 0 /\ t > resume}
        fits == {t \in later : Cardinality({u \in later : u <= t}) <= StreamCapacity}
    IN [s EXCEPT !.push = Append(@, c),
                 !.ch[c] = [buf |-> [i \in 1 .. Cardinality(fits) |->
                                        <<s.eng, SetToSortSeq(fits, <)[i]>>],
                            st |-> "open"]]

\* The stream_logs handler: the channel is attached, then its opening logged.
StreamLogs(s, c, resume, ok) == Emit(OpenStream(s, c, resume), ok)

RawOk(ok) == IF ok THEN UNCHANGED count
             ELSE Spend

EngineEmits ==
    /\ Spend
    /\ snk' = Emit(snk, TRUE)
    /\ UNCHANGED <<fwd, file, core, page, kept, skew>>

\* The raw file cannot be written: dump gives up on this line only (the next
\* one opens the file again).
EngineEmitsUnwritten ==
    /\ Spend
    /\ snk' = Emit(snk, FALSE)
    /\ UNCHANGED <<fwd, file, core, page, kept, skew>>

-----------------------------------------------------------------------------
(* The forwarder                                                            *)

Held(c) == ToSet(snk.ch[c].buf)

Abandoned(s, c, st) ==
    [s EXCEPT !.lost = @ \cup ToSet(s.ch[c].buf), !.ch[c] = [buf |-> <<>>, st |-> st]]

\* The first stream not used yet.
NextStream == CHOOSE c \in Streams : /\ snk.ch[c].st = "none"
                                     /\ \A d \in 1 .. c - 1 : snk.ch[d].st # "none"

\* Mutant: every reconnection asks for the whole ring again.
ForwarderResumes ==
    /\ core.up /\ fwd.pc = "dial"
    /\ \E ok \in BOOLEAN :
         /\ RawOk(ok)
         /\ snk' = StreamLogs(snk, NextStream, 1, ok)
    /\ fwd' = [pc |-> "run", ch |-> NextStream]
    /\ UNCHANGED <<file, core, page, kept, skew>>

\* slot.current(), stream_logs(0).
ForwarderDials ==
    /\ core.up /\ fwd.pc = "dial"
    /\ \E ok \in BOOLEAN :
         /\ RawOk(ok)
         /\ snk' = StreamLogs(snk, NextStream, 0, ok)
    /\ fwd' = [pc |-> "run", ch |-> NextStream]
    /\ UNCHANGED <<file, core, page, kept, skew>>

Line(e, o) == [ev |-> e, open |-> o]

\* The bytes of one more line: appended to an open line they do not parse.
Written(f, e, o) ==
    IF f # <<>> /\ Last(f).open THEN Append(Front(f), Line(Bad, o))
    ELSE Append(f, Line(e, o))

\* append: seek to the end, writeln, flush, last_seq + 1.
AppendLine(e) ==
    /\ file' = Written(file, e, FALSE)
    /\ core' = [core EXCEPT !.lastSeq = @ + 1]

\* append fails in writeln: some of the line, or all but its newline, is on
\* disk and last_seq stays.
AppendTears(e) ==
    /\ \E part \in {Bad, e} : file' = Written(file, part, TRUE)
    /\ UNCHANGED core

\* The forwarder takes e, the next event of the stream, for append_engine.
Forwards(e) ==
    /\ kept' = kept \cup {e}
    /\ snk' = [snk EXCEPT !.ch[fwd.ch].buf = Tail(@)]
    /\ UNCHANGED <<fwd, page, skew>>

ForwarderAppends ==
    /\ core.up /\ fwd.pc = "run" /\ snk.ch[fwd.ch].buf # <<>>
    /\ LET e == Head(snk.ch[fwd.ch].buf) IN Forwards(e) /\ AppendLine(e)
    /\ UNCHANGED count

\* A failed append is only logged.
ForwarderAppendFails ==
    /\ core.up /\ fwd.pc = "run" /\ snk.ch[fwd.ch].buf # <<>>
    /\ LET e == Head(snk.ch[fwd.ch].buf) IN Forwards(e) /\ AppendTears(e)
    /\ Spend

\* The transport cuts the stream: what it held is gone, the forwarder sleeps
\* its backoff and dials again.  The Engine learns of it later.
StreamCut ==
    /\ core.up /\ fwd.pc = "run"
    /\ Spend
    /\ snk' = Abandoned(snk, fwd.ch, "abandoned")
    /\ fwd' = [pc |-> "sleep", ch |-> 0]
    /\ UNCHANGED <<file, core, page, kept, skew>>

BackoffEnds ==
    /\ core.up /\ fwd.pc = "sleep"
    /\ fwd' = [fwd EXCEPT !.pc = "dial"]
    /\ UNCHANGED <<snk, file, core, page, kept, skew, count>>

\* The Engine's side of a stream nobody reads is dropped: what it still held
\* is gone, and the next try_send finds it closed.
EngineSeesCut(c) ==
    /\ snk.ch[c].st = "abandoned"
    /\ snk' = Abandoned(snk, c, "closed")
    /\ UNCHANGED <<fwd, file, core, page, kept, skew, count>>

\* The Engine process ends and its successor is swapped into the slot: a new
\* sink (the raw file is per process), and the forwarder dials it at once.
EngineSwapped ==
    /\ Spend
    /\ snk' = [snk EXCEPT !.lost = @ \cup UNION {Held(c) : c \in Streams},
                          !.eng = @ + 1, !.tick = 0, !.push = <<>>,
                          !.ch = [c \in Streams |->
                                    IF snk.ch[c].st = "none" THEN Channel
                                    ELSE [buf |-> <<>>, st |-> "closed"]]]
    /\ fwd' = IF core.up THEN [pc |-> "dial", ch |-> 0] ELSE fwd
    /\ UNCHANGED <<file, core, page, kept, skew>>

-----------------------------------------------------------------------------
(* The Core's own events, its death and its restart                         *)

CoreEvent == <<0, count.core + 1>>

\* append_core.
CoreAppends ==
    /\ core.up /\ count.core < MaxCore
    /\ Counted("core")
    /\ AppendLine(CoreEvent)
    /\ UNCHANGED <<snk, fwd, page, kept, skew>>

\* The Core dies, possibly inside writeln; its requests fail.
CoreDies ==
    /\ core.up
    /\ \/ UNCHANGED file /\ Spend
       \/ /\ count.event < MaxEvent /\ count.core < MaxCore
          /\ \E part \in {Bad, CoreEvent} : file' = Written(file, part, TRUE)
          /\ count' = [count EXCEPT !.event = @ + 1, !.core = @ + 1]
    /\ core' = [core EXCEPT !.up = FALSE]
    /\ fwd' = [pc |-> "off", ch |-> 0]
    /\ snk' = IF fwd.ch = 0 THEN snk ELSE Abandoned(snk, fwd.ch, "abandoned")
    /\ \E lost \in BOOLEAN :
         /\ page' = CallsFail(page, lost)
         /\ skew' = IF Unheard(page, lost) THEN skew \cup {"overtaken"} ELSE skew
    /\ UNCHANGED kept

\* rebuild_cursor: the lines of the file, an open one included.
RebuildCursor(f) == Len(f)

\* The recovered Core opens the file and starts its forwarder.  An open line
\* is counted here although the next append still goes into it.
Restart ==
    /\ ~core.up
    /\ core' = [up |-> TRUE, lastSeq |-> RebuildCursor(file)]
    /\ fwd' = [pc |-> "dial", ch |-> 0]
    /\ skew' = IF file # <<>> /\ Last(file).open THEN skew \cup {"recount"} ELSE skew
    /\ UNCHANGED <<snk, file, page, kept, count>>

-----------------------------------------------------------------------------
(* The Logs page and the handlers it calls                                  *)

\* list: the readable lines after `after`, at most `limit`; next_seq follows
\* the last one returned, or last_seq when there is none.
List(after, limit) ==
    LET good == SelectSeq([i \in 1 .. Len(file) |-> i],
                          LAMBDA i : i > after /\ file[i].ev # Bad)
        seqs == SubSeq(good, 1, IF limit < Len(good) THEN limit ELSE Len(good))
    IN [entries |-> [k \in 1 .. Len(seqs) |-> file[seqs[k]].ev],
        next |-> IF seqs = <<>> THEN core.lastSeq + 1 ELSE Last(seqs) + 1]

LoadBegins ==
    /\ MayLoad(page)
    /\ page' = LoadBegun(page, core.up)
    /\ UNCHANGED <<snk, fwd, file, core, kept, skew, count>>

\* The logs_list handler.
PageServed ==
    /\ core.up /\ page.load = "sent"
    /\ page' = [page EXCEPT !.load = "answered", !.reply = List(page.after, PageLimit)]
    /\ UNCHANGED <<snk, fwd, file, core, kept, skew, count>>

PageReceived ==
    /\ page.load = "answered"
    /\ page' = PageTaken(page, core.up, PageLimit)
    /\ UNCHANGED <<snk, fwd, file, core, kept, skew, count>>

LoadFails ==
    /\ page.load = "failed"
    /\ page' = LoadFailed(page)
    /\ UNCHANGED <<snk, fwd, file, core, kept, skew, count>>

ClearBegins ==
    /\ page.clear = "no"
    /\ Spend
    /\ page' = ClearBegun(page, core.up)
    /\ UNCHANGED <<snk, fwd, file, core, kept, skew>>

\* The logs_clear handler: set_len(0), last_seq 0.
ClearServed ==
    /\ core.up /\ page.clear = "sent"
    /\ file' = <<>>
    /\ core' = [core EXCEPT !.lastSeq = 0]
    /\ page' = [page EXCEPT !.clear = "answered"]
    /\ UNCHANGED <<snk, fwd, kept, skew, count>>

\* A load still in flight will put its own cursor back.
ClearDone ==
    /\ page.clear = "answered"
    /\ page' = ClearTaken(page)
    /\ skew' = IF page.load = "no" THEN skew ELSE skew \cup {"overtaken"}
    /\ UNCHANGED <<snk, fwd, file, core, kept, count>>

ClearFails ==
    /\ page.clear = "failed"
    /\ page' = ClearFailed(page)
    /\ UNCHANGED <<snk, fwd, file, core, kept, skew, count>>

-----------------------------------------------------------------------------
ForwarderSteps == ForwarderDials \/ ForwarderAppends \/ BackoffEnds

PageSteps == LoadBegins \/ PageReceived \/ LoadFails \/ ClearDone \/ ClearFails

Serves == PageServed \/ ClearServed

Next ==
    \/ EngineEmits \/ EngineEmitsUnwritten \/ EngineSwapped
    \/ ForwarderSteps \/ ForwarderAppendFails \/ StreamCut
    \/ \E c \in Streams : EngineSeesCut(c)
    \/ CoreAppends \/ CoreDies \/ Restart
    \/ PageSteps \/ Serves \/ ClearBegins

\* The forwarder task and the runtime that serves the handlers run, the page
\* polls every second and takes its replies, a dead Core is recovered.
Spec == /\ Init /\ [][Next]_vars
        /\ WF_vars(ForwarderSteps) /\ WF_vars(PageSteps)
        /\ WF_vars(PageServed) /\ WF_vars(ClearServed) /\ WF_vars(Restart)

-----------------------------------------------------------------------------
Readable(f) == {i \in 1 .. Len(f) : f[i].ev # Bad}

(* Engine events reach the aggregate file in the order the Engine emitted
   them and at most once, whatever streams were cut, engines swapped and
   Cores restarted: every stream starts at the current position (resume_tick
   0) and an abandoned stream is never read again.                          *)
Before(a, b) == a[1] < b[1] \/ (a[1] = b[1] /\ a[2] < b[2])

InEmissionOrder ==
    \A i, k \in Readable(file) :
        (i < k /\ file[i].ev[1] # 0 /\ file[k].ev[1] # 0) => Before(file[i].ev, file[k].ev)

(* An Engine event is on its way to the Core, was handed to the aggregator,
   is in the raw file, or was in a stream that was lost: emit never drops
   an event because a channel is full or closed (unless the raw write
   itself failed).                                                          *)
InFlight == UNION {Held(c) : c \in Streams}

Accounted ==
    snk.emitted \subseteq InFlight \cup kept \cup snk.raw \cup snk.lost

(* The Logs page shows every readable line its cursor has passed: paging
   with a cursor that skips bad lines loses nothing, through torn appends,
   Core restarts and clears.  Two cases are excepted (skew): a restart that
   counted a torn line, and a clear that overtook a load in flight or whose
   reply was lost.                                                                 *)
NothingSkipped ==
    (skew = {} /\ page.clear = "no" /\ page.load = "no") =>
        \A i \in Readable(file) : i <= page.cur => file[i].ev \in ToSet(page.shown)

(* The last line's number is the aggregator's last_seq, an open line being
   not yet counted: last_seq and the line numbers `list` derives agree.     *)
SeqIsLineNumber ==
    (core.up /\ skew = {}) =>
        core.lastSeq = Cardinality({i \in 1 .. Len(file) : ~file[i].open})

\* Everything readable is on the page.
Shown == \A i \in Readable(file) : file[i].ev \in ToSet(page.shown)
=============================================================================
