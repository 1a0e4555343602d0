---------------------------- MODULE Http1Events -----------------------------
(* The HTTP/1.1 bridge: llhttp runs over one piece of the connection after   *)
(* another and calls back for every span of bytes and every landmark; the    *)
(* bridge turns the cursor into an absolute offset, merges spans that touch, *)
(* and the Beans side reads the records out after each feed.  In ref mode a  *)
(* span record is an offset and a length into the piece that was just fed.   *)
(* llhttp is external: it reports a span in any number of pieces, and always *)
(* the rest of it when the piece ends.                                       *)
EXTENDS Integers, Sequences, FiniteSets

CONSTANTS Messages,  \* what the peer sends, byte by byte: a span's name, "." for
                     \* a landmark, "!" for a byte that is no HTTP
          Spans,     \* the names of spans
          Pauses     \* what pause_on may be set to

VARIABLES wire,    \* the peer's bytes
          refs,    \* ref mode
          pauseOn, \* the corpus runner's pause knob
          at,      \* bytes llhttp has passed
          fed,     \* [from, to]: the piece inside the last execute
          base,    \* bytes of earlier feeds, as the bridge counts them
          total,   \* bytes of earlier feeds, as the Beans side counts them
          pos,     \* "idle", "feed" (inside execute), "told" (returned)
          span,    \* the open span: [type, off, event, len]
          events,  \* records not taken yet
          read,    \* what the Beans side has read: <<what, offset>>
          error,   \* llhttp's error: "no", "yes" or "upgrade"
          memory,  \* "ok" or "out", out_of_memory
          ended    \* finish was called

vars == <<wire, refs, pauseOn, at, fed, base, total, pos, span, events, read, error, memory, ended>>
NoSpan == [type |-> "none", off |-> 0, event |-> 0, len |-> 0]
Record(type, off, len) == [type |-> type, off |-> off, len |-> len]

Init ==
    /\ wire \in Messages /\ refs \in BOOLEAN /\ pauseOn \in Pauses \cup {"never"}
    /\ refs => pauseOn = "never"
    /\ at = 0 /\ fed = [from |-> 0, to |-> 0] /\ base = 0 /\ total = 0 /\ pos = "idle"
    /\ span = NoSpan /\ events = <<>> /\ read = <<>> /\ error = "no" /\ memory = "ok" /\ ended = FALSE

----------------------------------------------------------------------------
Latched == error # "no"
\* beans_h1_execute up to llhttp_execute; the piece starts where the last ended.
Feed(n) ==
    /\ pos = "idle" /\ ~ended /\ total + n <= Len(wire)
    /\ ~Latched
    /\ fed' = [from |-> total, to |-> total + n] /\ at' = total /\ pos' = "feed"
    /\ UNCHANGED <<wire, refs, pauseOn, base, total, span, events, read, error, memory, ended>>

\* beans_h1_cursor: how far the cursor is into the piece, after base.
Cursor == base + (at - fed.from)
\* What llhttp has in front of it.
Here == IF at < fed.to THEN wire[at + 1] ELSE "end"
RunEnds(e) == \A k \in (at + 1)..e : wire[k] = Here

Touches(type) == span.type = type /\ span.off + span.len = Cursor
Opened(type, n) ==
    /\ events' = Append(events, Record(type, Cursor, n))
    /\ span' = [type |-> type, off |-> Cursor, event |-> Len(events) + 1, len |-> n]
Extended(n) ==
    /\ events' = [events EXCEPT ![span.event] = [@ EXCEPT !.len = span.len + n]]
    /\ span' = [span EXCEPT !.len = @ + n]
\* After a callback that pauses: the record, and on with the rest.
Paused(type, off, evs) == IF pauseOn = type THEN Append(evs, Record("pause", off, 0)) ELSE evs

\* beans_h1_span, for the next n bytes.
SpanCallback(n) ==
    /\ pos = "feed" /\ error = "no" /\ Here \in Spans /\ at + n <= fed.to /\ RunEnds(at + n)
    /\ IF Touches(Here) THEN Extended(n) ELSE Opened(Here, n)
    /\ at' = at + n
    /\ UNCHANGED <<wire, refs, pauseOn, fed, base, total, pos, read, error, memory, ended>>
\* llhttp stops at a span it was told to pause on: a record, and on with the
\* rest of the piece.
PauseAfterSpan ==
    /\ pos = "feed" /\ error = "no" /\ span.type # "none" /\ span.type = pauseOn
    /\ events' = Append(events, Record("pause", Cursor, 0)) /\ span' = NoSpan
    /\ UNCHANGED <<wire, refs, pauseOn, at, fed, base, total, pos, read, error, memory, ended>>
\* beans_h1_plain: the open span is over.
Landmark ==
    /\ pos = "feed" /\ error = "no" /\ Here = "."
    /\ span' = NoSpan /\ at' = at + 1
    /\ events' = Paused(".", Cursor + 1, Append(events, Record(".", Cursor, 0)))
    /\ UNCHANGED <<wire, refs, pauseOn, fed, base, total, pos, read, error, memory, ended>>
\* A byte that is no HTTP, or the end of HTTP: the error record.  llhttp gives
\* the same answer again to whoever calls it again.
Stops(how) ==
    /\ pos = "feed" /\ (Here = (IF how = "yes" THEN "!" ELSE "^") \/ error = how)
    /\ span' = NoSpan /\ error' = how
    /\ events' = Append(events, Record("error", Cursor, 0))
    /\ base' = Cursor /\ total' = fed.to /\ pos' = "told"
    /\ UNCHANGED <<wire, refs, pauseOn, at, fed, read, memory, ended>>
\* The piece is through.
FeedReturns ==
    /\ pos = "feed" /\ at = fed.to /\ error = "no"
    /\ (span.type # "none" => span.type # pauseOn)
    /\ span' = NoSpan /\ base' = Cursor /\ total' = fed.to /\ pos' = "told"
    /\ UNCHANGED <<wire, refs, pauseOn, at, fed, events, read, error, memory, ended>>
\* beans_h1_reserve fails: nothing is recorded, and the call says so for good.
OutOfMemory ==
    /\ pos = "feed" /\ error = "no" /\ at < fed.to /\ memory = "ok"
    /\ memory' = "out" /\ error' = "yes" /\ total' = fed.to /\ pos' = "told"
    /\ UNCHANGED <<wire, refs, pauseOn, at, fed, base, span, events, read, ended>>

----------------------------------------------------------------------------
\* What a record says about single bytes.
SpanBytes(r) == IF r.type \in Spans THEN [k \in 1..r.len |-> <<r.type, r.off + (k - 1)>>]
            ELSE IF r.type = "pause" THEN <<>> ELSE <<<<r.type, r.off>>>>
ReadAll(evs) ==
    LET f[k \in 0..Len(evs)] == IF k = 0 THEN <<>> ELSE f[k - 1] \o SpanBytes(evs[k]) IN f[Len(evs)]
\* take_events and the walk over the records; a failed call reads nothing.
Take ==
    /\ pos = "told"
    /\ read' = IF memory = "out" THEN read ELSE read \o ReadAll(events)
    /\ events' = <<>> /\ pos' = "idle"
    /\ UNCHANGED <<wire, refs, pauseOn, at, fed, base, total, span, error, memory, ended>>
\* In copying mode the runner may feed again before it reads.
TakeLater ==
    /\ pos = "told" /\ ~refs /\ pos' = "idle"
    /\ UNCHANGED <<wire, refs, pauseOn, at, fed, base, total, span, events, read, error, memory, ended>>

\* beans_h1_finish.  llhttp's finish state: after a landmark nothing is owed,
\* in a body the end completes the message, elsewhere it is an error.
FinishState == IF base = 0 \/ wire[base] = "." THEN "safe"
               ELSE IF wire[base] = "body" THEN "safe_with_cb" ELSE "unsafe"
Finish ==
    /\ pos = "idle" /\ ~ended /\ ended' = TRUE
    /\ fed' = [from |-> total, to |-> total] /\ at' = total /\ pos' = "told"
    /\ IF error # "no" \/ FinishState = "safe" THEN UNCHANGED <<events, error>>
       ELSE IF FinishState = "safe_with_cb"
            THEN events' = Append(events, Record(".", base, 0)) /\ UNCHANGED error
       ELSE events' = Append(events, Record("error", base, 0)) /\ error' = "yes"
    /\ span' = NoSpan
    /\ UNCHANGED <<wire, refs, pauseOn, base, total, read, memory>>

Next ==
    \/ \E n \in 1..Len(wire) : Feed(n) \/ SpanCallback(n)
    \/ PauseAfterSpan \/ Landmark \/ FeedReturns \/ OutOfMemory \/ Take \/ TakeLater \/ Finish
    \/ \E how \in {"yes", "upgrade"} : Stops(how)
Spec == Init /\ [][Next]_vars

----------------------------------------------------------------------------
Expected == [k \in 1..Len(wire) |-> <<IF wire[k] \in {"!", "^"} THEN "error" ELSE wire[k], k - 1>>]
Told == read \o ReadAll(events)

\* The records say of every byte of the message, in order, what it is and
\* where: however the connection was cut, however llhttp cut the spans, and
\* wherever it paused.
TraceIsMessage ==
    memory = "ok" => /\ Len(Told) <= Len(wire) + 1
                     /\ \A k \in DOMAIN Told : k <= Len(wire) => (Told[k] = Expected[k] \/ (ended /\ k = Len(Told)))

\* In ref mode every span the Beans side reads lies in the piece it has just
\* fed, so it never takes its own bridge for broken.
SpansInFeed ==
    (refs /\ pos = "told" /\ memory = "ok") =>
        \A k \in DOMAIN events : events[k].type \in Spans =>
            /\ events[k].off >= fed.from
            /\ events[k].off + events[k].len <= fed.to

\* Nothing is told after an error: it is the last record of the connection.
ErrorIsLast == \A k \in DOMAIN Told : Told[k][1] = "error" => k = Len(Told)

\* However the message is cut and paused, the events spell it out once and
\* in order, spans lie in the piece they came from, and nothing follows an
\* error.
EventsFaithful == TraceIsMessage /\ SpansInFeed /\ ErrorIsLast
=============================================================================
