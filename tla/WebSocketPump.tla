--------------------------- MODULE WebSocketPump ----------------------------
(* The WebSocket bridge: bytes of the connection go to the framer, completed *)
(* messages come back as events, frames it wants to send are flushed to the  *)
(* socket, and the Beans side turns events into messages or ends the         *)
(* connection.  wslay is external: it takes everything it is fed, completes  *)
(* messages in order, answers pings and closes, and answers a frame it must  *)
(* refuse with a close frame and by reading no more.                         *)
EXTENDS Integers, Sequences, FiniteSets

CONSTANTS Wires,      \* what the peer sends: sequences of [op, size, body, rsv]
          MaxMessage, \* the size limit of a message
          Deflate,    \* permessage-deflate may have been negotiated
          MaxSent     \* messages the program sends

VARIABLES wire, deflate,
          fed,      \* units of the wire handed to the framer
          seen,     \* messages the framer has been through
          reading,  \* the framer still reads
          outgoing, \* frames on their way to the socket
          written,  \* frames on the socket
          events,   \* completed messages not drained yet, by number
          failure,  \* "no", "utf8", "too_large" or "memory"
          live,     \* the connection, as the program sees it
          got,      \* messages the program got, by number
          sent      \* messages the program has sent

vars == <<wire, deflate, fed, seen, reading, outgoing, written, events, failure, live, got, sent>>

----------------------------------------------------------------------------
\* ws_valid_utf8: how long a sequence with this first byte is, and what the
\* second byte may be.
NeedOf(b) == CASE b \in 194..223 -> 2 [] b \in 224..239 -> 3 [] b \in 240..244 -> 4 [] OTHER -> 0
\* Mutant of SecondOf: the second byte is any continuation byte.
SecondOfAny(b) == 128..191
SecondOf(b) == CASE b = 224 -> 160..191 [] b = 237 -> 128..159
                 [] b = 240 -> 144..191 [] b = 244 -> 128..143 [] OTHER -> 128..191
SequenceAt(s, i) ==
    /\ NeedOf(s[i]) > 0 /\ i + (NeedOf(s[i]) - 1) <= Len(s)
    /\ s[i + 1] \in SecondOf(s[i])
    /\ \A k \in 2..(NeedOf(s[i]) - 1) : s[i + k] \in 128..191
Valid(s) ==
    LET v[i \in 1..(Len(s) + 1)] ==
          IF i = Len(s) + 1 THEN TRUE
          ELSE IF s[i] <= 127 THEN v[i + 1]
          ELSE SequenceAt(s, i) /\ v[i + NeedOf(s[i])]
    IN v[1]

----------------------------------------------------------------------------
\* Well-formed UTF-8 by what it encodes: the bits of each sequence make a
\* scalar value that no shorter sequence can encode.
Continuation(b) == b \in 128..191
LengthOf(b) == CASE b \in 0..127 -> 1 [] b \in 192..223 -> 2 [] b \in 224..239 -> 3 [] b \in 240..247 -> 4 [] OTHER -> 0
ScalarAt(s, i) ==
    CASE LengthOf(s[i]) = 1 -> s[i]
      [] LengthOf(s[i]) = 2 -> ((s[i] % 32) * 64) + (s[i + 1] % 64)
      [] LengthOf(s[i]) = 3 -> ((s[i] % 16) * 4096) + ((s[i + 1] % 64) * 64) + (s[i + 2] % 64)
      [] OTHER -> ((s[i] % 8) * 262144) + ((s[i + 1] % 64) * 4096) + ((s[i + 2] % 64) * 64) + (s[i + 3] % 64)
Shortest(c) == IF c < 128 THEN 1 ELSE IF c < 2048 THEN 2 ELSE IF c < 65536 THEN 3 ELSE 4
EncodedAt(s, i) ==
    /\ LengthOf(s[i]) > 0 /\ i + (LengthOf(s[i]) - 1) <= Len(s)
    /\ \A k \in 1..(LengthOf(s[i]) - 1) : Continuation(s[i + k])
    /\ Shortest(ScalarAt(s, i)) = LengthOf(s[i])
    /\ ScalarAt(s, i) \notin 55296..57343 /\ ScalarAt(s, i) <= 1114111
WellFormed(s) ==
    LET v[i \in 1..(Len(s) + 1)] ==
          IF i = Len(s) + 1 THEN TRUE ELSE EncodedAt(s, i) /\ v[i + LengthOf(s[i])]
    IN v[1]

----------------------------------------------------------------------------
Init ==
    /\ wire \in Wires /\ deflate \in Deflate
    /\ fed = 0 /\ seen = 0 /\ reading = TRUE /\ outgoing = <<>> /\ written = <<>>
    /\ events = <<>> /\ failure = "no" /\ live = TRUE /\ got = <<>> /\ sent = 0

Ends(k) == LET e[i \in 0..k] == IF i = 0 THEN 0 ELSE e[i - 1] + wire[i].size IN e[k]
Control(op) == op \in {"ping", "pong", "close"}
Compressed(m) == m.rsv = 4

\* What the framer itself refuses: reserved bits nobody negotiated or on a
\* control frame, too much, text that is none, a frame out of order.
FramerRefuses(m) ==
    \/ m.op = "bad" \/ m.size > MaxMessage
    \/ Compressed(m) /\ (~deflate \/ Control(m.op))
    \/ m.op = "text" /\ ~Compressed(m) /\ ~WellFormed(m.body)
\* Frames the framer queues by itself.
Reply(m) == IF FramerRefuses(m) \/ m.op = "close" THEN <<"close">> ELSE IF m.op = "ping" THEN <<"pong">> ELSE <<>>

\* ws_on_msg_cb: r is the state of the receive pass so far.  A failure does
\* not stop the pass: what follows is still taken.
OnMsg(r, k, starved) ==
    IF wire[k].size > MaxMessage THEN [r EXCEPT !.failure = "too_large"]
    ELSE IF wire[k].op = "text" /\ ~Compressed(wire[k]) /\ ~Valid(wire[k].body) THEN [r EXCEPT !.failure = "utf8"]
    ELSE IF starved THEN [r EXCEPT !.failure = "memory"]
    ELSE [r EXCEPT !.events = Append(@, k)]
Through(r, k, starved) ==
    IF ~r.reading THEN r
    ELSE [(IF FramerRefuses(wire[k]) THEN r ELSE OnMsg(r, k, starved = k))
             EXCEPT !.reading = ~FramerRefuses(wire[k]) /\ wire[k].op # "close",
                    !.queued = @ \o Reply(wire[k]), !.seen = k]
\* wslay_event_recv: every message that is complete now.
Pass(to, starved) ==
    LET r[k \in seen..Len(wire)] ==
          IF k = seen THEN [events |-> events, failure |-> failure, reading |-> reading, queued |-> <<>>, seen |-> seen]
          ELSE IF Ends(k) > to THEN r[k - 1] ELSE Through(r[k - 1], k, starved)
    IN r[Len(wire)]

\* drain_events: up to the first compressed text that is none.
Readable(k) == (wire[k].op = "text" /\ Compressed(wire[k])) => Valid(wire[k].body)
Drained(evs) ==
    LET n == IF \E i \in DOMAIN evs : ~Readable(evs[i])
             THEN (CHOOSE i \in DOMAIN evs : ~Readable(evs[i]) /\ \A j \in 1..(i - 1) : Readable(evs[j])) - 1
             ELSE Len(evs)
    IN SubSeq(evs, 1, n)
Flushed(frames) == written \o frames
\* beans_ws_feed returns the failure, and sends nothing.
Failed(r) == r.failure # "no"
\* absorb on a failed feed: what is queued goes out, then the socket closes.
AbsorbFails(r) ==
    /\ written' = Flushed(outgoing) /\ outgoing' = <<>> /\ live' = FALSE
    /\ UNCHANGED <<got, events>>
\* absorb: events to messages, frames to the socket; both sides done is the end.
AbsorbWorks(r) ==
    /\ got' = got \o Drained(r.events) /\ events' = <<>> /\ outgoing' = <<>>
    /\ IF Len(Drained(r.events)) < Len(r.events)
       THEN /\ written' = Flushed(outgoing \o r.queued \o (IF r.reading THEN <<"close">> ELSE <<>>))
            /\ live' = FALSE
       ELSE written' = Flushed(outgoing \o r.queued) /\ live' = r.reading
Feed(n, starved) ==
    /\ live /\ fed + n <= Ends(Len(wire)) /\ fed' = fed + n
    /\ \E r \in {Pass(fed + n, starved)} :
          /\ seen' = r.seen /\ reading' = r.reading /\ failure' = r.failure
          /\ IF Failed(r) THEN AbsorbFails(r) ELSE AbsorbWorks(r)
    /\ UNCHANGED <<wire, deflate, sent>>

\* beans_ws_queue: reserved bits only where they mean something.
Queue(op, rsv) ==
    /\ live /\ sent < MaxSent /\ sent' = sent + 1
    /\ rsv # 0 => deflate /\ ~Control(op)
    /\ written' = Flushed(Append(outgoing, op)) /\ outgoing' = <<>>
    /\ UNCHANGED <<wire, deflate, fed, seen, reading, events, failure, live, got>>
\* beans_ws_close, and the socket with it.
Close ==
    /\ live /\ live' = FALSE
    /\ written' = Flushed(Append(outgoing, "close")) /\ outgoing' = <<>>
    /\ UNCHANGED <<wire, deflate, fed, seen, reading, events, failure, got, sent>>

Next ==
    \/ \E n \in 1..Ends(Len(wire)), starved \in 0..Len(wire) : Feed(n, starved)
    \/ \E op \in {"text", "ping"}, rsv \in {0, 4} : Queue(op, rsv)
    \/ Close
Spec == Init /\ [][Next]_vars

----------------------------------------------------------------------------
\* The program gets the messages of the peer in order and without a gap: what
\* a pass completes after a message it failed on is never delivered.
NoGap == \A i \in DOMAIN got : got[i] = i

\* Text that reaches the program is well-formed UTF-8, compressed or not, and
\* no text that is well-formed ends the connection.
TextIsUtf8 ==
    /\ \A i \in DOMAIN got : wire[got[i]].op = "text" => WellFormed(wire[got[i]].body)
    /\ failure # "utf8"
    /\ (~live /\ failure = "no" /\ "close" \in {written[i] : i \in DOMAIN written} /\ seen > 0 /\ Len(got) < seen)
          => (FramerRefuses(wire[Len(got) + 1]) \/ ~WellFormed(wire[Len(got) + 1].body))

\* A connection that ends, for whatever reason but memory, has told the peer:
\* the close frame was written before the socket was closed.
PeerTold == (~live /\ failure = "no") => "close" \in {written[i] : i \in DOMAIN written}

\* The program gets a prefix of the peer's messages without a gap, text is
\* UTF-8, and an end is told to the peer.
MessagesFaithful == NoGap /\ TextIsUtf8 /\ PeerTold
=============================================================================
