----------------------------- MODULE Http2Send -----------------------------
(***************************************************************************)
(* The sending half of src/runtime/net/beans_net_h2.c: message bodies are  *)
(* staged, moved into per-stream slots, pulled from there by nghttp2 as    *)
(* flow control allows, and leave through beans_h2_pull_outgoing in pieces *)
(* of the caller's size.                                                   *)
(*                                                                         *)
(* A body's bytes are numbered per stream.                                 *)
(* nghttp2's queue of DATA items and its windows are external.             *)
(***************************************************************************)
EXTENDS Integers, Sequences, SequencesExt, FiniteSets

CONSTANTS Streams,  \* ids in the order they are opened
          MaxBody,  \* bound on the bytes of a stream
          MaxFrame, \* payload units of a DATA frame
          MaxErrors \* bound on the errors the receiving half queues

VARIABLES slots,  \* pending: [stream, body, offset]; -1 is a free slot
          out,    \* [held, head]: outgoing bytes that did not fit, and the consumed prefix
          items,  \* nghttp2: stream -> [slot, end], its DATA item
          window, \* nghttp2: units the peer lets a stream send
          st,     \* stream -> "idle", "open", "ending", "closed"
          wire,   \* units that left
          total,  \* stream -> bytes the program handed over
          server, errors

vars == <<slots, out, items, window, st, wire, total, server, errors>>
NoItem == [slot |-> 0, end |-> FALSE]
Free == -1

\* A unit on the wire: the head of a frame of `len' units, or byte number `len'.
Unit(kind, id, n, end) == [kind |-> kind, id |-> id, len |-> n, end |-> end]
PendingFind(ps, id) == {i \in DOMAIN ps : ps[i].stream = id}
Pick(S) == CHOOSE i \in S : \A j \in S : i <= j
Slot(id) == [stream |-> id, body |-> <<>>, offset |-> 0]
\* beans_h2_pending_claim: the stream's slot, a free one, or a new one.
PendingClaim(ps, id) ==
    CASE PendingFind(ps, id) # {} -> [ps EXCEPT ![Pick(PendingFind(ps, id))] = Slot(id)]
      [] PendingFind(ps, id) = {} /\ PendingFind(ps, Free) # {} ->
           [ps EXCEPT ![Pick(PendingFind(ps, Free))] = Slot(id)]
      [] OTHER -> Append(ps, Slot(id))
\* beans_h2_pending_release.
PendingRelease(ps, id) ==
    IF PendingFind(ps, id) = {} THEN ps ELSE [ps EXCEPT ![Pick(PendingFind(ps, id))] = Slot(Free)]

BodyUnits(id, n) == [i \in 1..n |-> Unit("byte", id, total[id] + i, FALSE)]
\* The staged body moves into the slot.
Filled(ps, id, body) ==
    [PendingClaim(ps, id) EXCEPT ![Pick(PendingFind(PendingClaim(ps, id), id))].body = body]

Init ==
    /\ slots = <<>> /\ out = [held |-> <<>>, head |-> 0]
    /\ items = [id \in Streams |-> NoItem] /\ window = [id \in Streams |-> 1]
    /\ server \in BOOLEAN
    \* A server's streams are the requests it has received.
    /\ st = [id \in Streams |-> IF server THEN "request" ELSE "idle"]
    /\ wire = <<>> /\ total = [id \in Streams |-> 0] /\ errors = 0

NextIdle(id) == st[id] = "idle" /\ \A j \in Streams : j < id => st[j] # "idle"
MayOpen(id) == IF server THEN st[id] = "request" ELSE NextIdle(id)
\* A client's body waits under stream 0 until nghttp2 has given the id.
Bound(ps, id) ==
    IF server THEN ps ELSE [i \in DOMAIN ps |-> IF ps[i].stream = 0 THEN [ps[i] EXCEPT !.stream = id]
                                                ELSE ps[i]]

\* beans_h2_stage_body and beans_h2_submit: a message with its body, if any.
Submit(id, n) ==
    /\ MayOpen(id)
    /\ \E ps \in {IF n = 0 THEN slots ELSE Filled(slots, IF server THEN id ELSE 0, BodyUnits(id, n))} :
         \/ /\ slots' = Bound(ps, id)
            /\ items' = [items EXCEPT ![id] = IF n = 0 THEN NoItem
                           ELSE [slot |-> Pick(PendingFind(ps, IF server THEN id ELSE 0)), end |-> TRUE]]
            /\ st' = [st EXCEPT ![id] = IF n = 0 THEN "closed" ELSE "ending"]
            /\ total' = [total EXCEPT ![id] = @ + n]
         \/ \* nghttp2 refuses the message: the slot is free again.
            /\ slots' = [i \in DOMAIN ps |-> IF ps[i].stream \in {0, id} THEN [ps[i] EXCEPT !.stream = Free]
                                             ELSE ps[i]]
            /\ st' = [st EXCEPT ![id] = "closed"]
            /\ UNCHANGED <<items, total>>
    /\ UNCHANGED <<out, window, wire, server, errors>>

\* keep_open: headers only, DATA follows by beans_h2_submit_data.
SubmitOpen(id) ==
    /\ MayOpen(id)
    /\ st' = [st EXCEPT ![id] = "open"]
    /\ UNCHANGED <<slots, out, items, window, wire, total, server, errors>>

\* beans_h2_submit_data: BUSY while the stream's slot is taken, or while
\* nghttp2 has an item of it.
SubmitData(id, n, end) ==
    /\ st[id] = "open" /\ PendingFind(slots, id) = {}
    /\ total[id] + n <= MaxBody /\ (n > 0 \/ end)
    /\ IF items[id] # NoItem
       THEN slots' = PendingRelease(Filled(slots, id, BodyUnits(id, n)), id) /\ UNCHANGED <<items, st, total>>
       ELSE /\ slots' = Filled(slots, id, BodyUnits(id, n))
            /\ items' = [items EXCEPT ![id] =
                            [slot |-> Pick(PendingFind(Filled(slots, id, BodyUnits(id, n)), id)), end |-> end]]
            /\ st' = [st EXCEPT ![id] = IF end THEN "ending" ELSE @]
            /\ total' = [total EXCEPT ![id] = @ + n]
    /\ UNCHANGED <<out, window, wire, server, errors>>

\* beans_h2_rst_stream, and beans_h2_on_stream_close after a RST_STREAM of the
\* peer: the slot is given back, nghttp2 drops its item.
RstStream(id) ==
    /\ st[id] \in {"open", "ending"}
    /\ slots' = PendingRelease(slots, id)
    /\ st' = [st EXCEPT ![id] = "closed"]
    /\ items' = [items EXCEPT ![id] = NoItem]
    /\ UNCHANGED <<out, window, wire, total, server, errors>>

(***************************************************************************)
(* beans_h2_read_body, called by nghttp2 for a DATA frame of `length'.     *)
(***************************************************************************)
Body(f, end, slot) == [bytes |-> f, eof |-> end, slot |-> slot]
\* What is left past the bytes taken now.
Advanced(s, length) ==
    Body(SubSeq(s.body, s.offset + 1, IF s.offset + length < Len(s.body) THEN s.offset + length
                                      ELSE Len(s.body)),
         s.offset + length >= Len(s.body),
         IF s.offset + length >= Len(s.body) THEN Slot(Free) ELSE [s EXCEPT !.offset = @ + length])
ReadBody(s, id, length) ==
    CASE s.stream # id -> Body(<<>>, TRUE, s)
      [] s.stream = id /\ s.offset >= Len(s.body) -> Body(<<>>, TRUE, Slot(Free))
      [] OTHER -> Advanced(s, length)

Frame(id, b, end) == <<Unit("data", id, Len(b.bytes), end)>> \o b.bytes
Held == SubSeq(out.held, out.head + 1, Len(out.held))
Least(a, b) == IF a < b THEN a ELSE b

\* beans_h2_pull_outgoing, first part: what was held back goes first.
PullHeld(cap) ==
    /\ Held # <<>>
    /\ \E take \in {Least(cap, Len(Held))} :
         /\ wire' = wire \o SubSeq(Held, 1, take)
         /\ out' = IF take = Len(Held) THEN [held |-> <<>>, head |-> 0]
                   ELSE [out EXCEPT !.head = @ + take]
    /\ UNCHANGED <<slots, items, window, st, total, server, errors>>

Tail2(f, take) == SubSeq(f, take + 1, Len(f))
\* Its loop: nghttp2 serializes a DATA frame, and its tail is held back when
\* the caller's buffer is full.
PullFrame(id, cap) ==
    /\ Held = <<>> /\ items[id] # NoItem
    /\ window[id] > 0 \/ slots[items[id].slot].body = <<>>
    /\ \E b \in {ReadBody(slots[items[id].slot], id, Least(MaxFrame, window[id]))} :
       \E f \in {Frame(id, b, b.eof /\ items[id].end)} :
         /\ slots' = [slots EXCEPT ![items[id].slot] = b.slot]
         /\ items' = IF b.eof THEN [items EXCEPT ![id] = NoItem] ELSE items
         /\ window' = [window EXCEPT ![id] = @ - Len(b.bytes)]
         /\ st' = IF b.eof /\ items[id].end THEN [st EXCEPT ![id] = "closed"] ELSE st
         /\ wire' = wire \o SubSeq(f, 1, Least(cap, Len(f)))
         /\ out' = [out EXCEPT !.held = @ \o Tail2(f, Least(cap, Len(f)))]
    /\ UNCHANGED <<total, server, errors>>

\* beans_h2_wire_error, of the receiving half.
Queued(f) == IF Held = <<>> THEN [held |-> f, head |-> 0] ELSE [out EXCEPT !.held = @ \o f]
WireError ==
    /\ errors < MaxErrors /\ errors' = errors + 1
    /\ out' = Queued(<<Unit("rst", 0, 1, FALSE), Unit("byte", 0, 1, FALSE) >>)
    /\ UNCHANGED <<slots, items, window, st, wire, total, server>>

WindowUpdate(id) ==
    /\ items[id] # NoItem /\ window[id] = 0
    /\ window' = [window EXCEPT ![id] = 1]
    /\ UNCHANGED <<slots, out, items, st, wire, total, server, errors>>

Next ==
    \/ \E id \in Streams :
         \/ \E n \in 0..MaxBody : Submit(id, n)
         \/ SubmitOpen(id)
         \/ \E n \in 0..MaxBody, end \in BOOLEAN : SubmitData(id, n, end)
         \/ RstStream(id)
         \/ \E cap \in 1..2 : PullFrame(id, cap)
         \/ WindowUpdate(id)
    \/ \E cap \in 1..2 : PullHeld(cap)
    \/ WireError

Spec == Init /\ [][Next]_vars

(***************************************************************************)
(* Properties.                                                             *)
(***************************************************************************)
Of(id, q) == SelectSeq(q, LAMBDA u : u.kind = "byte" /\ u.id = id)

\* What leaves is a sequence of whole frames, whatever sizes the caller pulls
\* in and wherever an error was queued: every head is followed by as many
\* units of its stream as it says, or by the end of what has left so far.
WellFramed ==
    \A i \in DOMAIN wire : wire[i].kind # "byte" =>
        \A j \in 1..wire[i].len : i + j <= Len(wire) =>
            wire[i + j].kind = "byte" /\ wire[i + j].id = wire[i].id

\* The bytes of a stream leave in order and on that stream alone, while other
\* streams' bodies come and go in the slots, and END_STREAM leaves after the
\* last of them.
BodyIntact ==
    /\ \A id \in Streams : \A i \in DOMAIN Of(id, wire) : Of(id, wire)[i].len = i
    /\ \A i \in DOMAIN wire : wire[i].end =>
         total[wire[i].id] = Len(Of(wire[i].id, wire \o Held))

\* What leaves is a sequence of whole frames, and each stream's bytes are a
\* prefix of its body, ended once (beans_h2_pull_outgoing).
BodiesFaithful == WellFramed /\ BodyIntact
=============================================================================
