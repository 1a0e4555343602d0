----------------------------- MODULE Http2Wire -----------------------------
(***************************************************************************)
(* The receiving half of src/runtime/net/beans_net_h2.c: the bridge scans  *)
(* the bytes of the connection itself, next to nghttp2, keeps a table of   *)
(* stream states of its own and answers the frames nghttp2 ignores.        *)
(*                                                                         *)
(* A frame is its header in HeaderLen units (nine bytes in the code) and   *)
(* its payload; the prefix the scanner keeps of a payload is PrefixCap     *)
(* units.  Bytes reach beans_h2_feed in pieces of any length.  nghttp2 is  *)
(* external: what it opens, closes and refuses is modelled from the        *)
(* callbacks it makes.  `ref' is a peer's view of the protocol, kept apart *)
(* from the bridge's table, and says which of its frames were legal.       *)
(***************************************************************************)
EXTENDS Integers, Sequences, SequencesExt, FiniteSets, FiniteSetsExt

CONSTANTS Streams,    \* stream ids, odd numbers
          HeaderLen, PrefixCap, PrefaceLen,
          MaxWire,    \* 4096: entries of the table
          MaxHeaders, \* 128: header fields of a stream
          Window,     \* 65535: the initial send window of a stream
          MaxWindow,  \* 2^31 - 1
          MaxOpen,    \* 100: streams SETTINGS lets the peer have open
          MaxPiece,   \* 65536 bytes: what std.http reads at a time
          MaxFrames   \* bound on the frames of a run

VARIABLES w,    \* the session
          net,  \* units sent by the peer and not fed yet
          sent, \* frames the peer has sent
          seen, \* frames beans_h2_wire_frame was called for
          ref   \* the protocol state the peer keeps

vars == <<w, net, sent, seen, ref>>

Frame(t, id, end, arg, len) == [type |-> t, id |-> id, end |-> end, arg |-> arg, len |-> len]
\* arg: header fields, dependency of a PRIORITY, increment of a WINDOW_UPDATE.
Frames ==
    {Frame("headers", id, FALSE, n, 1) : id \in Streams, n \in 1..2}
    \cup {Frame("headers", id, TRUE, 1, 1) : id \in Streams}
    \cup {Frame("data", id, len = 0, 0, len) : id \in Streams, len \in {0, PrefixCap + 1}}
    \cup {Frame("rst", id, FALSE, 0, 1) : id \in Streams}
    \cup {Frame("priority", id, FALSE, 1, 2) : id \in {0} \cup Streams}
    \cup {Frame("window", id, FALSE, add, 1) : id \in Streams, add \in {2}}
Units(f) == [i \in 1..HeaderLen |-> <<"h", i, f>>] \o [i \in 1..f.len |-> <<"p", i, f>>]

(***************************************************************************)
(* beans_h2_wire_stream: the table.                                        *)
(***************************************************************************)
Entry(id) == [stream |-> id, remote_window |-> Window, active |-> TRUE,
              peer_ended |-> FALSE, reset_received |-> FALSE]
WireFind(s, id) == {i \in DOMAIN s.table : s.table[i].stream = id}
Known(s, id) == id # 0 /\ WireFind(s, id) # {}
At(s, id) == CHOOSE i \in WireFind(s, id) : TRUE
Oldest(s) == {i \in DOMAIN s.table : ~s.table[i].active /\ \A j \in DOMAIN s.table :
                    ~s.table[j].active => s.table[i].stream <= s.table[j].stream}
\* beans_h2_wire_claim, for a stream that has no entry.
WireClaim(s, id) ==
    CASE Len(s.table) < MaxWire -> [s EXCEPT !.table = Append(@, Entry(id))]
      [] Len(s.table) >= MaxWire /\ Oldest(s) # {} ->
           [s EXCEPT !.table[CHOOSE i \in Oldest(s) : TRUE] = Entry(id)]
      [] OTHER -> [s EXCEPT !.failed = TRUE]

\* beans_h2_wire_error: a bare RST_STREAM, or the one GOAWAY.
WireError(s, connection, id, code) ==
    IF connection /\ s.manual_goaway THEN s
    ELSE [s EXCEPT !.out = Append(@, [goaway |-> connection, id |-> id, code |-> code,
                                      after |-> s.count]),
                   !.manual_goaway = @ \/ connection]

EndsStream(s, f) ==
    IF f.end /\ Known(s, f.id) THEN [s EXCEPT !.table[At(s, f.id)].peer_ended = TRUE] ELSE s
\* A HEADERS frame for a stream without an entry opens one.
Opened(s, f) ==
    IF s.is_server /\ f.id < s.last_peer_stream
    THEN WireError(s, TRUE, f.id, "protocol")
    ELSE [WireClaim(s, f.id) EXCEPT !.last_peer_stream = IF f.id > @ THEN f.id ELSE @]
WireHeaders(s, f) ==
    CASE Known(s, f.id) /\ s.table[At(s, f.id)].reset_received ->
           WireError(s, FALSE, f.id, "closed")
      [] Known(s, f.id) /\ ~s.table[At(s, f.id)].reset_received
         /\ s.table[At(s, f.id)].peer_ended -> WireError(s, TRUE, f.id, "closed")
      [] ~Known(s, f.id) -> Opened(s, f)
      [] OTHER -> s
WireData(s, f) ==
    IF Known(s, f.id) /\ (s.table[At(s, f.id)].reset_received \/ s.table[At(s, f.id)].peer_ended)
    THEN WireError(s, FALSE, f.id, "closed") ELSE s
WireRst(s, f) ==
    IF Known(s, f.id) THEN [s EXCEPT !.table[At(s, f.id)].reset_received = TRUE] ELSE s
\* The dependency is read from the kept prefix.
WirePriority(s, f, prefix) ==
    CASE f.id = 0 -> WireError(s, TRUE, 0, "protocol")
      [] f.id # 0 /\ prefix # <<>> /\ prefix[1][3].arg = f.id -> WireError(s, FALSE, f.id, "protocol")
      [] OTHER -> s
WireWindow(s, f, prefix) ==
    CASE Len(prefix) # 1 \/ prefix[1][3].arg = 0 \/ ~Known(s, f.id) -> s
      [] Len(prefix) = 1 /\ Known(s, f.id) /\ prefix[1][3].arg # 0
         /\ s.table[At(s, f.id)].remote_window > MaxWindow - prefix[1][3].arg ->
           [WireError(s, FALSE, f.id, "flow") EXCEPT !.table[At(s, f.id)].reset_received = TRUE]
      [] OTHER -> [s EXCEPT !.table[At(s, f.id)].remote_window = @ + prefix[1][3].arg]
\* beans_h2_wire_frame, on the header and the prefix the scanner has kept.
WireFrame(s, f, prefix) ==
    CASE f.type = "headers" -> EndsStream(WireHeaders(s, f), f)
      [] f.type = "data" -> EndsStream(WireData(s, f), f)
      [] f.type = "rst" -> WireRst(s, f)
      [] f.type = "priority" -> WirePriority(s, f, prefix)
      [] f.type = "window" -> WireWindow(s, f, prefix)

(***************************************************************************)
(* beans_h2_wire_scan: the loop over one piece.                            *)
(***************************************************************************)
Least(a, b) == IF a < b THEN a ELSE b
Drop(q, n) == SubSeq(q, n + 1, Len(q))
Done(s) == [WireFrame([s EXCEPT !.count = @ + 1], s.header[1][3], s.prefix)
              EXCEPT !.header = <<>>, !.prefix = <<>>,
                     !.seen = Append(@, [f |-> s.header[1][3], whole |->
                        s.header = SubSeq(Units(s.header[1][3]), 1, HeaderLen)
                        /\ s.prefix = SubSeq(Drop(Units(s.header[1][3]), HeaderLen), 1,
                                             Least(PrefixCap, s.header[1][3].len))])]
HeaderTaken(s) ==
    IF Len(s.header) = HeaderLen /\ s.header[1][3].len = 0 THEN Done(s)
    ELSE IF Len(s.header) = HeaderLen THEN [s EXCEPT !.left = s.header[1][3].len] ELSE s
Kept(s, part) == [s EXCEPT !.prefix = @ \o SubSeq(part, 1, Least(PrefixCap - Len(@), Len(part))),
                           !.left = @ - Len(part)]
PayloadTaken(s) == IF s.left = 0 THEN Done(s) ELSE s

RECURSIVE WireScan(_, _)
TakeHeader(s, q, n) == WireScan(HeaderTaken([s EXCEPT !.header = @ \o SubSeq(q, 1, n)]), Drop(q, n))
TakePayload(s, q, n) == WireScan(PayloadTaken(Kept(s, SubSeq(q, 1, n))), Drop(q, n))
WireScan(s, q) ==
    CASE q = <<>> -> s
      [] q # <<>> /\ Len(s.header) < HeaderLen -> TakeHeader(s, q, Least(HeaderLen - Len(s.header), Len(q)))
      [] OTHER -> TakePayload(s, q, Least(s.left, Len(q)))
\* A server skips the client's connection preface first.
Scan(s, q, n) == WireScan([s EXCEPT !.preface_left = @ - n], Drop(q, n))

(***************************************************************************)
(* nghttp2's callbacks (external) and the header limits they apply.        *)
(***************************************************************************)
HeaderFind(s, id) == {i \in DOMAIN s.limits : s.limits[i].stream = id}
HeaderState(id, n) == [stream |-> id, count |-> n]
\* Mutant: a free entry is not looked for.
HeaderClaimNew(s, id) ==
    IF HeaderFind(s, id) # {} THEN s ELSE [s EXCEPT !.limits = Append(@, HeaderState(id, 0))]
HeaderClaim(s, id) ==
    CASE HeaderFind(s, id) # {} -> s
      [] HeaderFind(s, id) = {} /\ HeaderFind(s, -1) # {} ->
           [s EXCEPT !.limits[CHOOSE i \in HeaderFind(s, -1) : TRUE] = HeaderState(id, 0)]
      [] OTHER -> [s EXCEPT !.limits = Append(@, HeaderState(id, 0))]
HeaderRelease(s, id) ==
    IF HeaderFind(s, id) = {} THEN s
    ELSE [s EXCEPT !.limits[CHOOSE i \in HeaderFind(s, id) : TRUE] = HeaderState(-1, 0)]
\* beans_h2_on_header for n fields: past the limit the stream is reset.
OnHeader(s, id, n, i) ==
    IF s.limits[i].count + n > MaxHeaders
    THEN [s EXCEPT !.events = Append(@, <<"reset", id>>)]
    ELSE [s EXCEPT !.limits[i].count = @ + n, !.events = Append(@, <<"headers", id>>)]
OnHeaders(s, f) ==
    OnHeader(HeaderClaim(s, f.id), f.id, f.arg,
             CHOOSE i \in HeaderFind(HeaderClaim(s, f.id), f.id) : TRUE)
OnStreamClose(s, id) ==
    [HeaderRelease(s, id) EXCEPT !.events = Append(@, <<"closed", id>>),
        !.table = [i \in DOMAIN @ |-> IF @[i].stream = id THEN [@[i] EXCEPT !.active = FALSE]
                                      ELSE @[i]]]

(***************************************************************************)
(* The protocol as the peer keeps it.                                      *)
(***************************************************************************)
\* A client opens its streams in order; a server may answer them in any.
Idle(r, id) == r.state[id] = "idle" /\ \A j \in Streams :
                    w.is_server /\ j > id => r.state[j] = "idle"
Opens(r, f) == f.type = "headers" /\ Idle(r, f.id)
               /\ Cardinality({id \in Streams : r.state[id] \in {"open", "half"}}) < MaxOpen
Legal(r, f) ==
    CASE f.type = "headers" -> r.state[f.id] = "open" \/ Opens(r, f)
      [] f.type = "data" -> r.state[f.id] = "open"
      [] f.type = "rst" -> r.state[f.id] # "idle"
      [] f.type = "priority" -> f.id # 0 /\ f.arg # f.id
      [] f.type = "window" -> r.state[f.id] # "idle" /\ f.arg # 0 /\ r.window[f.id] + f.arg <= MaxWindow
Moved(r, f) ==
    CASE f.type = "headers" /\ Idle(r, f.id) ->
           [r EXCEPT !.state[f.id] = IF f.end THEN "half" ELSE "open"]
      [] f.type \in {"headers", "data"} /\ r.state[f.id] = "open" /\ f.end ->
           [r EXCEPT !.state[f.id] = "half"]
      [] f.type = "rst" -> [r EXCEPT !.state[f.id] = "closed"]
      [] f.type = "window" -> [r EXCEPT !.window[f.id] = @ + f.arg]
      [] OTHER -> r

Init ==
    /\ \E server \in BOOLEAN :
         w = [is_server |-> server, preface_left |-> IF server THEN PrefaceLen ELSE 0, table |-> <<>>, last_peer_stream |-> 0, header |-> <<>>,
              prefix |-> <<>>, left |-> 0, manual_goaway |-> FALSE, failed |-> FALSE,
              out |-> <<>>, count |-> 0, seen |-> <<>>, limits |-> <<>>, events |-> <<>>]
    /\ net = [i \in 1..w.preface_left |-> <<"m", i>>] /\ sent = <<>> /\ seen = 0
    /\ ref = [state |-> [id \in Streams |-> "idle"], window |-> [id \in Streams |-> Window],
              legal |-> <<>>]

Send ==
    /\ Len(sent) < MaxFrames /\ Len(net) < MaxPiece
    /\ \E f \in Frames :
         /\ sent' = Append(sent, f) /\ net' = net \o Units(f)
         /\ ref' = [(IF Legal(ref, f) THEN Moved(ref, f) ELSE ref)
                      EXCEPT !.legal = Append(@, Legal(ref, f))]
    /\ UNCHANGED <<w, seen>>

\* beans_h2_feed: the scan, then nghttp2 and its callbacks for the frames
\* that have arrived in full.  HEADERS and RST_STREAM reach the callbacks
\* for a stream that is open.
OpenInNghttp2(s, id) == \E i \in DOMAIN s.table : s.table[i].stream = id /\ s.table[i].active
Delivered(s, f) ==
    CASE f.type = "headers" /\ OpenInNghttp2(s, f.id) -> OnHeaders(s, f)
      [] f.type = "rst" /\ OpenInNghttp2(s, f.id) -> OnStreamClose(s, f.id)
      [] OTHER -> s
Feed ==
    /\ ~w.failed
    /\ \E n \in 1..Least(Len(net), MaxPiece) :
         /\ net' = Drop(net, n)
         /\ \E s \in {Scan([w EXCEPT !.events = <<>>], SubSeq(net, 1, n), Least(w.preface_left, n))} :
              /\ w' = FoldLeft(Delivered, s, [i \in 1..(s.count - seen) |-> s.seen[seen + i].f])
              /\ seen' = s.count
    /\ UNCHANGED <<sent, ref>>

\* The program ends its half of a stream the peer has ended: nghttp2 closes it.
Answer ==
    /\ \E id \in Streams :
         /\ OpenInNghttp2(w, id) /\ w.table[At(w, id)].peer_ended
         /\ w' = OnStreamClose(w, id)
         /\ ref' = [ref EXCEPT !.state[id] = IF @ = "half" THEN "closed" ELSE @]
    /\ UNCHANGED <<net, sent, seen>>

\* The program's DATA takes from the stream's send window.
SendData ==
    /\ \E id \in Streams :
         /\ OpenInNghttp2(w, id) /\ ref.window[id] > 0
         /\ ref' = [ref EXCEPT !.window[id] = @ - 1]
    /\ UNCHANGED <<w, net, sent, seen>>

Next == Send \/ Feed \/ Answer \/ SendData
Spec == Init /\ [][Next]_vars

(***************************************************************************)
(* Properties.                                                             *)
(***************************************************************************)
AllLegal(n) == \A i \in 1..n : ref.legal[i]

\* However the bytes are split, beans_h2_wire_scan calls beans_h2_wire_frame
\* once per frame, in order, with that frame's header and prefix: the frames
\* seen are the frames sent, up to what is still on its way.
ScanIsFraming ==
    /\ \A i \in DOMAIN w.seen : w.seen[i].f = sent[i] /\ w.seen[i].whole
    /\ net = <<>> => Len(w.seen) = Len(sent)

\* A peer that keeps to the order of frames and opens at most MaxOpen streams
\* is never answered with an error about that order, and the table never runs
\* out under it.  Errors about windows are left out: they are kept without what
\* was sent, so a peer within its window can be refused.
NoFalseAlarm ==
    AllLegal(w.count) => ~w.failed /\ \A i \in DOMAIN w.out : w.out[i].code = "flow"

FieldsOf(id) == FoldLeft(LAMBDA n, e : IF e.f.type = "headers" /\ e.f.id = id THEN n + e.f.arg ELSE n,
                         0, w.seen)

\* The limit is per stream: the entries are reused, so that there are never
\* more than open streams, and only a stream that passed it is reset.
LimitsPerStream ==
    /\ AllLegal(w.count) => Len(w.limits) <= MaxOpen
    /\ \A id \in Streams : <<"reset", id>> \in Range(w.events) => FieldsOf(id) > MaxHeaders

\* However the wire is cut, the scanner sees the frames that were sent,
\* refuses no peer for the order of its frames that keeps to it, and counts
\* limits for the stream they belong to (beans_h2_wire_scan).
WireFaithful == ScanIsFraming /\ NoFalseAlarm /\ LimitsPerStream
=============================================================================
