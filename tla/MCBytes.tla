------------------------------ MODULE MCBytes -------------------------------
(* Bytes, numbers and descriptors in and out: decimals, JSON, HTTP,
   WebSocket, sockets, poller backends and files, one of them per behaviour. *)
EXTENDS FileHandles, SocketIo, TLC

CONSTANTS Precision, MaxScale, Coeffs, HalfBits, WideLimbs, Edges,
          WideEdges, Smalls, Bytes, MaxLen, Word, Bits, Numbers, Width,
          Fill, MaxDepth, Streams, HeaderLen, PrefixCap, PrefaceLen,
          MaxWire, MaxHeaders, Window, MaxWindow, MaxOpen, MaxPiece,
          MaxFrames, MaxBody, MaxFrame, MaxErrors, Spans, Pauses,
          MaxMessage, Deflate, MaxSent, Backends, Socks, Tokens, PeerStates,
          MaxEvents

VARIABLES sel,  \* the part this behaviour is about
          call, out, src, num, job, items, walk, w, net, sent, seen, ref,
          slots, window, st, wire, total, server, errors, refs, pauseOn, at,
          fed, base, pos, span, events, read, error, memory, ended, deflate,
          reading, outgoing, written, failure, live, got, backend, state,
          asked, set, wake

partsVars ==
    <<sel, call, out, src, num, job, items, walk, w, net, sent, seen, ref,
      slots, window, st, wire, total, server, errors, refs, pauseOn, at, fed,
      base, pos, span, events, read, error, memory, ended, deflate, reading,
      outgoing, written, failure, live, got, backend, state, asked, set, wake,
      fileVars, openVars, bytesVars, sockVars>>

\* Decimal places to round to, as <<sign, size>>.
DecPlaces == {<<1, 0>>, <<1, 1>>, <<1, 3>>, <<-1, 1>>, <<-1, 2>>, <<-1, 3>>}

\* Typed JSON: schemas with optional members, aliases, unknown members kept
\* or refused, lists and nested structs, and the values that meet them.
FieldHash == ("a" :> 1) @@ ("b" :> 1) @@ ("c" :> 5) @@ ("u" :> 3)
Plain == INSTANCE JsonTyped WITH Jobs <- {}, Hash <- FieldHash, job <- 0, items <- 0, walk <- 0
F(n, k, o) == [name |-> n, alias |-> <<>>, kind |-> k, bits |-> 2, opt |-> o, def |-> FALSE, ign |-> FALSE]
Alias(f, a) == [f EXCEPT !.alias = <<a>>]
Nul   == <<"null">>
One   == <<"int", 1>>
Three == <<"int", 3>>
Str   == <<"str", "x">>
Flat  == {Nul, One, Three, Str, <<"arr", <<<<"arr", <<One>>>>>>>>}
Job(sc, ns, vs, m, flat, n) ==
    [schema |-> sc, names |-> ns, values |-> vs, max |-> m, scalar |-> flat, members |-> n]
Strict    == Plain!Schema(<<F("a", "sint", FALSE), F("b", "string", TRUE)>>, FALSE, FALSE)
Open(arr) == Plain!Schema(<<Alias(F("a", "uint", TRUE), "c"), F("b", "f64", FALSE)>>, TRUE, arr)
Inner     == Plain!Schema(<<F("a", "string", FALSE), F("b", "sint", TRUE)>>, FALSE, FALSE)
ListOf(n, k, b) == F(n, "list", TRUE) @@ [elem |-> [F("", k, FALSE) EXCEPT !.bits = b] @@ [child |-> Inner]]
StructOf(n)     == F(n, "struct", TRUE) @@ [child |-> Inner]
Nested == Plain!Schema(<<ListOf("a", "string", 2), StructOf("b"), ListOf("c", "struct", 2)>>, FALSE, FALSE)
Obj(x) == <<"obj", <<<<"a", Str>>, <<"b", x>>>>>>
NestVals == {Nul, <<"arr", <<Str, Str>>>>, <<"arr", <<Str, One>>>>, Obj(One), Obj(Str),
             <<"arr", <<Obj(One), Obj(Nul)>>>>, <<"arr", <<Obj(One), Obj(Three)>>>>, <<"arr", <<>>>>}
Strings == Plain!Schema(<<F("a", "string", FALSE), F("b", "string", TRUE)>>, FALSE, TRUE)
TypedJobs ==
    {Job(Strict, {"a", "b", "c"}, Flat, m, TRUE, 3) : m \in {1, 2}}
    \union {Job(Open(FALSE), {"a", "b", "c", "u"}, Flat, m, TRUE, 3) : m \in 2..4}
    \union {Job(Nested, {"a", "b", "c"}, NestVals, m, FALSE, 2) : m \in {2, 3, 5}}
    \union {Job(Open(TRUE), {"a", "b", "u"}, {Nul, One}, 3, TRUE, 3),
            Job(Strings, {"a", "b"}, {Str, <<"str", "bad">>, One}, 3, TRUE, 3),
            Job(Plain!Schema(<<>>, TRUE, TRUE), {"u"}, {Str}, 3, TRUE, 1),
            Job(Plain!Schema(<<ListOf("a", "sint", 4)>>, FALSE, FALSE), {"a"},
                {<<"arr", <<<<"int", n>>>>>> : n \in {-8, -1, 3, 9}}, 5, FALSE, 1)}

\* HTTP/1 messages as the runs of llhttp's callbacks.
H1Messages == {<<"url", "url", ".", "value", "value", ".", "body", "body">>,
               <<"url", "url", "value", ".", "body", "body">>,
               <<"url", ".", "body", "!", "body", ".">>, <<"url", ".", "^", "body">>}

\* WebSocket messages: text around every boundary of UTF-8, and each kind of
\* frame behind and before another.
WsPairs  == {<<a, b>> : a \in {65, 128, 193, 194, 223, 224, 225, 237, 239, 240, 243, 244, 245},
                        b \in {65, 127, 128, 143, 144, 159, 160, 191, 192}}
WsBodies == {<<a>> : a \in {65, 128, 194, 224, 240, 255}} \union WsPairs
            \union {p \o <<c>> : p \in WsPairs, c \in {65, 128, 191, 192}}
            \union {p \o <<128, c>> : p \in WsPairs, c \in {128, 191, 192}}
Ws(o, n, b, r) == [op |-> o, size |-> n, body |-> b, rsv |-> r]
WsWires ==
    {<<Ws("text", 1, b, r), Ws("binary", 1, <<>>, 0)>> : b \in WsBodies, r \in {0, 4}}
    \union {<<Ws(a, 2, <<65>>, 0), Ws(b, 1, <<>>, r), Ws("text", 2, <<65>>, 4)>> :
                a \in {"text", "ping", "binary"}, b \in {"ping", "pong", "close", "bad", "binary"}, r \in {0, 4}}
    \union {<<Ws("binary", 1, <<>>, 0), Ws("text", 4, <<65>>, 0), Ws("text", 1, <<65>>, 0)>>}

\* The file at first, and what is written to it and asked of it.
FileContents == {<<2>>}
FilePayloads == {<<1, 2>>}
FilePositions == {-1, 1, 3}

\* The responses that go over a stream.
StreamHeads == {<<1>>, <<1, 2, 3>>}
StreamBodies == {<<>>, <<4, 5, 6>>}

Dec == INSTANCE Decimal WITH Places <- DecPlaces
Text == INSTANCE JsonText
Typed == INSTANCE JsonTyped WITH Jobs <- TypedJobs, Hash <- FieldHash
Wire == INSTANCE Http2Wire
Send == INSTANCE Http2Send
Events == INSTANCE Http1Events WITH Messages <- H1Messages
Socket == INSTANCE WebSocketPump WITH Wires <- WsWires
Ready == INSTANCE PollEvents WITH Nums <- {1, 2}

\* A part that is not selected keeps its variables at 0, or at one of its
\* initial states.
NoFiles == FileInit
NoIo == IoInit /\ kind = "stream" /\ polls /\ where = "thread" /\ limit = 0
NoDial == OpenInit /\ opening = "bind" /\ left = 0
NoStream == BytesInit /\ head = <<1>> /\ body = <<>>
NoDescriptors == NoFiles /\ NoIo /\ NoDial /\ NoStream
PartsInit ==
    \/ /\ sel = "decimal" /\ Dec!Init /\ NoDescriptors
       /\ src = 0 /\ num = 0 /\ job = 0 /\ items = 0 /\ walk = 0 /\ w = 0
          /\ net = 0 /\ sent = 0 /\ seen = 0 /\ ref = 0 /\ slots = 0
          /\ window = 0 /\ st = 0 /\ wire = 0 /\ total = 0 /\ server = 0
          /\ errors = 0 /\ refs = 0 /\ pauseOn = 0 /\ at = 0 /\ fed = 0
          /\ base = 0 /\ pos = 0 /\ span = 0 /\ events = 0 /\ read = 0
          /\ error = 0 /\ memory = 0 /\ ended = 0 /\ deflate = 0
          /\ reading = 0 /\ outgoing = 0 /\ written = 0 /\ failure = 0
          /\ live = 0 /\ got = 0 /\ backend = 0 /\ state = 0 /\ asked = 0
          /\ set = 0 /\ wake = 0
    \/ /\ sel = "text" /\ Text!Init /\ NoDescriptors
       /\ call = 0 /\ out = 0 /\ job = 0 /\ items = 0 /\ walk = 0 /\ w = 0
          /\ net = 0 /\ sent = 0 /\ seen = 0 /\ ref = 0 /\ slots = 0
          /\ window = 0 /\ st = 0 /\ wire = 0 /\ total = 0 /\ server = 0
          /\ errors = 0 /\ refs = 0 /\ pauseOn = 0 /\ at = 0 /\ fed = 0
          /\ base = 0 /\ pos = 0 /\ span = 0 /\ events = 0 /\ read = 0
          /\ error = 0 /\ memory = 0 /\ ended = 0 /\ deflate = 0
          /\ reading = 0 /\ outgoing = 0 /\ written = 0 /\ failure = 0
          /\ live = 0 /\ got = 0 /\ backend = 0 /\ state = 0 /\ asked = 0
          /\ set = 0 /\ wake = 0
    \/ /\ sel = "typed" /\ Typed!Init /\ NoDescriptors
       /\ call = 0 /\ out = 0 /\ src = 0 /\ num = 0 /\ w = 0 /\ net = 0
          /\ sent = 0 /\ seen = 0 /\ ref = 0 /\ slots = 0 /\ window = 0
          /\ st = 0 /\ wire = 0 /\ total = 0 /\ server = 0 /\ errors = 0
          /\ refs = 0 /\ pauseOn = 0 /\ at = 0 /\ fed = 0 /\ base = 0
          /\ pos = 0 /\ span = 0 /\ events = 0 /\ read = 0 /\ error = 0
          /\ memory = 0 /\ ended = 0 /\ deflate = 0 /\ reading = 0
          /\ outgoing = 0 /\ written = 0 /\ failure = 0 /\ live = 0
          /\ got = 0 /\ backend = 0 /\ state = 0 /\ asked = 0 /\ set = 0
          /\ wake = 0
    \/ /\ sel = "wire" /\ Wire!Init /\ NoDescriptors
       /\ call = 0 /\ out = 0 /\ src = 0 /\ num = 0 /\ job = 0
          /\ items = 0 /\ walk = 0 /\ slots = 0 /\ window = 0 /\ st = 0
          /\ wire = 0 /\ total = 0 /\ server = 0 /\ errors = 0 /\ refs = 0
          /\ pauseOn = 0 /\ at = 0 /\ fed = 0 /\ base = 0 /\ pos = 0
          /\ span = 0 /\ events = 0 /\ read = 0 /\ error = 0 /\ memory = 0
          /\ ended = 0 /\ deflate = 0 /\ reading = 0 /\ outgoing = 0
          /\ written = 0 /\ failure = 0 /\ live = 0 /\ got = 0
          /\ backend = 0 /\ state = 0 /\ asked = 0 /\ set = 0 /\ wake = 0
    \/ /\ sel = "send" /\ Send!Init /\ NoDescriptors
       /\ call = 0 /\ src = 0 /\ num = 0 /\ job = 0 /\ walk = 0 /\ w = 0
          /\ net = 0 /\ sent = 0 /\ seen = 0 /\ ref = 0 /\ refs = 0
          /\ pauseOn = 0 /\ at = 0 /\ fed = 0 /\ base = 0 /\ pos = 0
          /\ span = 0 /\ events = 0 /\ read = 0 /\ error = 0 /\ memory = 0
          /\ ended = 0 /\ deflate = 0 /\ reading = 0 /\ outgoing = 0
          /\ written = 0 /\ failure = 0 /\ live = 0 /\ got = 0
          /\ backend = 0 /\ state = 0 /\ asked = 0 /\ set = 0 /\ wake = 0
    \/ /\ sel = "events" /\ Events!Init /\ NoDescriptors
       /\ call = 0 /\ out = 0 /\ src = 0 /\ num = 0 /\ job = 0
          /\ items = 0 /\ walk = 0 /\ w = 0 /\ net = 0 /\ sent = 0
          /\ seen = 0 /\ ref = 0 /\ slots = 0 /\ window = 0 /\ st = 0
          /\ server = 0 /\ errors = 0 /\ deflate = 0 /\ reading = 0
          /\ outgoing = 0 /\ written = 0 /\ failure = 0 /\ live = 0
          /\ got = 0 /\ backend = 0 /\ state = 0 /\ asked = 0 /\ set = 0
          /\ wake = 0
    \/ /\ sel = "socket" /\ Socket!Init /\ NoDescriptors
       /\ call = 0 /\ out = 0 /\ src = 0 /\ num = 0 /\ job = 0
          /\ items = 0 /\ walk = 0 /\ w = 0 /\ net = 0 /\ ref = 0
          /\ slots = 0 /\ window = 0 /\ st = 0 /\ total = 0 /\ server = 0
          /\ errors = 0 /\ refs = 0 /\ pauseOn = 0 /\ at = 0 /\ base = 0
          /\ pos = 0 /\ span = 0 /\ read = 0 /\ error = 0 /\ memory = 0
          /\ ended = 0 /\ backend = 0 /\ state = 0 /\ asked = 0 /\ set = 0
          /\ wake = 0
    \/ /\ sel = "ready" /\ Ready!Init /\ NoDescriptors
       /\ call = 0 /\ src = 0 /\ job = 0 /\ items = 0 /\ walk = 0 /\ w = 0
          /\ net = 0 /\ sent = 0 /\ seen = 0 /\ ref = 0 /\ slots = 0
          /\ window = 0 /\ st = 0 /\ wire = 0 /\ total = 0 /\ server = 0
          /\ errors = 0 /\ refs = 0 /\ pauseOn = 0 /\ at = 0 /\ fed = 0
          /\ base = 0 /\ pos = 0 /\ span = 0 /\ events = 0 /\ read = 0
          /\ error = 0 /\ memory = 0 /\ ended = 0 /\ deflate = 0
          /\ reading = 0 /\ outgoing = 0 /\ written = 0 /\ failure = 0
          /\ live = 0 /\ got = 0
    \/ /\ sel = "io" /\ IoInit /\ NoDial /\ NoStream /\ NoFiles
       /\ call = 0 /\ out = 0 /\ src = 0 /\ num = 0 /\ job = 0
          /\ items = 0 /\ walk = 0 /\ w = 0 /\ net = 0 /\ sent = 0
          /\ seen = 0 /\ ref = 0 /\ slots = 0 /\ window = 0 /\ st = 0
          /\ wire = 0 /\ total = 0 /\ server = 0 /\ errors = 0 /\ refs = 0
          /\ pauseOn = 0 /\ at = 0 /\ fed = 0 /\ base = 0 /\ pos = 0
          /\ span = 0 /\ events = 0 /\ read = 0 /\ error = 0 /\ memory = 0
          /\ ended = 0 /\ deflate = 0 /\ reading = 0 /\ outgoing = 0
          /\ written = 0 /\ failure = 0 /\ live = 0 /\ got = 0
          /\ backend = 0 /\ state = 0 /\ asked = 0 /\ set = 0 /\ wake = 0
    \/ /\ sel = "dial" /\ OpenInit /\ NoIo /\ NoStream /\ NoFiles
       /\ call = 0 /\ out = 0 /\ src = 0 /\ num = 0 /\ job = 0
          /\ items = 0 /\ walk = 0 /\ w = 0 /\ net = 0 /\ sent = 0
          /\ seen = 0 /\ ref = 0 /\ slots = 0 /\ window = 0 /\ st = 0
          /\ wire = 0 /\ total = 0 /\ server = 0 /\ errors = 0 /\ refs = 0
          /\ pauseOn = 0 /\ at = 0 /\ fed = 0 /\ base = 0 /\ pos = 0
          /\ span = 0 /\ events = 0 /\ read = 0 /\ error = 0 /\ memory = 0
          /\ ended = 0 /\ deflate = 0 /\ reading = 0 /\ outgoing = 0
          /\ written = 0 /\ failure = 0 /\ live = 0 /\ got = 0
          /\ backend = 0 /\ state = 0 /\ asked = 0 /\ set = 0 /\ wake = 0
    \/ /\ sel = "stream" /\ BytesInit /\ NoIo /\ NoDial /\ NoFiles
       /\ call = 0 /\ out = 0 /\ src = 0 /\ num = 0 /\ job = 0
          /\ items = 0 /\ walk = 0 /\ w = 0 /\ net = 0 /\ sent = 0
          /\ seen = 0 /\ ref = 0 /\ slots = 0 /\ window = 0 /\ st = 0
          /\ wire = 0 /\ total = 0 /\ server = 0 /\ errors = 0 /\ refs = 0
          /\ pauseOn = 0 /\ at = 0 /\ fed = 0 /\ base = 0 /\ pos = 0
          /\ span = 0 /\ events = 0 /\ read = 0 /\ error = 0 /\ memory = 0
          /\ ended = 0 /\ deflate = 0 /\ reading = 0 /\ outgoing = 0
          /\ written = 0 /\ failure = 0 /\ live = 0 /\ got = 0
          /\ backend = 0 /\ state = 0 /\ asked = 0 /\ set = 0 /\ wake = 0
    \/ /\ sel = "files" /\ FileInit /\ NoIo /\ NoDial /\ NoStream
       /\ call = 0 /\ out = 0 /\ src = 0 /\ num = 0 /\ job = 0
          /\ items = 0 /\ walk = 0 /\ w = 0 /\ net = 0 /\ sent = 0
          /\ seen = 0 /\ ref = 0 /\ slots = 0 /\ window = 0 /\ st = 0
          /\ wire = 0 /\ total = 0 /\ server = 0 /\ errors = 0 /\ refs = 0
          /\ pauseOn = 0 /\ at = 0 /\ fed = 0 /\ base = 0 /\ pos = 0
          /\ span = 0 /\ events = 0 /\ read = 0 /\ error = 0 /\ memory = 0
          /\ ended = 0 /\ deflate = 0 /\ reading = 0 /\ outgoing = 0
          /\ written = 0 /\ failure = 0 /\ live = 0 /\ got = 0
          /\ backend = 0 /\ state = 0 /\ asked = 0 /\ set = 0 /\ wake = 0

DecStep ==
    /\ sel = "decimal" /\ Dec!Next
    /\ UNCHANGED <<sel, src, num, job, items, walk, w, net, sent, seen, ref,
                   slots, window, st, wire, total, server, errors, refs,
                   pauseOn, at, fed, base, pos, span, events, read, error,
                   memory, ended, deflate, reading, outgoing, written,
                   failure, live, got, backend, state, asked, set, wake,
                   fileVars, openVars, bytesVars, sockVars>>
TextStep ==
    /\ sel = "text" /\ Text!Next
    /\ UNCHANGED <<sel, call, out, job, items, walk, w, net, sent, seen, ref,
                   slots, window, st, wire, total, server, errors, refs,
                   pauseOn, at, fed, base, pos, span, events, read, error,
                   memory, ended, deflate, reading, outgoing, written,
                   failure, live, got, backend, state, asked, set, wake,
                   fileVars, openVars, bytesVars, sockVars>>
TypedStep ==
    /\ sel = "typed" /\ Typed!Next
    /\ UNCHANGED <<sel, call, out, src, num, w, net, sent, seen, ref, slots,
                   window, st, wire, total, server, errors, refs, pauseOn, at,
                   fed, base, pos, span, events, read, error, memory, ended,
                   deflate, reading, outgoing, written, failure, live, got,
                   backend, state, asked, set, wake, fileVars, openVars,
                   bytesVars, sockVars>>
WireStep ==
    /\ sel = "wire" /\ Wire!Next
    /\ UNCHANGED <<sel, call, out, src, num, job, items, walk, slots, window,
                   st, wire, total, server, errors, refs, pauseOn, at, fed,
                   base, pos, span, events, read, error, memory, ended,
                   deflate, reading, outgoing, written, failure, live, got,
                   backend, state, asked, set, wake, fileVars, openVars,
                   bytesVars, sockVars>>
SendStep ==
    /\ sel = "send" /\ Send!Next
    /\ UNCHANGED <<sel, call, src, num, job, walk, w, net, sent, seen, ref,
                   refs, pauseOn, at, fed, base, pos, span, events, read,
                   error, memory, ended, deflate, reading, outgoing, written,
                   failure, live, got, backend, state, asked, set, wake,
                   fileVars, openVars, bytesVars, sockVars>>
EventsStep ==
    /\ sel = "events" /\ Events!Next
    /\ UNCHANGED <<sel, call, out, src, num, job, items, walk, w, net, sent,
                   seen, ref, slots, window, st, server, errors, deflate,
                   reading, outgoing, written, failure, live, got, backend,
                   state, asked, set, wake, fileVars, openVars, bytesVars,
                   sockVars>>
SocketStep ==
    /\ sel = "socket" /\ Socket!Next
    /\ UNCHANGED <<sel, call, out, src, num, job, items, walk, w, net, ref,
                   slots, window, st, total, server, errors, refs, pauseOn,
                   at, base, pos, span, read, error, memory, ended, backend,
                   state, asked, set, wake, fileVars, openVars, bytesVars,
                   sockVars>>
ReadyStep ==
    /\ sel = "ready" /\ Ready!Next
    /\ UNCHANGED <<sel, call, src, job, items, walk, w, net, sent, seen, ref,
                   slots, window, st, wire, total, server, errors, refs,
                   pauseOn, at, fed, base, pos, span, events, read, error,
                   memory, ended, deflate, reading, outgoing, written,
                   failure, live, got, fileVars, openVars, bytesVars, sockVars>>
IoStep ==
    /\ sel = "io" /\ IoNext
    /\ UNCHANGED <<sel, call, out, src, num, job, items, walk, w, net, sent,
                   seen, ref, slots, window, st, wire, total, server, errors,
                   refs, pauseOn, at, fed, base, pos, span, events, read,
                   error, memory, ended, deflate, reading, outgoing, written,
                   failure, live, got, backend, state, asked, set, wake,
                   fileVars, openVars, bytesVars>>
DialStep ==
    /\ sel = "dial" /\ OpenNext
    /\ UNCHANGED <<sel, call, out, src, num, job, items, walk, w, net, sent,
                   seen, ref, slots, window, st, wire, total, server, errors,
                   refs, pauseOn, at, fed, base, pos, span, events, read,
                   error, memory, ended, deflate, reading, outgoing, written,
                   failure, live, got, backend, state, asked, set, wake,
                   fileVars, bytesVars, sockVars>>
StreamStep ==
    /\ sel = "stream" /\ BytesNext
    /\ UNCHANGED <<sel, call, out, src, num, job, items, walk, w, net, sent,
                   seen, ref, slots, window, st, wire, total, server, errors,
                   refs, pauseOn, at, fed, base, pos, span, events, read,
                   error, memory, ended, deflate, reading, outgoing, written,
                   failure, live, got, backend, state, asked, set, wake,
                   fileVars, openVars, sockVars>>
FilesStep ==
    /\ sel = "files" /\ FileNext
    /\ UNCHANGED <<sel, call, out, src, num, job, items, walk, w, net, sent,
                   seen, ref, slots, window, st, wire, total, server, errors,
                   refs, pauseOn, at, fed, base, pos, span, events, read,
                   error, memory, ended, deflate, reading, outgoing, written,
                   failure, live, got, backend, state, asked, set, wake,
                   openVars, bytesVars, sockVars>>

PartsNext == DecStep \/ TextStep \/ TypedStep \/ WireStep \/ SendStep
    \/ EventsStep \/ SocketStep \/ ReadyStep \/ IoStep \/ DialStep
    \/ StreamStep \/ FilesStep

PartsSpec == PartsInit /\ [][PartsNext]_partsVars

\* Decimal: Every decimal operation is the exact result rounded once, half
\* to even or as its mode says, equal values hash alike, and text reads back
\* (the beans_decv functions).
DecimalExact == sel = "decimal" => Dec!DecimalExact

\* Decimal: The carries, borrows and trial subtractions of the limb
\* arithmetic compute integers (bu_mul64, bu_sub, bu_divmod, decw_multiply).
LimbsExact == sel = "decimal" => Dec!LimbsExact

\* JsonText: The writer's word-wise scan and case-wise checks emit a string
\* exactly when it is UTF-8, and what it emits reads back; digits are the
\* number (the direct writer).
TextFaithful == sel = "text" => Text!TextFaithful

\* JsonTyped: The two decoders agree on every document and the two encoders
\* on every record, a refusal releases what was built and keeps the text
\* that was there, and a record reads back.
WalksAgree == sel = "typed" => Typed!WalksAgree

\* Http2Wire: However the wire is cut, the scanner sees the frames that were
\* sent, refuses no peer that keeps to the protocol, and counts limits for
\* the stream they belong to (beans_h2_wire_scan).
WireFaithful == sel = "wire" => Wire!WireFaithful

\* Http2Send: What leaves is a sequence of whole frames, and each stream's
\* bytes are a prefix of its body, ended once (beans_h2_pull_outgoing).
BodiesFaithful == sel = "send" => Send!BodiesFaithful

\* Http1Events: However the message is cut and paused, the events spell it
\* out once and in order, spans lie in the piece they came from, and nothing
\* follows an error.
EventsFaithful == sel = "events" => Events!EventsFaithful

\* WebSocketPump: The program gets a prefix of the peer's messages without a
\* gap, text is UTF-8, and an end is told to the peer.
MessagesFaithful == sel = "socket" => Socket!MessagesFaithful

\* PollEvents: The three backends report what is registered and ready, under
\* the token it was registered with, hangups and wakes included.
ReportsFaithful == sel = "ready" => Ready!ReportsFaithful

\* Decimals are exact rounded once, and so are the limbs they are made of
\* (Decimal).
DecimalsExact == DecimalExact /\ LimbsExact

\* JSON text reads back, and decoders and encoders of a schema agree (JsonText,
\* JsonTyped).
JsonFaithful == TextFaithful /\ WalksAgree

\* Messages arrive whole and in order however the bytes are cut (Http1Events,
\* WebSocketPump).
StreamsFaithful == EventsFaithful /\ MessagesFaithful

\* Both halves of an HTTP/2 connection keep framing, streams and bodies
\* apart (Http2Wire, Http2Send).
Http2Faithful == WireFaithful /\ BodiesFaithful

=============================================================================
