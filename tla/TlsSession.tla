----------------------------- MODULE TlsSession -----------------------------
(***************************************************************************)
(* The byte pump of src/runtime/net/beans_net_tls.c: a client and a server *)
(* session, each on one of the three backends (OpenSSL, SChannel,          *)
(* SecureTransport), driven by std.tls over a stream socket that delivers  *)
(* ciphertext in pieces of any size and may be cut at any point.           *)
(*                                                                         *)
(* A TLS record is two units, so that it can arrive in halves.  Application*)
(* data are numbered bytes.  The record layer and the handshake messages   *)
(* are the platform's; they are modelled from what the backends ask of     *)
(* them (hello, server flight, finished, alert, close_notify).             *)
(***************************************************************************)
EXTENDS Naturals, Sequences, SequencesExt

CONSTANTS Backends,   \* the pairs of backends that meet, client first, each
                      \* "openssl", "schannel" or "securetransport"
          Names, Default, \* server names with an identity of their own; the default's
          Hellos,     \* what a client may ask for: a name and a set of protocols
          Protocols,  \* the server's ALPN list, in order of preference
          FirstCap,   \* first capacity of a buffer
          MaxMessage, \* SChannel's cbMaximumMessage, in bytes
          Talkers, MaxBytes \* the sides that write, and a bound on their bytes

VARIABLES session, \* the two sessions
          wire,  \* ciphertext on its way to a side
          fin,   \* the end of that stream
          trust, \* the platform verifier accepts the server's chain and name
          cut    \* the network dropped the connection

sessionVars == <<session, wire, fin, trust, cut>>
Sides == {"client", "server"}
Peer(e) == IF e = "client" THEN "server" ELSE "client"

(***************************************************************************)
(* beans_tls_buf: d is data[0..len), head the consumed prefix.             *)
(***************************************************************************)
EmptyBuf == [d |-> <<>>, head |-> 0, cap |-> 0]
Content(b) == SubSeq(b.d, b.head + 1, Len(b.d))
Rewound(b) == IF b.head = Len(b.d) THEN [b EXCEPT !.d = <<>>, !.head = 0] ELSE b
Doubled[c \in Nat, need \in Nat] == IF c >= need THEN c ELSE Doubled[2 * c, need]
Compacted(b) == [b EXCEPT !.d = Content(b), !.head = 0]
Cleared(b, more) == IF Len(b.d) + more > b.cap /\ b.head > 0 THEN Compacted(b) ELSE b
Grown(b, need) ==
    IF need <= b.cap THEN b ELSE [b EXCEPT !.cap = Doubled[IF @ = 0 THEN FirstCap ELSE @, need]]
Pushed(b, us) == [Grown(b, Len(b.d) + Len(us)) EXCEPT !.d = @ \o us]
\* beans_tls_buf_reserve and beans_tls_buf_push.
BufPush(b, us) == Pushed(Cleared(Rewound(b), Len(us)), us)
\* beans_tls_buf_take and beans_tls_buf_discard.
Discard(b, n) == Rewound([b EXCEPT !.head = @ + n])

(***************************************************************************)
(* Records (external).                                                     *)
(***************************************************************************)
Record(k, v) == << <<k, v, 1>>, <<k, v, 2>> >>
\* SecureTransport pulls what is there into its own record buffer through
\* beans_tls_read_cb; the other two read a whole record or nothing.
PulledUnits(x, c, n) == [x EXCEPT !.rec = @ \o SubSeq(c, 1, n), !.in = Discard(@, n)]
Pulled(x) ==
    IF x.be # "securetransport" \/ Len(x.rec) = 2 THEN x
    ELSE PulledUnits(x, Content(x.in), IF Len(Content(x.in)) < 2 - Len(x.rec)
                                       THEN Len(Content(x.in)) ELSE 2 - Len(x.rec))
Offered(x) == IF x.be = "securetransport" THEN x.rec ELSE Content(x.in)
HasRecord(x) == Len(Offered(x)) >= 2
First(x) == Offered(x)[1]
\* Mutant: the whole input is consumed with the first record.
UsedAll(x) == [x EXCEPT !.in = Discard(@, Len(Content(@))), !.rec = <<>>]
\* beans_tls_win_consume_input keeps SECBUFFER_EXTRA.
Used(x) ==
    IF x.be = "securetransport" THEN [x EXCEPT !.rec = <<>>] ELSE [x EXCEPT !.in = Discard(@, 2)]
\* beans_tls_write_cb and beans_tls_win_append_output.
Emit(x, k, v) == [x EXCEPT !.out = BufPush(@, Record(k, v))]

(***************************************************************************)
(* Handshake.                                                              *)
(***************************************************************************)
\* beans_tls_ossl_sni: an exact name switches the context.
OsslSni(name) == IF name \in Names THEN name ELSE Default
\* beans_tls_win_select_identity, on the name beans_tls_win_client_name finds
\* in the complete hello.
SchannelIdentity(name) == IF name # "" /\ name \in Names THEN name ELSE Default
\* The ClientHello break of SecureTransport.
StIdentity(name) == IF name # "" /\ name \in Names THEN name ELSE Default
ChosenIdentity(be, name) ==
    CASE be = "openssl" -> OsslSni(name) [] be = "schannel" -> SchannelIdentity(name)
      [] OTHER -> StIdentity(name)
\* beans_tls_ossl_alpn, and the loop at SecureTransport's ClientHello break:
\* the server's first choice among the offers.
OsslAlpn(offers) ==
    LET hits == {i \in DOMAIN Protocols : Protocols[i] \in offers}
    IN  IF hits = {} THEN "" ELSE Protocols[CHOOSE i \in hits : \A j \in hits : i <= j]

\* SSL_get_verify_result, beans_tls_evaluate and beans_tls_win_verify.
Verified == trust
StVerified == trust
SchannelVerified == trust

Result(x, status) == [x |-> x, status |-> status]
Flight(x, pick) == [Emit(x, "flight", pick) EXCEPT !.chosen = pick]
\* The platform's handshake (external): it runs until it needs input, and
\* stops at the peer's authentication where the backend asks it to.
EngineOn(x, e, r) ==
    CASE e = "client" /\ x.phase = "start" ->
           Result([Emit(x, "hello", x.hello) EXCEPT !.phase = "sent"], "want")
      [] e = "client" /\ x.phase = "sent" /\ r[1] = "flight" ->
           Result([Used(x) EXCEPT !.phase = "auth", !.chosen = r[2]], "auth")
      [] e = "client" /\ x.phase = "auth" ->
           Result([Emit(x, "finish", "") EXCEPT !.phase = "done"], "ok")
      [] e = "server" /\ x.phase = "start" /\ r[1] = "hello" ->
           Result([Flight(Used(x), <<ChosenIdentity(x.be, r[2].name), OsslAlpn(r[2].alpn)>>)
                     EXCEPT !.phase = "sent"], "want")
      [] e = "server" /\ x.phase = "sent" /\ r[1] = "finish" ->
           Result([Used(x) EXCEPT !.phase = "done"], "ok")
      [] x.phase = "done" -> Result(x, "ok")
      [] r[1] = "none" /\ x.phase \in {"start", "sent"} /\ (e = "client" => x.phase = "sent") ->
           Result(x, "want")
      [] OTHER -> Result(Used(x), "failed")
Engine(x, e) == EngineOn(x, e, IF HasRecord(x) THEN First(x) ELSE <<"none">>)
Established(r) == Result([r.x EXCEPT !.done = TRUE], "ok")

\* beans_tls_handshake.  OpenSSL verifies inside the library and alerts the
\* peer; the result is looked at once more.
OsslOutcome(r, e) ==
    CASE r.status = "auth" /\ ~Verified -> Result(Emit(r.x, "alert", ""), "failed")
      [] r.status = "auth" /\ Verified -> Established(Engine(r.x, e))
      [] r.status = "ok" -> Established(r)
      [] OTHER -> r
\* SecureTransport breaks out at the server's authentication, and the same
\* call continues after it has been evaluated.
StOutcome(r, e) ==
    CASE r.status = "auth" -> IF StVerified THEN Established(Engine(r.x, e)) ELSE Result(r.x, "failed")
      [] r.status = "ok" -> Established(r)
      [] OTHER -> r
\* SChannel has built the client's last flight when the chain is verified.
SchannelOutcome(r, e) ==
    CASE r.status = "ok" /\ e = "client" /\ ~SchannelVerified -> Result(r.x, "failed")
      [] r.status = "ok" /\ (e = "server" \/ SchannelVerified) -> Established(r)
      [] OTHER -> r
Continued(r, e) == IF r.status = "auth" THEN Engine(r.x, e) ELSE r
HandshakeCall(x, e) ==
    CASE x.be = "openssl" -> OsslOutcome(Engine(x, e), e)
      [] x.be = "schannel" ->
           IF x.done THEN Result(x, "ok") ELSE SchannelOutcome(Continued(Engine(x, e), e), e)
      [] OTHER -> StOutcome(Engine(x, e), e)

(***************************************************************************)
(* Data paths.  A read gives a count, or "want", "closed", "protocol".     *)
(***************************************************************************)
\* What a record holds, read once: SSL_read, SSLRead, DecryptMessage.
Decrypted(x) ==
    CASE First(x)[1] = "data" -> [Used(x) EXCEPT !.plain = @ \o First(x)[2]]
      [] First(x)[1] = "close" -> [Used(x) EXCEPT !.closed = TRUE]
      [] OTHER -> Used(x)
Broken(x) == HasRecord(x) /\ First(x)[1] \notin {"data", "close"}
Taken(x, n) == [x EXCEPT !.got = @ \o SubSeq(x.plain, 1, n), !.plain = SubSeq(@, n + 1, Len(@))]
Give(x, max) == Taken(x, IF Len(x.plain) < max THEN Len(x.plain) ELSE max)

\* What a read reports once a record has been looked at.
Report(x, max) ==
    CASE x.plain # <<>> -> Result(Give(x, max), "count")
      [] OTHER -> Result(x, IF x.closed THEN "closed" ELSE "want")

SchannelRead(x, max) ==
    CASE x.plain # <<>> \/ ~HasRecord(x) -> Report(x, max)
      [] x.plain = <<>> /\ Broken(x) -> Result(Used(x), "protocol")
      [] OTHER -> Report(Decrypted(x), max)

OsslRead(x, max) ==
    CASE x.plain # <<>> \/ x.closed \/ ~HasRecord(x) -> Report(x, max)
      [] x.plain = <<>> /\ ~x.closed /\ Broken(x) -> Result(Used(x), "protocol")
      [] OTHER -> Report(Decrypted(x), max)

\* SecureTransport drains every record it can, up to max, in one call.
StStep(x, max) ==
    IF Len(x.plain) < max /\ HasRecord(x) /\ ~Broken(x) /\ ~x.closed
    THEN Pulled(Decrypted(x)) ELSE x
StReport(x, max) ==
    IF x.plain = <<>> /\ ~x.closed /\ Broken(x) THEN Result(Used(x), "protocol")
    ELSE Report(x, max)
StRead(x, max) == StReport(StStep(StStep(x, max), max), max)

ReadCall(x, max) ==
    CASE x.be = "schannel" -> SchannelRead(x, max) [] x.be = "openssl" -> OsslRead(x, max)
      [] OTHER -> StRead(x, max)

\* beans_tls_write: OpenSSL and SecureTransport take the whole buffer,
\* SChannel at most one message of cbMaximumMessage bytes.
Accepted(x, n) == IF x.be = "schannel" /\ n > MaxMessage THEN MaxMessage ELSE n
Written(x, bytes) == [Emit(x, "data", bytes) EXCEPT !.sent = @ \o bytes]
WriteCall(x, n) == Written(x, [i \in 1..Accepted(x, n) |-> Len(x.sent) + i])

(***************************************************************************)
(* std.tls: the calls a program makes, and the pump under them.            *)
(***************************************************************************)
Session(be, hello) ==
    [be |-> be, hello |-> hello, phase |-> "start", in |-> EmptyBuf, out |-> EmptyBuf,
     rec |-> <<>>, plain |-> <<>>, done |-> FALSE, closed |-> FALSE, close_sent |-> FALSE,
     chosen |-> <<>>, call |-> "handshake", ended |-> "open", got |-> <<>>, sent |-> <<>>,
     socket |-> TRUE]

SessionInit ==
    /\ \E b \in Backends, h \in Hellos :
         session = [client |-> Session(b[1], h), server |-> Session(b[2], [name |-> "", alpn |-> {}])]
    /\ wire = [e \in Sides |-> <<>>] /\ fin = [e \in Sides |-> FALSE]
    /\ trust \in BOOLEAN /\ cut = FALSE

\* flush_outgoing runs after every handshake call.
Flushed(status) == TRUE

\* Sends what is queued and stores the session; a closed socket takes nothing.
SendStored(e, x, flush) ==
    /\ session' = [session EXCEPT ![e] = IF flush THEN [x EXCEPT !.out = Discard(@, Len(Content(@)))] ELSE x]
    /\ wire' = IF flush /\ ~cut THEN [wire EXCEPT ![Peer(e)] = @ \o Content(x.out)] ELSE wire

\* drive_handshake: a failed one drops the stream and its socket.
Handshake(e) ==
    /\ session[e].call = "handshake"
    /\ \E r \in {HandshakeCall(Pulled(session[e]), e)} :
         /\ SendStored(e, CASE r.status = "ok" -> [r.x EXCEPT !.call = "none"]
                        [] r.status = "want" -> [r.x EXCEPT !.call = "handshake pump"]
                        [] r.status = "failed" ->
                             [r.x EXCEPT !.call = "none", !.ended = "handshake", !.socket = FALSE],
                  Flushed(r.status))
         /\ fin' = IF r.status = "failed" THEN [fin EXCEPT ![Peer(e)] = TRUE] ELSE fin
    /\ UNCHANGED <<trust, cut>>

SocketEnd == "eof"

\* deinit: the session and the descriptor go, without a close_notify.
Freed(x) == [x EXCEPT !.call = "none", !.socket = FALSE]

\* A pump that ends with an error: a handshake's stream is dropped with it, an
\* established one is only dead.
PumpEnds(e, why) ==
    LET x == session[e]
        y == IF x.call = "handshake pump" THEN Freed(x) ELSE [x EXCEPT !.call = "none"]
    IN  /\ session' = [session EXCEPT ![e] = [y EXCEPT !.ended = why]]
        /\ fin' = IF y.socket THEN fin ELSE [fin EXCEPT ![Peer(e)] = TRUE]
        /\ UNCHANGED <<wire, trust, cut>>

\* pump_incoming: one socketful is fed, or the stream has ended.  A read that
\* has made its 100000 rounds returns an error and leaves the stream alive.
Pump(e) ==
    /\ session[e].call \in {"handshake pump", "read pump"}
    /\ \/ \E n \in 1..Len(wire[e]) :
         \E next \in IF session[e].call = "read pump" THEN {"read", "none"} ELSE {"handshake"} :
            /\ session' = [session EXCEPT ![e].in = BufPush(@, SubSeq(wire[e], 1, n)), ![e].call = next]
            /\ wire' = [wire EXCEPT ![e] = SubSeq(@, n + 1, Len(@))]
            /\ UNCHANGED <<fin, trust, cut>>
       \/ wire[e] = <<>> /\ fin[e] /\ PumpEnds(e, SocketEnd)

\* drive_handshake gives up after 100 rounds.  A piece may hold a single byte,
\* so this can be any round that was fed.
GivesUp(e) ==
    session[e].call = "handshake pump" /\ wire[e] # <<>> /\ PumpEnds(e, "protocol")

\* io_timeout: nothing came in time.
TimesOut(e) ==
    /\ session[e].call \in {"handshake pump", "read pump"}
    /\ wire[e] = <<>> /\ ~fin[e] /\ PumpEnds(e, "timeout")

Usable(e) == session[e].done /\ session[e].ended = "open" /\ session[e].socket

Read(e) ==
    /\ Usable(e) /\ session[e].call \in {"none", "read"}
    /\ \E max \in 1..2 : \E r \in {ReadCall(Pulled(session[e]), max)} :
         SendStored(e, CASE r.status = "count" -> [r.x EXCEPT !.call = "none"]
                    [] r.status = "want" -> [r.x EXCEPT !.call = "read pump"]
                    [] OTHER -> [r.x EXCEPT !.call = "none", !.ended = r.status],
               r.status = "want")
    /\ UNCHANGED <<fin, trust, cut>>

SendBytes(e) ==
    /\ Usable(e) /\ session[e].call = "none" /\ ~session[e].close_sent /\ e \in Talkers
    /\ \E n \in 1..2 :
         /\ Len(session[e].sent) + n <= MaxBytes
         /\ SendStored(e, WriteCall(session[e], n), TRUE)
    /\ UNCHANGED <<fin, trust, cut>>

\* shutdown_write: close_notify, then the socket's write side.
ShutdownWrite(e) ==
    /\ Usable(e) /\ session[e].call = "none" /\ ~session[e].close_sent
    /\ SendStored(e, [Emit(session[e], "close", "") EXCEPT !.close_sent = TRUE], TRUE)
    /\ fin' = [fin EXCEPT ![Peer(e)] = TRUE]
    /\ UNCHANGED <<trust, cut>>

Close(e) ==
    /\ Usable(e) /\ session[e].call = "none"
    /\ SendStored(e, [(IF session[e].close_sent THEN session[e] ELSE Emit(session[e], "close", ""))
                   EXCEPT !.close_sent = TRUE, !.socket = FALSE], TRUE)
    /\ fin' = [fin EXCEPT ![Peer(e)] = TRUE]
    /\ UNCHANGED <<trust, cut>>

\* The stream goes out of scope, or its owner unwinds from a wait.
Abandon(e) ==
    /\ session[e].socket /\ session[e].call \in {"none", "handshake pump", "read pump"}
    /\ session' = [session EXCEPT ![e] = Freed(@)]
    /\ fin' = [fin EXCEPT ![Peer(e)] = TRUE]
    /\ UNCHANGED <<wire, trust, cut>>

\* The network loses the connection, and some of what it was carrying.
Cut ==
    /\ ~cut /\ cut' = TRUE
    /\ \E keep \in 0..1 : wire' = [e \in Sides |-> IF keep < Len(wire[e]) THEN SubSeq(wire[e], 1, keep)
                                                    ELSE wire[e]]
    /\ fin' = [e \in Sides |-> TRUE]
    /\ UNCHANGED <<session, trust>>

SessionNext ==
    \/ \E e \in Sides : Handshake(e) \/ Pump(e) \/ GivesUp(e) \/ TimesOut(e) \/ Read(e)
                        \/ SendBytes(e) \/ ShutdownWrite(e) \/ Close(e) \/ Abandon(e)
    \/ Cut

SessionSpec == SessionInit /\ [][SessionNext]_sessionVars

(***************************************************************************)
(* Properties.                                                             *)
(***************************************************************************)
\* Whatever pieces the ciphertext arrives in and whatever backends meet, a
\* side reads the bytes the other wrote, in order, none lost, none twice.
BytesInOrder == \A e \in Sides : IsPrefix(session[e].got, session[Peer(e)].sent)

\* A clean end means everything was read and the peer said so; the end of a
\* stream without close_notify is never reported as one.
CleanEndIsComplete ==
    \A e \in Sides : session[e].ended = "closed" =>
        session[Peer(e)].close_sent /\ session[e].got = session[Peer(e)].sent

\* An established stream that reports a truncation the network did not cause
\* was left by its peer without a close_notify, and has read all the peer wrote;
\* and it never ends because a record makes no sense.
TruncationIsReal ==
    \A e \in Sides : session[e].done =>
        /\ session[e].ended \in {"open", "closed", "eof", "timeout"}
        /\ session[e].ended = "eof" /\ ~cut =>
             /\ ~session[Peer(e)].socket /\ ~session[Peer(e)].close_sent
             /\ session[e].got = session[Peer(e)].sent

\* Both sides agree on the identity and protocol the hello asked for, and a
\* client is only established with a chain the platform verified.
EstablishedIsAgreed ==
    /\ session.client.done => trust /\ session.client.chosen = session.server.chosen
    /\ session.server.done /\ trust => session.client.done

Met == \/ session.client.done /\ session.server.done
       \/ cut
       \/ \E e \in Sides : ~session[e].socket
HandshakeMoves == \E e \in Sides : Handshake(e) \/ Pump(e)

\* With a trusted chain and no cut, the handshake of both sides goes on until
\* both are established: they never wait for bytes the other has not sent.
HandshakesMeet == trust /\ ~Met => ENABLED <<HandshakeMoves>>_sessionVars

\* Two backends agree on what they established, every byte arrives in order, a
\* clean end means that all of them did, and a truncation that the network did
\* not cause that the peer was dropped (the byte pump of std.tls).
PumpFaithful == BytesInOrder /\ CleanEndIsComplete /\ TruncationIsReal
    /\ EstablishedIsAgreed
=============================================================================
