---------------------------- MODULE SocketBytes -----------------------------
(* What goes over a TCP stream: write_all, write_vectored and                *)
(* write_vectored_text on one side, read, read_exact, read_to_end and        *)
(* read_into on the other, over a kernel that takes and gives any part.      *)
EXTENDS Integers, Sequences

CONSTANTS Heads, Bodies,  \* buffers to send: sequences of bytes
          BufMax,         \* the most one buffer of a call may carry
          Chunk,          \* the most one recv of read_exact asks for
          Wanted,         \* byte counts given to reads
          KernelRoom      \* bytes the kernel holds between the two

VARIABLES head, body,  \* the response under way
          offset,      \* bytes of it that went out
          inflight,    \* bytes in the kernel
          given,       \* everything handed to write so far
          eof,         \* the sender has shut down its half
          request,     \* the read under way: [mode, limit, got]
          taken,       \* everything reads have returned
          answers      \* of the last read: [mode, limit, n] or an error

bytesVars == <<head, body, offset, inflight, given, eof, request, taken, answers>>
NoRead == [mode |-> "none", limit |-> 0, got |-> <<>>]
NoAnswer == [mode |-> "none", limit |-> 0, n |-> 0, err |-> FALSE]

BytesInit ==
    /\ head \in Heads /\ body \in Bodies /\ offset = 0 /\ inflight = <<>> /\ given = head \o body
    /\ eof = FALSE /\ request = NoRead /\ taken = <<>> /\ answers = NoAnswer

Total == Len(head) + Len(body)

\* The two buffers of beans_net_send_pair_wait, from the offset into both.
First == IF offset < Len(head) THEN SubSeq(head, offset + 1, Len(head))
         ELSE SubSeq(body, (offset - Len(head)) + 1, Len(body))
\* The part a 32-bit length can name.
Piece(s) == SubSeq(s, 1, IF Len(s) < BufMax THEN Len(s) ELSE BufMax)
Second == IF offset < Len(head) /\ Len(Piece(First)) = Len(First) THEN Piece(body) ELSE <<>>

\* One send: the kernel takes a part of what it has room for; would-block is
\* waited out, and changes nothing.
SendPart ==
    /\ offset < Total /\ ~eof /\ Len(inflight) < KernelRoom
    /\ \E n \in 1..Len(Piece(First) \o Second) :
          /\ Len(inflight) + n <= KernelRoom
          /\ inflight' = inflight \o SubSeq(Piece(First) \o Second, 1, n)
          /\ offset' = offset + n
    /\ UNCHANGED <<head, body, given, eof, request, taken, answers>>

\* The next response, or the end of them.
NextResponse ==
    /\ offset = Total /\ ~eof /\ Len(given) < KernelRoom + 2
    /\ head' \in Heads /\ body' \in Bodies /\ offset' = 0
    /\ given' = given \o head' \o body'
    /\ UNCHANGED <<inflight, eof, request, taken, answers>>
ShutdownWrite ==
    /\ ~eof /\ offset = Total /\ eof' = TRUE
    /\ UNCHANGED <<head, body, offset, inflight, given, request, taken, answers>>

----------------------------------------------------------------------------
StartRead(mode, n) ==
    /\ request = NoRead
    /\ (mode # "end") => n > 0
    /\ request' = [mode |-> mode, limit |-> n, got |-> <<>>]
    /\ answers' = NoAnswer
    /\ UNCHANGED <<head, body, offset, inflight, given, eof, taken>>

Room == request.limit - Len(request.got)
\* What one recv asks for: read_exact and read_to_end go by chunks.
Asks == IF request.mode = "some" THEN request.limit ELSE IF Room < Chunk THEN Room ELSE Chunk

More == request.mode # "some" /\ Len(request.got) < request.limit
Recv ==
    /\ request # NoRead /\ inflight # <<>> /\ (request.got = <<>> \/ More) /\ request.limit > 0
    /\ \E n \in 1..Len(inflight) :
          /\ n <= Asks
          /\ request' = [request EXCEPT !.got = @ \o SubSeq(inflight, 1, n)]
          /\ inflight' = SubSeq(inflight, n + 1, Len(inflight))
    /\ UNCHANGED <<head, body, offset, given, eof, taken, answers>>

\* read returns after one recv; the others when they have it all.
ReturnRead ==
    /\ request # NoRead /\ request.got # <<>> /\ ~More
    /\ taken' = taken \o request.got
    /\ answers' = [mode |-> request.mode, limit |-> request.limit, n |-> Len(request.got), err |-> FALSE]
    /\ request' = NoRead /\ UNCHANGED <<head, body, offset, inflight, given, eof>>

\* The end of the stream is the end of read and read_to_end, and an error for
\* read_exact, which drops what it has.
ShortIsError == request.mode = "exact"
ReturnEof ==
    /\ request # NoRead /\ eof /\ inflight = <<>> /\ (request.got = <<>> \/ More)
    /\ answers' = [mode |-> request.mode, limit |-> request.limit, n |-> Len(request.got), err |-> ShortIsError]
    /\ taken' = IF ShortIsError THEN given ELSE taken \o request.got
    /\ request' = NoRead /\ UNCHANGED <<head, body, offset, inflight, given, eof>>

BytesNext ==
    \/ SendPart \/ NextResponse \/ ShutdownWrite
    \/ \E mode \in {"some", "exact", "end"}, n \in Wanted : StartRead(mode, n)
    \/ Recv \/ ReturnRead \/ ReturnEof
BytesSpec == BytesInit /\ [][BytesNext]_bytesVars

----------------------------------------------------------------------------
\* What was read, what a read holds and what is under way are together the
\* beginning of what was written: no byte of a head or a body is lost, sent
\* twice or sent in the other's place, however the kernel cuts the writes and
\* the reads.
StreamIntact ==
    answers.err \/ taken \o request.got \o inflight = SubSeq(given, 1, (Len(given) - Total) + offset)

\* read_exact answers with exactly what was asked for or with an error, and
\* no read answers with more than its limit.
ReadsAreExact ==
    ~answers.err => /\ answers.mode = "exact" => answers.n = answers.limit
                    /\ answers.n <= answers.limit

\* What reads return is what writes were given, in order, however the kernel
\* cuts it, and an exact read is exact or an error.
TransferExact == StreamIntact /\ ReadsAreExact
=============================================================================
