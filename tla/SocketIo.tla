------------------------------ MODULE SocketIo ------------------------------
(* One socket of std.net, used now by a fiber and now by a plain thread.  A  *)
(* fiber needs its descriptor nonblocking, a thread of a program that asked  *)
(* for nothing needs it to block, and the two facts a stream caches about    *)
(* the mode have to follow every change.  Readiness is a hint: what poll     *)
(* promised may be gone when the call is made.  How sockets are made and what *)
(* goes over a stream are modules of their own.                              *)
EXTENDS SocketOpen, SocketBytes

CONSTANTS Kinds,      \* of "stream", "datagram", "listener"
          Limits,     \* deadlines in ticks; 0 is none
          MaxStolen,  \* times what was ready goes away again
          MaxData     \* arrivals

VARIABLES kind,       \* what the socket is
          polls,      \* the fibers' poller could be made
          where,      \* "fiber" or "thread": who owns the socket now
          nb,         \* O_NONBLOCK of the descriptor
          user,       \* the program asked for nonblocking (TcpStream.nonblocking)
          prepared,   \* TcpStream.fiber_prepared
          limit,      \* the deadline of the socket, or of the accept
          readable,   \* something to take is queued in the kernel
          op,         \* the call under way: [name, pc, left, spent]
          result,     \* of the last call
          stolen, arrived

sockVars == <<kind, polls, where, nb, user, prepared, limit, readable, op, result, stolen, arrived>>
NoCall == [name |-> "none", pc |-> "idle", left |-> 0, spent |-> 0]
Fiber == where = "fiber"
Stands(point) == op.pc = point

IoInit ==
    /\ kind \in Kinds /\ polls \in BOOLEAN /\ where \in {"fiber", "thread"}
    /\ limit \in Limits
    /\ nb = FALSE /\ user = FALSE /\ prepared = FALSE
    /\ readable = FALSE /\ op = NoCall /\ result = "none" /\ stolen = 0 /\ arrived = 0

\* The calls: raw ones (recv, send, send_text, recv_exact, recv_to_end,
\* recv_from, send_to), the waiting ones that cache the preparation
\* (read_into, write_from, write_vectored), the immediate ones, and accept.
OpsOf == CASE kind = "stream" -> {"raw", "cached", "first", "try"}
           [] kind = "datagram" -> {"raw"}
           [] kind = "listener" -> {"accept", "try"}

----------------------------------------------------------------------------
\* A unique value that implements Send: its owner hands it over between calls.
HandOver ==
    /\ Stands("idle")
    /\ where' = IF Fiber THEN "thread" ELSE "fiber"
    /\ result' = "none"
    /\ UNCHANGED <<kind, polls, nb, user, prepared, limit, readable, op, stolen, arrived>>

\* Mutant of Forgets: the cached preparation survives a change of mode.
ForgetsNot(on) == prepared
Forgets(on) == FALSE
SetNonblocking(on) ==
    /\ Stands("idle") /\ on # user
    /\ nb' = on /\ user' = on /\ prepared' = Forgets(on)
    /\ result' = "none"
    /\ UNCHANGED <<kind, polls, where, limit, readable, op, stolen, arrived>>

\* prepare_blocking_thread: fiber-only mode must not reach a thread's raw call.
Normalises == kind = "stream" /\ ~user /\ ~Fiber
\* net_fiber_prepare: only on a fiber, and only with a poller to wait in.
Prepares == Fiber /\ polls

Begin(name) == op' = [name |-> name, pc |-> IF name \in {"first", "accept"} THEN "early" ELSE "call",
                      left |-> limit, spent |-> 0]

StartRaw ==
    /\ "raw" \in OpsOf /\ Stands("idle")
    /\ nb' = IF Prepares THEN TRUE ELSE IF Normalises THEN FALSE ELSE nb
    /\ prepared' = (prepared /\ ~Normalises)
    /\ Begin("raw")
    /\ result' = "none"
    /\ UNCHANGED <<kind, polls, where, user, limit, readable, stolen, arrived>>

\* read_into and its kind: the cached bit skips the preparation.
StartCached(name) ==
    /\ name \in OpsOf \cap {"cached", "first"} /\ Stands("idle")
    /\ nb' = IF ~prepared /\ Prepares THEN TRUE ELSE nb
    /\ prepared' = (prepared \/ Fiber)
    /\ Begin(name)
    /\ result' = "none"
    /\ UNCHANGED <<kind, polls, where, user, limit, readable, stolen, arrived>>

\* try_read_into, try_write_from, try_accept: refused unless the program
\* made the socket nonblocking.
StartTry ==
    /\ "try" \in OpsOf /\ Stands("idle") /\ user
    /\ Begin("try") /\ result' = "none"
    /\ UNCHANGED <<kind, polls, where, nb, user, prepared, limit, readable, stolen, arrived>>

StartAccept ==
    /\ "accept" \in OpsOf /\ Stands("idle")
    /\ nb' = (nb \/ Prepares)
    /\ Begin("accept") /\ result' = "none"
    /\ UNCHANGED <<kind, polls, where, user, prepared, limit, readable, stolen, arrived>>

\* The wait before the first call: accept always, read_into_waiting on a fiber.
Early ==
    /\ Stands("early")
    /\ op' = [op EXCEPT !.pc = IF op.name = "accept" \/ Fiber THEN "wait" ELSE "call"]
    /\ UNCHANGED <<kind, polls, where, nb, user, prepared, limit, readable, result, stolen, arrived>>

----------------------------------------------------------------------------
Answer(r) == result' = r /\ op' = NoCall

\* The system call: it takes what is there, says would-block, or sits in the
\* kernel until something comes.
Syscall ==
    /\ Stands("call")
    /\ IF readable THEN Answer("ok") /\ readable' = FALSE
       ELSE /\ op' = [op EXCEPT !.pc = IF nb THEN "blocked" ELSE "kernel"]
            /\ UNCHANGED <<readable, result>>
    /\ UNCHANGED <<kind, polls, where, nb, user, prepared, limit, stolen, arrived>>
KernelTakes ==
    /\ Stands("kernel") /\ readable /\ Answer("ok") /\ readable' = FALSE
    /\ UNCHANGED <<kind, polls, where, nb, user, prepared, limit, stolen, arrived>>
\* SO_RCVTIMEO ends a blocking call with would-block; a listener has none.
KernelExpires ==
    /\ Stands("kernel") /\ kind # "listener" /\ limit > 0 /\ op.left = 0
    /\ op' = [op EXCEPT !.pc = "blocked"]
    /\ UNCHANGED <<kind, polls, where, nb, user, prepared, limit, readable, result, stolen, arrived>>

\* net_wait_after_block off a fiber: a descriptor that came over nonblocking.
WaitsOnThread == op.name \in {"cached", "first"} /\ ~user /\ nb

\* After would-block: a fiber parks, a thread may wait, and otherwise it is
\* the answer.
WaitsAfter == op.name = "accept" \/ (op.name # "try" /\ (Fiber \/ WaitsOnThread))

\* What the next wait is given: accept counts from its own deadline, the rest
\* start the socket's deadline again.
Budget == IF op.name = "accept" THEN op.left ELSE limit
Blocked ==
    /\ Stands("blocked")
    /\ IF WaitsAfter THEN op' = [op EXCEPT !.pc = "wait", !.left = Budget] /\ result' = result
       ELSE Answer(IF limit > 0 /\ op.left = 0 THEN "timeout" ELSE "wouldblock")
    /\ UNCHANGED <<kind, polls, where, nb, user, prepared, limit, readable, stolen, arrived>>

\* net_wait, parked or in poll: readiness, or the end of its time.
WaitReady ==
    /\ Stands("wait") /\ readable /\ op' = [op EXCEPT !.pc = "call"]
    /\ UNCHANGED <<kind, polls, where, nb, user, prepared, limit, readable, result, stolen, arrived>>
CallTimesOut ==
    /\ Stands("wait") /\ limit > 0 /\ op.left = 0 /\ Answer("timeout")
    /\ UNCHANGED <<kind, polls, where, nb, user, prepared, limit, readable, stolen, arrived>>

Arrive ==
    /\ ~readable /\ arrived < MaxData /\ readable' = TRUE /\ arrived' = arrived + 1
    /\ UNCHANGED <<kind, polls, where, nb, user, prepared, limit, op, result, stolen>>
\* A connection aborted, a datagram with a bad checksum, a full buffer again.
Steal ==
    /\ readable /\ stolen < MaxStolen /\ readable' = FALSE /\ stolen' = stolen + 1
    /\ UNCHANGED <<kind, polls, where, nb, user, prepared, limit, op, result, arrived>>
IoTick ==
    /\ op.pc \in {"wait", "kernel"} /\ limit > 0
    /\ op.pc = "wait" => op.left > 0
    /\ op.spent <= limit
    /\ op' = [op EXCEPT !.left = IF @ > 0 THEN @ - 1 ELSE 0, !.spent = @ + 1]
    /\ UNCHANGED <<kind, polls, where, nb, user, prepared, limit, readable, result, stolen, arrived>>

IoNext ==
    \/ HandOver \/ \E on \in BOOLEAN : SetNonblocking(on)
    \/ StartRaw \/ \E n \in {"cached", "first"} : StartCached(n)
    \/ StartTry \/ StartAccept \/ Early
    \/ Syscall \/ KernelTakes \/ KernelExpires \/ Blocked \/ WaitReady \/ CallTimesOut
    \/ Arrive \/ Steal \/ IoTick
IoSpec == IoInit /\ [][IoNext]_sockVars

----------------------------------------------------------------------------
\* A fiber never sits in a system call: it would stop every other fiber of
\* its worker.  The cached preparation is true whenever it is relied on.
FiberNeverBlocks == (Fiber /\ polls) => ~Stands("kernel")

\* A thread whose program left the stream blocking never hears would-block,
\* not even for a stream that a fiber made nonblocking before.  (A datagram
\* socket is not normalised.)
StreamNeverSaysWouldBlock ==
    (kind # "datagram" /\ ~Fiber /\ ~user) => result # "wouldblock"

\* The immediate calls never wait, on a fiber or a thread.
TryIsImmediate == op.name = "try" => op.pc \in {"call", "blocked"}

\* On a fiber an accept with a deadline has answered by then, however often
\* what was ready went away again.
FiberAcceptInTime ==
    (op.name = "accept" /\ Fiber /\ polls /\ limit > 0) => op.spent <= limit

\* Whoever used the socket before, a fiber never blocks its worker, a
\* thread's stream never answers WouldBlock, a try returns at once and a
\* fiber's accept keeps its deadline.
ModesRight == FiberNeverBlocks /\ StreamNeverSaysWouldBlock /\ TryIsImmediate
    /\ FiberAcceptInTime

\* Opening a socket leaves nothing behind, what goes over it arrives, and it
\* blocks or not as its user asked (SocketOpen, SocketBytes, SocketIo).
SocketsFaithful == OpeningClean /\ TransferExact /\ ModesRight
=============================================================================
