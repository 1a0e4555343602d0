------------------------------ MODULE Channel ------------------------------
(***************************************************************************)
(* Channel and Gate (runtime/beans_rt.c): a ring buffer under a mutex,     *)
(* fibers that park in first in, first out wait lines, plain threads that  *)
(* wait on condition variables, cancellation, and close.                   *)
(*                                                                         *)
(* One action is one critical section of the channel's mutex, or one step  *)
(* of a park outside it.  Park and resume behave as WakeToken says.        *)
(***************************************************************************)
EXTENDS Integers, Sequences, FiniteSets, SequencesExt

CONSTANTS FiberSet,   \* callers that run on a fiber
          ThreadSet,  \* callers that are plain OS threads
          Values,     \* the values sent: each at most once
          None,
          Cap,        \* the capacity asked for; below 1 it becomes 1
          Kinds,      \* what is created: "channel"; a "gate" is only waited on and opened
          MaxCalls,   \* bound: blocking calls begun
          MaxTries,   \* bound: try_send and try_recv calls
          MaxStrays   \* bound: spurious wakes

ASSUME ConstantsAssumption ==
    /\ FiberSet \intersect ThreadSet = {}
    /\ IsFiniteSet(FiberSet) /\ IsFiniteSet(ThreadSet)
    /\ None \notin Values
    /\ Cap \in Int
    /\ Kinds \subseteq {"channel", "gate"}
    /\ MaxCalls \in Nat
    /\ MaxTries \in Nat
    /\ MaxStrays \in Nat

Actors == FiberSet \union ThreadSet

\* beans_chan_new
cap == IF Cap > 0 THEN Cap ELSE 1

VARIABLES
    kind,            \* what was created
    q, head, count,  \* the ring buffer
    closed,
    send_line,       \* fibers waiting to send
    recv_line,       \* fibers waiting to receive, or for a gate to open
    pc,              \* actor -> where its call stands
    op,              \* actor -> "send", "recv", "gate" or "none"
    val,             \* actor -> the value it is sending, or None
    signalled,       \* fiber -> its waiter was popped from the line
    token,           \* fiber -> a wake is owed to it
    cancel_flag,     \* fiber -> cancellation was requested
    sent, received,  \* history: values accepted and values handed out
    calls, tries, strays

buffer  == <<kind, q, head, count, closed>>
lines   == <<send_line, recv_line>>
history == <<sent, received>>
bounds  == <<calls, tries, strays>>
vars == <<buffer, lines, pc, op, val, signalled, token, cancel_flag, history, bounds>>

TypeOK ==
    /\ kind \in {"channel", "gate"}
    /\ q \in [0..(cap - 1) -> Values \union {None}]
    /\ head \in 0..(cap - 1)
    /\ count \in 0..cap
    /\ closed \in BOOLEAN
    /\ send_line \in Seq(FiberSet)
    /\ recv_line \in Seq(FiberSet)
    /\ pc \in [Actors -> {"idle", "try", "line", "blocked", "unparked", "woken",
                          "refused", "cond", "ended"}]
    /\ op \in [Actors -> {"send", "recv", "gate", "none"}]
    /\ val \in [Actors -> Values \union {None}]
    /\ signalled \in [Actors -> BOOLEAN]
    /\ token \in [Actors -> BOOLEAN]
    /\ cancel_flag \in [Actors -> BOOLEAN]
    /\ sent \in Seq(Values)
    /\ received \in Seq(Values)
    /\ calls \in 0..MaxCalls
    /\ tries \in 0..MaxTries
    /\ strays \in 0..MaxStrays

Init ==
    /\ kind \in Kinds
    /\ q = [i \in 0..(cap - 1) |-> None]
    /\ head = 0
    /\ count = 0
    /\ closed = FALSE
    /\ send_line = <<>>
    /\ recv_line = <<>>
    /\ pc = [a \in Actors |-> "idle"]
    /\ op = [a \in Actors |-> "none"]
    /\ val = [a \in Actors |-> None]
    /\ signalled = [a \in Actors |-> FALSE]
    /\ token = [a \in Actors |-> FALSE]
    /\ cancel_flag = [a \in Actors |-> FALSE]
    /\ sent = <<>>
    /\ received = <<>>
    /\ calls = 0
    /\ tries = 0
    /\ strays = 0

-----------------------------------------------------------------------------
(* Waking.                                                                 *)

\* Threads waiting on the condition variable of the operation o.
Cond(ops) == {t \in ThreadSet : pc[t] = "cond" /\ op[t] \in ops}

\* pthread_cond_signal and beans_fiber_resume on the callers of W: their new pc.
WokenPc(p, W) == [a \in Actors |-> CASE a \in W /\ p[a] = "blocked" -> "unparked"
                                     [] a \in W /\ p[a] = "cond" -> "woken"
                                     [] OTHER -> p[a]]

\* fiber_line_pop marks the waiter, the resume unparks it or leaves the token.
Signal(W, a) ==
    /\ pc' = WokenPc([pc EXCEPT ![a] = "idle"], W)
    /\ signalled' = [b \in Actors |-> b # a /\ (signalled[b] \/ (b \in W /\ b \in FiberSet))]
    /\ token' = [b \in Actors |-> token[b] \/ (b \in W /\ b \in FiberSet /\ pc[b] # "blocked")]

\* Whom one freed slot or one new value wakes: the first fiber in line, or else
\* some waiting thread.
Woken(line, conds) == CASE line # <<>> -> {{Head(line)}}
                        [] line = <<>> /\ conds # {} -> {{t} : t \in conds}
                        [] OTHER -> {{}}

\* fiber_line_pop
Pop(line) == IF line = <<>> THEN <<>> ELSE Tail(line)

\* chan_wake_receiver, then the unlock
ChanWakeReceiver(a) ==
    /\ \E W \in Woken(recv_line, Cond({"recv", "gate"})) : Signal(W, a)
    /\ recv_line' = Pop(recv_line)
    /\ UNCHANGED send_line

\* chan_wake_sender, then the unlock
ChanWakeSender(a) ==
    /\ \E W \in Woken(send_line, Cond({"send"})) : Signal(W, a)
    /\ send_line' = Pop(send_line)
    /\ UNCHANGED recv_line

-----------------------------------------------------------------------------
(* The ring buffer.                                                        *)

\* Mutant: the free slot is looked for from the start of the ring.
PutValueAtCount(v) ==
    /\ q' = [q EXCEPT ![count % cap] = v]
    /\ count' = count + 1
    /\ sent' = Append(sent, v)
    /\ UNCHANGED <<kind, head, closed, received>>

\* The store of a sent value.
PutValue(v) ==
    /\ q' = [q EXCEPT ![(head + count) % cap] = v]
    /\ count' = count + 1
    /\ sent' = Append(sent, v)
    /\ UNCHANGED <<kind, head, closed, received>>

\* The load of a received value.
TakeValue ==
    /\ head' = (head + 1) % cap
    /\ count' = count - 1
    /\ received' = Append(received, q[head])
    /\ UNCHANGED <<kind, q, closed, sent>>

-----------------------------------------------------------------------------
(* Blocking calls.                                                         *)

Unsent(v) == v \notin Range(sent) /\ \A a \in Actors : val[a] # v

\* A caller enters send, recv or gate wait and goes for the lock.
Call(a, o, v) ==
    /\ pc[a] = "idle"
    /\ calls < MaxCalls
    /\ calls' = calls + 1
    /\ IF kind = "gate" THEN o = "gate" ELSE o \in {"send", "recv"}
    /\ IF o = "send" THEN v \in Values /\ Unsent(v) ELSE v = None
    /\ op' = [op EXCEPT ![a] = o]
    /\ val' = [val EXCEPT ![a] = v]
    /\ pc' = [pc EXCEPT ![a] = "try"]
    /\ UNCHANGED <<buffer, lines, signalled, token, cancel_flag, history, tries, strays>>

\* The caller holds the lock at the top of its wait loop: it has just entered, a
\* fiber's waiter was signalled (which wins over a cancellation), or a thread's
\* condition wait returned.
Looping(a) ==
    \/ pc[a] = "try"
    \/ a \in FiberSet /\ pc[a] \in {"woken", "refused"} /\ signalled[a]
    \/ a \in ThreadSet /\ pc[a] = "woken"

Satisfied(a) == CASE op[a] = "send" -> count < cap \/ closed
                  [] op[a] = "recv" -> count # 0 \/ closed
                  [] op[a] = "gate" -> closed
                  [] OTHER -> FALSE

Finished(a) == /\ op' = [op EXCEPT ![a] = "none"]
               /\ val' = [val EXCEPT ![a] = None]

\* beans_chan_send, once there is room
SendOk(a) ==
    /\ Looping(a) /\ op[a] = "send"
    /\ count < cap /\ ~closed
    /\ PutValue(val[a])
    /\ ChanWakeReceiver(a)
    /\ Finished(a)
    /\ UNCHANGED <<cancel_flag, bounds>>

\* beans_chan_recv, once there is a value
RecvOk(a) ==
    /\ Looping(a) /\ op[a] = "recv"
    /\ count # 0
    /\ TakeValue
    /\ ChanWakeSender(a)
    /\ Finished(a)
    /\ UNCHANGED <<cancel_flag, bounds>>

\* A send to a closed channel answers 0 (the caller panics), a receive from a
\* closed and drained one answers none, a wait on an open gate returns.
ClosedAnswer(a) ==
    /\ Looping(a)
    /\ closed
    /\ op[a] = "recv" => count = 0
    /\ Finished(a)
    /\ pc' = [pc EXCEPT ![a] = "idle"]
    /\ signalled' = [signalled EXCEPT ![a] = FALSE]
    /\ UNCHANGED <<buffer, lines, token, cancel_flag, history, bounds>>

\* chan_send_wait, chan_recv_wait, beans_gate_wait: into the line or onto the
\* condition variable, and the lock is released.
Wait(a) ==
    /\ Looping(a)
    /\ ~Satisfied(a)
    /\ pc' = [pc EXCEPT ![a] = IF a \in FiberSet THEN "line" ELSE "cond"]
    /\ signalled' = [signalled EXCEPT ![a] = FALSE]
    /\ send_line' = IF a \in FiberSet /\ op[a] = "send"
                      THEN Append(send_line, a) ELSE send_line
    /\ recv_line' = IF a \in FiberSet /\ op[a] # "send"
                      THEN Append(recv_line, a) ELSE recv_line
    /\ UNCHANGED <<buffer, op, val, token, cancel_flag, history, bounds>>

\* beans_fiber_park inside fiber_line_wait, the lock released.
Park(a) ==
    /\ pc[a] = "line"
    /\ pc' = [pc EXCEPT ![a] = CASE cancel_flag[a] -> "refused"
                                 [] ~cancel_flag[a] /\ token[a] -> "woken"
                                 [] OTHER -> "blocked"]
    /\ token' = [token EXCEPT ![a] = token[a] /\ cancel_flag[a]]
    /\ UNCHANGED <<buffer, lines, op, val, signalled, cancel_flag, history, bounds>>

\* The fiber runs again and the park gives its verdict.
Unpark(a) ==
    /\ pc[a] = "unparked"
    /\ pc' = [pc EXCEPT ![a] = IF cancel_flag[a] THEN "refused" ELSE "woken"]
    /\ UNCHANGED <<buffer, lines, op, val, signalled, token, cancel_flag, history, bounds>>

\* A spurious wake: the waiter keeps its place in line and parks again.
ParkAgain(a) ==
    /\ a \in FiberSet
    /\ pc[a] = "woken"
    /\ ~signalled[a]
    /\ pc' = [pc EXCEPT ![a] = "line"]
    /\ UNCHANGED <<buffer, lines, op, val, signalled, token, cancel_flag, history, bounds>>

\* Mutant: a cancellation wins over a signal that was delivered already.
LeaveLineAnyway(a) ==
    /\ pc[a] = "refused"
    /\ send_line' = RemoveFirst(send_line, a)
    /\ recv_line' = RemoveFirst(recv_line, a)
    /\ pc' = [pc EXCEPT ![a] = "ended"]
    /\ signalled' = [signalled EXCEPT ![a] = FALSE]
    /\ Finished(a)
    /\ UNCHANGED <<buffer, token, cancel_flag, history, bounds>>

\* A cancellation with no signal: out of the line, wherever it stands, and the
\* fiber unwinds.
LeaveLine(a) ==
    /\ pc[a] = "refused"
    /\ ~signalled[a]
    /\ send_line' = RemoveFirst(send_line, a)
    /\ recv_line' = RemoveFirst(recv_line, a)
    /\ pc' = [pc EXCEPT ![a] = "ended"]
    /\ Finished(a)
    /\ UNCHANGED <<buffer, signalled, token, cancel_flag, history, bounds>>

-----------------------------------------------------------------------------
(* Calls that never wait, and what comes from outside.                     *)

\* beans_chan_try_send, when it is not refused
TrySend(a, v) ==
    /\ pc[a] = "idle" /\ kind = "channel"
    /\ tries < MaxTries
    /\ tries' = tries + 1
    /\ Unsent(v)
    /\ ~closed /\ count # cap
    /\ PutValue(v)
    /\ ChanWakeReceiver(a)
    /\ UNCHANGED <<op, val, cancel_flag, calls, strays>>

\* beans_chan_try_recv, when it is not refused
TryRecv(a) ==
    /\ pc[a] = "idle" /\ kind = "channel"
    /\ tries < MaxTries
    /\ tries' = tries + 1
    /\ count # 0
    /\ TakeValue
    /\ ChanWakeSender(a)
    /\ UNCHANGED <<op, val, cancel_flag, calls, strays>>

\* Mutant: close signals the fibers and does not broadcast.
EveryoneInLine == Range(send_line) \union Range(recv_line)

\* Whom close wakes.
Everyone == Range(send_line) \union Range(recv_line) \union Cond({"send", "recv", "gate"})

\* beans_chan_close, beans_gate_open: every fiber in line is signalled, every
\* waiting thread woken.
Close(a) ==
    /\ pc[a] = "idle"
    /\ closed' = TRUE
    /\ Signal(Everyone, a)
    /\ send_line' = <<>>
    /\ recv_line' = <<>>
    /\ UNCHANGED <<kind, q, head, count, op, val, cancel_flag, history, bounds>>

\* beans_fiber_cancel: the flag, then the wake.
Cancel(a) ==
    /\ a \in FiberSet
    /\ ~cancel_flag[a]
    /\ pc[a] # "ended"
    /\ cancel_flag' = [cancel_flag EXCEPT ![a] = TRUE]
    /\ pc' = WokenPc(pc, {a})
    /\ token' = [token EXCEPT ![a] = token[a] \/ pc[a] # "blocked"]
    /\ UNCHANGED <<buffer, lines, op, val, signalled, history, bounds>>

\* A stale timer or a second resume, or a spurious condition wake.
Stray(a) ==
    /\ strays < MaxStrays
    /\ strays' = strays + 1
    /\ pc[a] \in {"line", "blocked", "cond"}
    /\ pc' = WokenPc(pc, {a})
    /\ token' = [token EXCEPT ![a] = token[a] \/ pc[a] = "line"]
    /\ UNCHANGED <<buffer, lines, op, val, signalled, cancel_flag, history, calls, tries>>

-----------------------------------------------------------------------------
Step(a) ==
    \/ SendOk(a)
    \/ RecvOk(a)
    \/ ClosedAnswer(a)
    \/ Wait(a)
    \/ Park(a)
    \/ Unpark(a)
    \/ ParkAgain(a)
    \/ LeaveLine(a)

Next == \E a \in Actors :
    \/ Step(a)
    \/ \E o \in {"send", "recv", "gate"}, v \in Values \union {None} : Call(a, o, v)
    \/ \E v \in Values : TrySend(a, v)
    \/ TryRecv(a)
    \/ Close(a)
    \/ Cancel(a)
    \/ Stray(a)

Spec == Init /\ [][Next]_vars

\* A caller inside a call is scheduled again whenever it can move: its fiber's
\* worker and the mutex let it through in the end.
Fairness == \A a \in Actors : WF_vars(Step(a))

FairSpec == Spec /\ Fairness

-----------------------------------------------------------------------------
(* Properties.                                                             *)

\* The callers on their way to look at the buffer again.
Coming(ops) == {a \in Actors : /\ op[a] \in ops
                               /\ \/ a \in FiberSet /\ signalled[a]
                                  \/ a \in ThreadSet /\ pc[a] = "woken"}

\* No value sits in the buffer beside a waiting receiver unless a receiver is on
\* its way for it: neither a cancellation, nor a barging try_recv, nor the mix of
\* fibers and threads swallows the wake that a send hands over.
ReceiverNotStranded ==
    (recv_line # <<>> \/ Cond({"recv"}) # {}) => count <= Cardinality(Coming({"recv"}))

\* The same for a free slot and the waiting senders.
SenderNotStranded ==
    (send_line # <<>> \/ Cond({"send"}) # {}) /\ ~closed
      => cap - count <= Cardinality(Coming({"send"}))

\* No wake of a channel is swallowed: nobody waits beside a value, or a free
\* slot, that no other waiter was told of (fiber_line_wait and the condition
\* variables).
NobodyStranded == ReceiverNotStranded /\ SenderNotStranded

\* A fiber stands in exactly the line of the call it waits in, once, until it is
\* signalled: the waiter record lives on its stack, so a line must never name a
\* fiber that left its wait.
LineIsWaiters ==
    \A a \in FiberSet :
      LET waits == pc[a] \in {"line", "blocked", "unparked", "woken", "refused"} /\ ~signalled[a] IN
      /\ Cardinality({i \in DOMAIN send_line : send_line[i] = a})
           = IF waits /\ op[a] = "send" THEN 1 ELSE 0
      /\ Cardinality({i \in DOMAIN recv_line : recv_line[i] = a})
           = IF waits /\ op[a] # "send" THEN 1 ELSE 0

\* A blocked fiber that was signalled, or that could observe a cancellation, does
\* not exist: each of the two has woken it.
NotBlockedIfSignalled ==
    \A a \in FiberSet : pc[a] = "blocked" => ~signalled[a] /\ ~cancel_flag[a]

\* Close releases everyone for good.
ClosedHasNoWaiters ==
    closed => send_line = <<>> /\ recv_line = <<>> /\ Cond({"send", "recv", "gate"}) = {}

\* The wait lines name exactly the fibers that still wait, through cancels,
\* departures, stray wakes and close (fiber_line_pop, fiber_line_wait).
LinesExact == TypeOK /\ LineIsWaiters /\ NotBlockedIfSignalled
    /\ ClosedHasNoWaiters

\* The channel implements the bounded, closable queue.
Fifo == INSTANCE ChannelFifo WITH Cap <- cap
FifoSpec == Fifo!Spec

\* A waiting receiver does not wait for ever beside a buffered value.
ReceiverServed ==
    \A a \in Actors :
      (op[a] = "recv" /\ count # 0) ~> (op[a] # "recv" \/ count = 0)

\* Every caller that waits when the channel closes, or the gate opens, returns.
CloseReleases ==
    \A a \in Actors : (closed /\ op[a] # "none") ~> (op[a] = "none")

\* A cancelled fiber comes out of its wait.
CancelReleases ==
    \A a \in FiberSet :
      (cancel_flag[a] /\ op[a] # "none") ~> (op[a] = "none")

\* Callers of one kind, and the values, are interchangeable: for TLC.
Symmetry == Permutations(FiberSet) \union Permutations(ThreadSet)
              \union Permutations(Values)
=============================================================================
