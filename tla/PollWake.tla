------------------------------ MODULE PollWake ------------------------------
(* The waking half of std.poll: the table of wakers, wake from any thread,   *)
(* the wait it must end, and close.  A poller is moved between threads but   *)
(* has one owner at a time; only its wake handle, a number, is shared.       *)
EXTENDS Integers, FiniteSets

CONSTANTS Pollers,    \* pollers the program opens, each at most once
          Threads,    \* threads that wake
          Slots,      \* size of the waker table
          GenSpan,    \* generations a handle has room for (2^32)
          Nums,       \* descriptor numbers for the write ends and other files
          PipeCap,    \* bytes a wake pipe holds
          Timeouts,   \* timeouts a wait may be given; Forever is one of them
          Forever

ASSUME WakeConstants ==
    /\ IsFiniteSet(Pollers) /\ Slots \in Nat
    /\ {"file", "free", "none"} \intersect (Pollers \union Threads) = {}
    /\ PipeCap \in Nat \ {0} /\ Timeouts \subseteq Int
    /\ GenSpan \in Nat /\ Cardinality(Pollers) < GenSpan  \* fewer than 2^32 opened

VARIABLES table,      \* slot -> [num, gen, live]
          holder,     \* number -> the poller whose pipe it is, "file" or "free"
          poller,     \* poller -> [pc, handle, num, left, woken]
          pipe,       \* poller -> bytes in its wake pipe
          busy,       \* thread -> [pc, handle, num]
          lock,       \* poll_wakers_lock: the thread or poller holding it, or "none"
          issued,     \* handle -> the poller it was made for (ghost)
          stray,      \* a wake wrote into something else (ghost)
          poked       \* pollers with a wake that no wait has answered (ghost)

wakeVars == <<table, holder, poller, pipe, busy, lock, issued, stray, poked>>
TableIs == 0..Slots-1

WakeInit ==
    /\ table = [i \in TableIs |-> [num |-> 0, gen |-> 0, live |-> FALSE]]
    /\ holder = [n \in Nums |-> "free"]
    /\ poller = [p \in Pollers |-> [pc |-> "new", handle |-> 0, num |-> 0, left |-> 0, woken |-> FALSE]]
    /\ pipe = [p \in Pollers |-> 0]
    /\ busy = [t \in Threads |-> [pc |-> "idle", handle |-> 0, num |-> 0]]
    /\ lock = "none" /\ issued = {} /\ stray = FALSE /\ poked = {}

PollerAt(p, pc) == poller[p].pc = pc
Handle(i, gen) == ((i + 1) * GenSpan) + gen
SlotOf(h) == (h \div GenSpan) - 1
GenOf(h) == h % GenSpan

\* poll_waker_add: the first dead slot, which keeps the generation it was left.
FreeSlots == {i \in TableIs : ~table[i].live}
FirstFree == CHOOSE i \in FreeSlots : \A j \in FreeSlots : i <= j
Started(gen) == IF gen = 0 THEN 1 ELSE gen

\* beans_poll_open: a pipe, then a slot; a full table gives the pipe back.
Open(p) ==
    /\ PollerAt(p, "new") /\ lock = "none"
    /\ \E n \in Nums :
          /\ holder[n] = "free"
          /\ IF FreeSlots = {}
             THEN /\ poller' = [poller EXCEPT ![p].pc = "failed"]
                  /\ UNCHANGED <<table, holder, issued>>
             ELSE /\ holder' = [holder EXCEPT ![n] = p]
                  /\ table' = [table EXCEPT ![FirstFree] =
                        [num |-> n, gen |-> Started(@.gen), live |-> TRUE]]
                  /\ issued' = issued \cup {<<Handle(FirstFree, table'[FirstFree].gen), p>>}
                  /\ poller' = [poller EXCEPT ![p] =
                        [@ EXCEPT !.pc = "idle", !.num = n,
                                  !.handle = Handle(FirstFree, table'[FirstFree].gen)]]
    /\ UNCHANGED <<pipe, busy, lock, stray, poked>>

\* Any other file the program opens and closes meanwhile.
OtherFile ==
    /\ \E n \in Nums :
          \/ holder[n] = "free" /\ holder' = [holder EXCEPT ![n] = "file"]
          \/ holder[n] = "file" /\ holder' = [holder EXCEPT ![n] = "free"]
    /\ UNCHANGED <<table, poller, pipe, busy, lock, issued, stray, poked>>

----------------------------------------------------------------------------
\* beans_poll_wake: the handle is looked up and the byte written under one
\* hold of the lock.
Known(h) ==
    /\ SlotOf(h) \in TableIs
    /\ table[SlotOf(h)].live /\ table[SlotOf(h)].gen = GenOf(h)

WakeHolds(t) == t

WakeLook(t) ==
    /\ busy[t].pc = "idle" /\ lock = "none"
    /\ \E hp \in issued :
          IF Known(hp[1])
          THEN /\ lock' = WakeHolds(t)
               /\ busy' = [busy EXCEPT ![t] = [pc |-> "write", handle |-> hp[1],
                                               num |-> table[SlotOf(hp[1])].num]]
          ELSE UNCHANGED <<lock, busy>>  \* reported as closed
    /\ UNCHANGED <<table, holder, poller, pipe, issued, stray, poked>>

\* A pipe that is full has a wake in it already: EAGAIN counts as written.
WakeWrite(t) ==
    /\ busy[t].pc = "write"
    /\ \E p \in Pollers :
          /\ <<busy[t].handle, p>> \in issued
          /\ IF holder[busy[t].num] = p
             THEN /\ pipe' = [pipe EXCEPT ![p] = IF @ < PipeCap THEN @ + 1 ELSE @]
                  /\ poked' = poked \cup {p} /\ stray' = stray
             ELSE stray' = TRUE /\ UNCHANGED <<pipe, poked>>
    /\ busy' = [busy EXCEPT ![t] = [pc |-> "idle", handle |-> 0, num |-> 0]]
    /\ lock' = IF lock = t THEN "none" ELSE lock
    /\ UNCHANGED <<table, holder, poller, issued>>

----------------------------------------------------------------------------
\* A wait: its deadline is fixed on entry; the kernel call ends on a wake,
\* on time running out, or on a signal, and only the last goes round again.
Wait(p) ==
    /\ PollerAt(p, "idle")
    /\ \E t \in Timeouts : poller' = [poller EXCEPT ![p] = [@ EXCEPT !.pc = "kernel", !.left = t, !.woken = FALSE]]
    /\ UNCHANGED <<table, holder, pipe, busy, lock, issued, stray, poked>>

Tick(p) ==
    /\ PollerAt(p, "kernel") /\ poller[p].left # Forever /\ poller[p].left > 0
    /\ poller' = [poller EXCEPT ![p].left = @ - 1]
    /\ UNCHANGED <<table, holder, pipe, busy, lock, issued, stray, poked>>

\* Mutant of Rearmed: the whole timeout again after every signal.
RearmedWhole(left) ==
    IF left = Forever THEN left
    ELSE CHOOSE t \in Timeouts \ {Forever} : \A u \in Timeouts \ {Forever} : u <= t
\* The time left after a signal: the deadline stays where it was.
Rearmed(left) == left
Interrupted(p) ==
    /\ PollerAt(p, "kernel")
    /\ poller' = [poller EXCEPT ![p].left = Rearmed(@)]
    /\ UNCHANGED <<table, holder, pipe, busy, lock, issued, stray, poked>>

KernelReturns(p) ==
    /\ PollerAt(p, "kernel")
    /\ pipe[p] > 0 \/ poller[p].left = 0
    /\ poller' = [poller EXCEPT ![p] = [@ EXCEPT !.pc = "drain", !.woken = pipe[p] > 0]]
    /\ UNCHANGED <<table, holder, pipe, busy, lock, issued, stray, poked>>

\* Only a wake that was seen is drained, and then the wait returns.
ToDrain(p) == poller[p].woken
WaitReturns(p) ==
    /\ PollerAt(p, "drain")
    /\ pipe' = [pipe EXCEPT ![p] = IF ToDrain(p) THEN 0 ELSE @]
    /\ poked' = IF poller[p].woken THEN poked \ {p} ELSE poked
    /\ poller' = [poller EXCEPT ![p].pc = "idle"]
    /\ UNCHANGED <<table, holder, busy, lock, issued, stray>>

----------------------------------------------------------------------------
\* Mutant of Bumped: the slot keeps its generation.
BumpedNot(gen) == gen
Bumped(gen) == gen + 1

\* beans_poll_close: the slot is cleared under the lock, so that no wake can
\* be between its look and its write; then the descriptors are closed.
PollerDrop(p) ==
    /\ PollerAt(p, "idle") /\ lock = "none"
    /\ table' = [table EXCEPT ![SlotOf(poller[p].handle)] =
          [num |-> 0, gen |-> Bumped(@.gen), live |-> FALSE]]
    /\ poller' = [poller EXCEPT ![p].pc = "closing"]
    /\ poked' = poked \ {p}
    /\ UNCHANGED <<holder, pipe, busy, lock, issued, stray>>

CloseFds(p) ==
    /\ PollerAt(p, "closing")
    /\ holder' = [holder EXCEPT ![poller[p].num] = "free"]
    /\ poller' = [poller EXCEPT ![p].pc = "closed"]
    /\ pipe' = [pipe EXCEPT ![p] = 0]
    /\ UNCHANGED <<table, busy, lock, issued, stray, poked>>

WakeNext ==
    \/ \E p \in Pollers : \/ Open(p) \/ Wait(p) \/ Tick(p) \/ Interrupted(p)
                          \/ KernelReturns(p) \/ WaitReturns(p) \/ PollerDrop(p) \/ CloseFds(p)
    \/ \E t \in Threads : WakeLook(t) \/ WakeWrite(t)
    \/ OtherFile

\* The kernel ends a wait that has a reason to end, time passes, and a thread
\* that runs finishes the call it is in.
WakeFairness ==
    /\ \A p \in Pollers : WF_wakeVars(KernelReturns(p)) /\ WF_wakeVars(WaitReturns(p)) /\ WF_wakeVars(Tick(p))
    /\ \A t \in Threads : WF_wakeVars(WakeWrite(t))
WakeSpec == WakeInit /\ [][WakeNext]_wakeVars /\ WakeFairness

----------------------------------------------------------------------------
\* A byte goes only into the pipe of the poller the handle was made for, not
\* into a file or another poller that has the descriptor number by now.
NoStrayByte == ~stray

\* A wake that was accepted and not yet answered is still in the pipe, so the
\* poller's wait, begun or to come, cannot sleep through it.
WakeNotLost == \A p \in poked : pipe[p] > 0

\* A handle names one poller for ever: none of two pollers ever answers to
\* the other's handle, however often slots are used again.
HandlesDiffer == \A x, y \in issued : x[1] = y[1] => x[2] = y[2]

\* A wake reaches the poller its handle was made for and no other, and stays
\* until that poller has seen it, though slots and descriptor numbers are
\* used again (beans_poll_wake, poll_waker_drop).
WakesArrive == NoStrayByte /\ WakeNotLost /\ HandlesDiffer

Waits(p) == PollerAt(p, "kernel") /\ (poller[p].left # Forever \/ p \in poked)
OutOfKernel(p) == ~PollerAt(p, "kernel")
\* A wait with a deadline, or one that was woken, ends; signals that keep
\* arriving do not put the deadline off.
WaitEnds == \A p \in Pollers : Waits(p) ~> OutOfKernel(p)
=============================================================================
