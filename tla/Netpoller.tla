----------------------------- MODULE Netpoller -----------------------------
(***************************************************************************)
(* The worker's idle wait (runtime/beans_fiber.c): io waiters in the       *)
(* kernel poller, sleepers with deadlines, fibers posted to the inbox by   *)
(* foreign threads, and the deadlock report.                               *)
(*                                                                         *)
(* Park and resume are atomic here (their own race is FiberCore's          *)
(* subject); the poller's handshake with inbox_post, which reads and       *)
(* writes in_poll and the inbox in separate steps, is not.  The kernel     *)
(* (epoll or kqueue) is modelled by the one-shot registrations it holds    *)
(* and the descriptors that are ready; fiber f waits on a descriptor of    *)
(* its own.                                                                *)
(***************************************************************************)
EXTENDS Integers, Sequences, FiniteSets, SequencesExt

CONSTANTS Fibers, Threads, None,
          MaxTime,      \* bound: the clock
          MaxWaits,     \* bound: io waits, sleeps and parks begun
          MaxCancels    \* bound: cancels

ASSUME ConstantsAssumption ==
    /\ IsFiniteSet(Fibers)
    /\ Fibers # {}
    /\ None \notin Fibers \union 0..MaxTime
    /\ MaxTime \in Nat
    /\ MaxWaits \in Nat
    /\ MaxCancels \in Nat

VARIABLES
    state,         \* fiber -> RUNNING, READY, PARKED or DONE
    pending_wake,  \* fiber -> the wake latch
    cancel_flag,   \* fiber -> cancellation was requested
    unwinding,     \* fiber -> it observed the cancellation (unwinds, or is masked)
    wait,          \* fiber -> the wait it is in
    parked,        \* fiber -> it switched away inside that wait
    deadline,      \* fiber -> the deadline of that wait, or None
    io_armed,      \* fiber -> a registration is armed
    io_signalled,  \* fiber -> the registration was delivered
    io_waiters,    \* the worker's count of armed fibers
    in_poll,       \* the worker is inside (or committing to) the poller wait
    sleepers,      \* the timer heap, as the set of its <<deadline, fiber>> entries
    ready,         \* the run queue
    inbox,         \* fibers posted by foreign threads
    current,       \* the running fiber, or None
    phase,         \* where the worker thread stands
    registered,    \* kernel: fibers with an enabled one-shot registration
    fd_ready,      \* kernel: fibers whose descriptor is ready
    kicked,        \* kernel: the kick event is pending
    tpc,           \* thread -> "run", "kick", "posted" or "ended"
    now,           \* the monotonic clock
    waits, cancels \* counters of the bounds

fiberVars  == <<cancel_flag, unwinding, wait, parked, deadline>>
ioVars     == <<io_armed, io_signalled, io_waiters, registered>>
kernelVars == <<fd_ready, kicked>>
bounds     == <<waits, cancels>>
vars == <<state, pending_wake, fiberVars, ioVars, kernelVars, in_poll, sleepers,
          ready, inbox, current, phase, tpc, now, bounds>>

TypeOK ==
    /\ state \in [Fibers -> {"RUNNING", "READY", "PARKED", "DONE"}]
    /\ pending_wake \in [Fibers -> BOOLEAN]
    /\ cancel_flag \in [Fibers -> BOOLEAN]
    /\ unwinding \in [Fibers -> BOOLEAN]
    /\ wait \in [Fibers -> {"code", "io", "sleep", "park"}]
    /\ parked \in [Fibers -> BOOLEAN]
    /\ deadline \in [Fibers -> 0..MaxTime \union {None}]
    /\ io_armed \in [Fibers -> BOOLEAN]
    /\ io_signalled \in [Fibers -> BOOLEAN]
    /\ io_waiters \in (-MaxCancels)..Cardinality(Fibers)
    /\ in_poll \in BOOLEAN
    /\ sleepers \subseteq (0..MaxTime) \X Fibers
    /\ ready \in Seq(Fibers)
    /\ inbox \in Seq(Fibers)
    /\ current \in Fibers \union {None}
    /\ phase \in {"fiber", "sched", "pop", "idle", "recheck", "poll", "polled",
                  "cond", "timed", "reported", "stopped"}
    /\ registered \subseteq Fibers
    /\ fd_ready \subseteq Fibers
    /\ kicked \in BOOLEAN
    /\ tpc \in [Threads -> {"run", "kick", "posted", "ended"}]
    /\ now \in 0..MaxTime
    /\ waits \in 0..MaxWaits
    /\ cancels \in 0..MaxCancels

\* Every fiber was spawned and waits for its first turn.
Init ==
    /\ state = [f \in Fibers |-> "READY"]
    /\ pending_wake = [f \in Fibers |-> FALSE]
    /\ cancel_flag = [f \in Fibers |-> FALSE]
    /\ unwinding = [f \in Fibers |-> FALSE]
    /\ wait = [f \in Fibers |-> "code"]
    /\ parked = [f \in Fibers |-> FALSE]
    /\ deadline = [f \in Fibers |-> None]
    /\ io_armed = [f \in Fibers |-> FALSE]
    /\ io_signalled = [f \in Fibers |-> FALSE]
    /\ io_waiters = 0
    /\ in_poll = FALSE
    /\ sleepers = {}
    /\ ready \in SetToSeqs(Fibers)
    /\ inbox = <<>>
    /\ current = None
    /\ phase = "sched"
    /\ registered = {}
    /\ fd_ready = {}
    /\ kicked = FALSE
    /\ tpc = [t \in Threads |-> "run"]
    /\ now = 0
    /\ waits = 0
    /\ cancels = 0

-----------------------------------------------------------------------------
(* Wakes on the worker's own thread.                                       *)

Observable(f) == ~unwinding[f] /\ cancel_flag[f]

Due == {e \in sleepers : e[1] <= now}

\* beans_fiber_resume of every fiber of S, in the order q of those it unparks;
\* the run queue was rd before.
ResumeAll(S, q, rd) ==
    /\ q \in SetToSeqs({f \in S : state[f] = "PARKED"})
    /\ ready' = rd \o q
    /\ state' = [f \in Fibers |-> IF f \in S /\ state[f] = "PARKED"
                                   THEN "READY" ELSE state[f]]
    /\ pending_wake' = [f \in Fibers |->
                           pending_wake[f] \/ (f \in S /\ state[f] \in {"RUNNING", "READY"})]

\* sleeper_fire_due: pops every due entry, nearest deadline first.
FireDue(rd) ==
    /\ \E q \in SetToSeqs({f \in {e[2] : e \in Due} : state[f] = "PARKED"}) :
         /\ \A i, j \in DOMAIN q :
              i < j => \E d, e \in Due : d[2] = q[i] /\ e[2] = q[j] /\ d[1] <= e[1]
         /\ ResumeAll({e[2] : e \in Due}, q, rd)
    /\ sleepers' = sleepers \ Due

\* sleeper_remove: the first entry found that names f, and no other.
SleeperRemove(f) ==
    IF \E e \in sleepers : e[2] = f
      THEN \E e \in sleepers : e[2] = f /\ sleepers' = sleepers \ {e}
      ELSE UNCHANGED sleepers

\* Mutant: the count is left to the delivery.
DisarmUncounted(f) ==
    /\ registered' = registered \ {f}
    /\ io_armed' = [io_armed EXCEPT ![f] = FALSE]
    /\ UNCHANGED io_waiters

\* poller_disarm
Disarm(f) ==
    /\ registered' = registered \ {f}
    /\ io_armed' = [io_armed EXCEPT ![f] = FALSE]
    /\ io_waiters' = io_waiters - 1

-----------------------------------------------------------------------------
(* The running fiber.                                                      *)

Running(f) == phase = "fiber" /\ current = f
InCode(f) == Running(f) /\ wait[f] = "code"

\* beans_fiber_wait_io up to its loop: the registration, the count, the timer.
WaitIo(f, d) ==
    /\ InCode(f)
    /\ waits < MaxWaits
    /\ waits' = waits + 1
    /\ registered' = registered \union {f}
    /\ io_armed' = [io_armed EXCEPT ![f] = TRUE]
    /\ io_waiters' = IF io_armed[f] THEN io_waiters ELSE io_waiters + 1
    /\ io_signalled' = [io_signalled EXCEPT ![f] = FALSE]
    /\ deadline' = [deadline EXCEPT ![f] = d]
    /\ sleepers' = IF d = None THEN sleepers ELSE sleepers \union {<<d, f>>}
    /\ wait' = [wait EXCEPT ![f] = "io"]
    /\ UNCHANGED <<state, pending_wake, cancel_flag, unwinding, parked,
                   kernelVars, in_poll, ready, inbox, current, phase, tpc, now,
                   cancels>>

\* beans_fiber_sleep up to its loop.
Sleep(f, d) ==
    /\ InCode(f)
    /\ waits < MaxWaits
    /\ waits' = waits + 1
    /\ deadline' = [deadline EXCEPT ![f] = d]
    /\ sleepers' = sleepers \union {<<d, f>>}
    /\ wait' = [wait EXCEPT ![f] = "sleep"]
    /\ UNCHANGED <<state, pending_wake, cancel_flag, unwinding, parked, ioVars,
                   kernelVars, in_poll, ready, inbox, current, phase, tpc, now,
                   cancels>>

\* A park that some thread or fiber will end (a channel, a join).
WaitWake(f) ==
    /\ InCode(f)
    /\ waits < MaxWaits
    /\ waits' = waits + 1
    /\ wait' = [wait EXCEPT ![f] = "park"]
    /\ UNCHANGED <<state, pending_wake, cancel_flag, unwinding, parked, deadline,
                   ioVars, kernelVars, in_poll, sleepers, ready, inbox, current,
                   phase, tpc, now, cancels>>

Expired(f) == deadline[f] # None /\ now >= deadline[f]

\* The loop's own exits, tested before every park.
Satisfied(f) == CASE wait[f] = "io" -> io_signalled[f] \/ Expired(f)
                  [] wait[f] = "sleep" -> Expired(f)
                  [] OTHER -> FALSE

Leave(f) ==
    /\ wait' = [wait EXCEPT ![f] = "code"]
    /\ deadline' = [deadline EXCEPT ![f] = None]
    /\ parked' = [parked EXCEPT ![f] = FALSE]

\* beans_fiber_wait_io answers 0: the registration was delivered.  The retried
\* system call then empties the descriptor.
IoReady(f) ==
    /\ Running(f) /\ wait[f] = "io" /\ ~parked[f]
    /\ io_signalled[f]
    /\ Leave(f)
    /\ IF deadline[f] # None THEN SleeperRemove(f) ELSE UNCHANGED sleepers
    /\ fd_ready' = fd_ready \ {f}
    /\ UNCHANGED <<state, pending_wake, cancel_flag, unwinding, ioVars, kicked,
                   in_poll, ready, inbox, current, phase, tpc, now, bounds>>

\* beans_fiber_wait_io answers 1: the deadline won.
IoTimeout(f) ==
    /\ Running(f) /\ wait[f] = "io" /\ ~parked[f]
    /\ ~io_signalled[f]
    /\ Expired(f)
    /\ Leave(f)
    /\ Disarm(f)
    /\ SleeperRemove(f)
    /\ UNCHANGED <<state, pending_wake, cancel_flag, unwinding, io_signalled,
                   kernelVars, in_poll, ready, inbox, current, phase, tpc, now,
                   bounds>>

\* beans_fiber_sleep's loop ends; its heap entry is left to fire by itself.
SleepOver(f) ==
    /\ Running(f) /\ wait[f] = "sleep" /\ ~parked[f]
    /\ Expired(f)
    /\ Leave(f)
    /\ UNCHANGED <<state, pending_wake, cancel_flag, unwinding, ioVars,
                   kernelVars, in_poll, sleepers, ready, inbox, current, phase,
                   tpc, now, bounds>>

\* The park answers CANCELLED, before the switch or after it: the wait gives up
\* what it armed, whatever was delivered meanwhile, and the fiber unwinds.
WaitCancelled(f) ==
    /\ Running(f) /\ wait[f] # "code"
    /\ Observable(f)
    /\ parked[f] \/ ~Satisfied(f)
    /\ unwinding' = [unwinding EXCEPT ![f] = TRUE]
    /\ Leave(f)
    /\ IF wait[f] = "io" THEN Disarm(f)
                         ELSE UNCHANGED <<registered, io_armed, io_waiters>>
    /\ IF deadline[f] # None THEN SleeperRemove(f) ELSE UNCHANGED sleepers
    /\ UNCHANGED <<state, pending_wake, cancel_flag, io_signalled, kernelVars,
                   in_poll, ready, inbox, current, phase, tpc, now, bounds>>

\* The park consumes the latch and answers WOKEN at once.
WaitLatched(f) ==
    /\ Running(f) /\ wait[f] # "code" /\ ~parked[f]
    /\ ~Satisfied(f)
    /\ ~Observable(f)
    /\ pending_wake[f]
    /\ pending_wake' = [pending_wake EXCEPT ![f] = FALSE]
    /\ wait' = [wait EXCEPT ![f] = IF wait[f] = "park" THEN "code" ELSE @]
    /\ UNCHANGED <<state, cancel_flag, unwinding, parked, deadline, ioVars,
                   kernelVars, in_poll, sleepers, ready, inbox, current, phase,
                   tpc, now, bounds>>

\* The park switches away.
WaitPark(f) ==
    /\ Running(f) /\ wait[f] # "code" /\ ~parked[f]
    /\ ~Satisfied(f)
    /\ ~Observable(f)
    /\ ~pending_wake[f]
    /\ state' = [state EXCEPT ![f] = "PARKED"]
    /\ parked' = [parked EXCEPT ![f] = TRUE]
    /\ current' = None
    /\ phase' = "sched"
    /\ UNCHANGED <<pending_wake, cancel_flag, unwinding, wait, deadline, ioVars,
                   kernelVars, in_poll, sleepers, ready, inbox, tpc, now, bounds>>

\* The park answers WOKEN after the switch: round the loop, or out of a plain park.
WaitWoken(f) ==
    /\ Running(f) /\ parked[f]
    /\ ~Observable(f)
    /\ parked' = [parked EXCEPT ![f] = FALSE]
    /\ wait' = [wait EXCEPT ![f] = IF wait[f] = "park" THEN "code" ELSE @]
    /\ UNCHANGED <<state, pending_wake, cancel_flag, unwinding, deadline, ioVars,
                   kernelVars, in_poll, sleepers, ready, inbox, current, phase,
                   tpc, now, bounds>>

\* beans_fiber_cancel of another fiber.
Cancel(f, g) ==
    /\ InCode(f)
    /\ f # g
    /\ state[g] # "DONE"
    /\ cancels < MaxCancels
    /\ cancels' = cancels + 1
    /\ cancel_flag' = [cancel_flag EXCEPT ![g] = TRUE]
    /\ \E q \in SetToSeqs({h \in {g} : state[h] = "PARKED"}) : ResumeAll({g}, q, ready)
    /\ UNCHANGED <<unwinding, wait, parked, deadline, ioVars, kernelVars, in_poll,
                   sleepers, inbox, current, phase, tpc, now, waits>>

Finish(f) ==
    /\ InCode(f)
    /\ state' = [state EXCEPT ![f] = "DONE"]
    /\ current' = None
    /\ phase' = "sched"
    /\ UNCHANGED <<pending_wake, fiberVars, ioVars, kernelVars, in_poll, sleepers,
                   ready, inbox, tpc, now, bounds>>

-----------------------------------------------------------------------------
(* The scheduler loop and its idle wait.                                   *)

WorkerOnly == UNCHANGED <<fiberVars, tpc, now, bounds>>

\* The top of beans_worker_run: inbox_drain(0), then the due timers.
Schedule ==
    /\ phase = "sched"
    /\ FireDue(ready \o inbox)
    /\ inbox' = <<>>
    /\ phase' = "pop"
    /\ WorkerOnly
    /\ UNCHANGED <<ioVars, kernelVars, in_poll, current>>

\* ready_pop and run_one.
Dispatch ==
    /\ phase = "pop"
    /\ ready # <<>>
    /\ state' = [state EXCEPT ![Head(ready)] = "RUNNING"]
    /\ current' = Head(ready)
    /\ ready' = Tail(ready)
    /\ phase' = "fiber"
    /\ WorkerOnly
    /\ UNCHANGED <<pending_wake, ioVars, kernelVars, in_poll, sleepers, inbox>>

\* Nothing ready: stop when no fiber is left, or go idle.
Nothing ==
    /\ phase = "pop"
    /\ ready = <<>>
    /\ phase' = IF \A f \in Fibers : state[f] = "DONE" THEN "stopped" ELSE "idle"
    /\ WorkerOnly
    /\ UNCHANGED <<state, pending_wake, ioVars, kernelVars, in_poll, sleepers,
                   ready, inbox, current>>

\* io_idle_wait up to the store to in_poll.
EnterPoll ==
    /\ phase = "idle"
    /\ io_waiters > 0
    /\ FireDue(ready)
    /\ IF ready' # <<>> THEN phase' = "sched" /\ UNCHANGED in_poll
                        ELSE phase' = "recheck" /\ in_poll' = TRUE
    /\ WorkerOnly
    /\ UNCHANGED <<ioVars, kernelVars, inbox, current>>

\* Mutant: the worker blocks without the second look at the inbox.
RecheckSkipped ==
    /\ phase = "recheck"
    /\ phase' = "poll"
    /\ WorkerOnly
    /\ UNCHANGED <<state, pending_wake, ioVars, kernelVars, in_poll, ready, inbox,
                   sleepers, current>>

\* The inbox check between raising in_poll and blocking.
Recheck ==
    /\ phase = "recheck"
    /\ IF inbox # <<>>
         THEN /\ in_poll' = FALSE
              /\ ready' = ready \o inbox
              /\ inbox' = <<>>
              /\ phase' = "sched"
         ELSE /\ phase' = "poll"
              /\ UNCHANGED <<in_poll, ready, inbox>>
    /\ WorkerOnly
    /\ UNCHANGED <<state, pending_wake, ioVars, kernelVars, sleepers, current>>

\* poller_drain: the kernel answers with the ready descriptors, the kick or the
\* nearest timer's timeout.
Poll ==
    LET events == registered \intersect fd_ready IN
    /\ phase = "poll"
    /\ events # {} \/ kicked \/ Due # {}
    /\ kicked' = FALSE
    /\ registered' = registered \ events
    /\ io_signalled' = [f \in Fibers |-> f \in events \/ io_signalled[f]]
    /\ io_armed' = [f \in Fibers |-> f \notin events /\ io_armed[f]]
    /\ io_waiters' = io_waiters - Cardinality(events)
    /\ \E q \in SetToSeqs({f \in events : state[f] = "PARKED"}) : ResumeAll(events, q, ready)
    /\ phase' = "polled"
    /\ WorkerOnly
    /\ UNCHANGED <<fd_ready, in_poll, sleepers, inbox, current>>

\* The rest of io_idle_wait.
LeavePoll ==
    /\ phase = "polled"
    /\ in_poll' = FALSE
    /\ inbox' = <<>>
    /\ FireDue(ready \o inbox)
    /\ phase' = "sched"
    /\ WorkerOnly
    /\ UNCHANGED <<ioVars, kernelVars, current>>

\* rt_fibers_may_wake: some runtime thread is alive.
MayWake == \E t \in Threads : tpc[t] # "ended"

\* Mutant: the branch on the count is off by one.
NoIoWaitersOffByOne == io_waiters <= 1

\* idle_wait's branch: nothing for the poller to wait for.
NoIoWaiters == io_waiters <= 0

\* Mutant: the report does not look into the inbox a last time.
IdleNoTimerHasty ==
    /\ phase = "idle"
    /\ NoIoWaiters
    /\ sleepers = {}
    /\ phase' = IF MayWake THEN "cond" ELSE "reported"
    /\ WorkerOnly
    /\ UNCHANGED <<state, pending_wake, ioVars, kernelVars, in_poll, sleepers,
                   ready, inbox, current>>

\* idle_wait with no io waiter and no timer: report a deadlock, or sleep.
IdleNoTimer ==
    /\ phase = "idle"
    /\ NoIoWaiters
    /\ sleepers = {}
    /\ IF MayWake
         THEN phase' = "cond" /\ UNCHANGED <<ready, inbox>>
         ELSE /\ ready' = ready \o inbox
              /\ inbox' = <<>>
              /\ phase' = IF ready' # <<>> THEN "sched" ELSE "reported"
    /\ WorkerOnly
    /\ UNCHANGED <<state, pending_wake, ioVars, kernelVars, in_poll, sleepers,
                   current>>

\* idle_wait with timers, up to the timed wait.
IdleTimer ==
    /\ phase = "idle"
    /\ NoIoWaiters
    /\ sleepers # {}
    /\ FireDue(ready)
    /\ phase' = IF ready' # <<>> \/ sleepers' = {} THEN "sched" ELSE "timed"
    /\ WorkerOnly
    /\ UNCHANGED <<ioVars, kernelVars, in_poll, inbox, current>>

\* inbox_drain(1): woken by a post, by nothing else.
CondWake ==
    /\ phase = "cond"
    /\ inbox # <<>>
    /\ ready' = ready \o inbox
    /\ inbox' = <<>>
    /\ phase' = "sched"
    /\ WorkerOnly
    /\ UNCHANGED <<state, pending_wake, ioVars, kernelVars, in_poll, sleepers,
                   current>>

\* The timed wait ends by a post or by the nearest deadline.
TimedWake ==
    /\ phase = "timed"
    /\ inbox # <<>> \/ Due # {}
    /\ inbox' = <<>>
    /\ FireDue(ready \o inbox)
    /\ phase' = "sched"
    /\ WorkerOnly
    /\ UNCHANGED <<ioVars, kernelVars, in_poll, current>>

-----------------------------------------------------------------------------
(* Foreign threads, the kernel and the clock.                              *)

Alive == phase \notin {"reported", "stopped"}

\* A thread resumes a fiber: READY and inbox_post's locked part, or the latch.
Post(t, f) ==
    /\ Alive
    /\ tpc[t] = "run"
    /\ state[f] # "DONE"
    /\ IF state[f] = "PARKED"
         THEN /\ state' = [state EXCEPT ![f] = "READY"]
              /\ inbox' = Append(inbox, f)
              /\ tpc' = [tpc EXCEPT ![t] = "kick"]
              /\ UNCHANGED pending_wake
         ELSE /\ pending_wake' = [pending_wake EXCEPT ![f] = TRUE]
              /\ tpc' = [tpc EXCEPT ![t] = "posted"]
              /\ UNCHANGED <<state, inbox>>
    /\ UNCHANGED <<fiberVars, ioVars, kernelVars, in_poll, sleepers, ready,
                   current, phase, now, bounds>>

\* inbox_post's read of in_poll, and poller_kick.
Kick(t) ==
    /\ Alive
    /\ tpc[t] = "kick"
    /\ kicked' = (kicked \/ in_poll)
    /\ tpc' = [tpc EXCEPT ![t] = "posted"]
    /\ UNCHANGED <<state, pending_wake, fiberVars, ioVars, fd_ready, in_poll,
                   sleepers, ready, inbox, current, phase, now, bounds>>

\* The last thing a thread does: cc_threads -= 1.  It wakes nobody.
ThreadEnd(t) ==
    /\ Alive
    /\ tpc[t] \in {"run", "posted"}
    /\ tpc' = [tpc EXCEPT ![t] = "ended"]
    /\ UNCHANGED <<state, pending_wake, fiberVars, ioVars, kernelVars, in_poll,
                   sleepers, ready, inbox, current, phase, now, bounds>>

FdReady(f) ==
    /\ Alive
    /\ f \in registered \ fd_ready
    /\ fd_ready' = fd_ready \union {f}
    /\ UNCHANGED <<state, pending_wake, fiberVars, ioVars, kicked, in_poll,
                   sleepers, ready, inbox, current, phase, tpc, now, bounds>>

Tick ==
    /\ Alive
    /\ now < MaxTime
    /\ now' = now + 1
    /\ UNCHANGED <<state, pending_wake, fiberVars, ioVars, kernelVars, in_poll,
                   sleepers, ready, inbox, current, phase, tpc, bounds>>

-----------------------------------------------------------------------------
\* A sleep lasts at least 1; an io wait may time out at once.
Deadlines == (now + 1)..MaxTime

FiberStep(f) ==
    \/ \E d \in Deadlines \union {now, None} : WaitIo(f, d)
    \/ \E d \in Deadlines : Sleep(f, d)
    \/ WaitWake(f)
    \/ IoReady(f)
    \/ IoTimeout(f)
    \/ SleepOver(f)
    \/ WaitCancelled(f)
    \/ WaitLatched(f)
    \/ WaitPark(f)
    \/ WaitWoken(f)
    \/ \E g \in Fibers : Cancel(f, g)
    \/ Finish(f)

WorkerStep ==
    \/ \E f \in Fibers : FiberStep(f)
    \/ Schedule
    \/ Dispatch
    \/ Nothing
    \/ EnterPoll
    \/ Recheck
    \/ Poll
    \/ LeavePoll
    \/ IdleNoTimer
    \/ IdleTimer
    \/ CondWake
    \/ TimedWake

Next ==
    \/ WorkerStep
    \/ \E t \in Threads : Kick(t) \/ ThreadEnd(t) \/ \E f \in Fibers : Post(t, f)
    \/ \E f \in Fibers : FdReady(f)
    \/ Tick

Spec == Init /\ [][Next]_vars

\* The worker thread runs whenever it can, and a thread inside inbox_post gets
\* to its kick.  Descriptors need not become ready, and a thread need not post.
Fairness == WF_vars(WorkerStep) /\ \A t \in Threads : WF_vars(Kick(t))

FairSpec == Spec /\ Fairness

-----------------------------------------------------------------------------
(* Properties.                                                             *)

Armed == {f \in Fibers : io_armed[f]}

\* The handshake of inbox_post and io_idle_wait: the worker never blocks in the
\* poller on a posted fiber unless a kick is pending or about to be sent.
KickNotLost ==
    phase = "poll" /\ inbox # <<>> =>
      in_poll /\ (kicked \/ \E t \in Threads : tpc[t] = "kick")

\* The kernel holds a registration exactly for the armed fibers, and an armed
\* fiber is inside its io wait: no delivery can name a fiber that moved on.
ArmedIsWaiting ==
    /\ registered = Armed
    /\ \A f \in Armed : wait[f] = "io" /\ state[f] # "DONE"

\* "io_waiters counts armed fibers" (struct BeansWorker): it decides whether the
\* idle wait polls at all.
IoWaitersCountArmed == io_waiters = Cardinality(Armed)

\* A timer that is not due yet belongs to the wait its fiber is in: "nothing
\* fires at a retired fiber" (beans_fiber_sleep, sleeper_remove).
TimerNamesWaiter ==
    \A e \in sleepers :
      e[1] > now => deadline[e[2]] = e[1] /\ wait[e[2]] \in {"io", "sleep"}

\* As long as nothing was cancelled, the count the idle wait goes by is exact.
CountedUntilCancel == cancels = 0 => IoWaitersCountArmed

\* As long as nothing was cancelled, a timer that is not due yet belongs to the
\* wait its fiber is in, also after a wait that ended before its deadline.
TimersUntilCancel == cancels = 0 => TimerNamesWaiter

\* What the idle wait decides by is what the fibers wait for: registrations
\* belong to io waits, and until the first cancel the count of io waiters
\* and the pending timers do too (poller_arm, poller_disarm,
\* sleeper_remove).
WaitsAccounted == TypeOK /\ ArmedIsWaiting /\ CountedUntilCancel
    /\ TimersUntilCancel

\* A deadlock is reported only when nothing can wake any fiber, as long as no
\* cancel has left io_waiters too small.
ReportIsDeadlock ==
    phase = "reported" /\ cancels = 0 =>
      /\ \A f \in Fibers : state[f] \in {"PARKED", "DONE"}
      /\ Armed = {}
      /\ sleepers = {}
      /\ ~MayWake

\* A fiber whose descriptor became ready runs again, unless a cancel comes
\* between, which can leave io_waiters too small.
IoServedTo(f) ==
    (f \in registered /\ f \in fd_ready /\ state[f] = "PARKED" /\ cancels = 0)
      ~> (state[f] = "RUNNING" \/ cancels # 0)

\* A fiber whose deadline passed runs again, whichever idle wait the worker is in.
TimerServedTo(f) == (state[f] = "PARKED" /\ Expired(f)) ~> (state[f] = "RUNNING")

\* A fiber a foreign thread made ready runs, wherever the worker was blocked.
PostServedTo(f) == (state[f] = "READY") ~> (state[f] = "RUNNING")

\* Whichever idle wait the worker is in: a fiber whose descriptor became ready
\* runs again, unless a cancel comes between, which can leave io_waiters too
\* small (poller_drain, io_idle_wait); so does one whose deadline passed
\* (sleeper_fire_due), and one a foreign thread posted (inbox_post,
\* inbox_drain).  Nothing tells the fibers apart, so it is stated of one.
Served ==
    LET one == CHOOSE f \in Fibers : TRUE
    IN IoServedTo(one) /\ TimerServedTo(one) /\ PostServedTo(one)

Hopeless ==
    /\ \A f \in Fibers : state[f] \in {"PARKED", "DONE"}
    /\ \E f \in Fibers : state[f] = "PARKED"
    /\ Armed = {} /\ sleepers = {} /\ ~MayWake

\* spec/CONCURRENCY.md: "a program whose every fiber is parked with no thread able
\* to wake them prints the fiber table and exits 3 instead of hanging".
DeadlockReported == Hopeless ~> (phase = "reported")
=============================================================================
