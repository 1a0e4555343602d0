----------------------------- MODULE FiberCore -----------------------------
(***************************************************************************)
(* The park / resume / settle core of the fiber runtime                    *)
(* (runtime/beans_fiber.c): one worker thread multiplexing fibers, and     *)
(* foreign OS threads that resume fibers of that worker.                   *)
(*                                                                         *)
(* One action is one step between two accesses of shared memory (the       *)
(* atomics state and pending_wake, the locked inbox).  What only the       *)
(* worker thread touches (run queue, joiner, pool, unwind state, cancel    *)
(* flag) moves together with the access it precedes.  The code's atomics   *)
(* are all sequentially consistent.                                        *)
(***************************************************************************)
EXTENDS Integers, Sequences, FiniteSets, Functions

CONSTANTS Fibers,       \* fiber records: pooled, or calloc'ed at need
          Root,         \* the promoted thread: never finishes, ends the process
          Threads,      \* foreign OS threads
          Interpreted,  \* fibers with a cancel handler (the tree interpreter's)
          None,
          MaxOps,       \* bound: spawns, resumes, cancels, panics, contained calls
          MaxResumes,   \* bound: resumes by foreign threads
          MaxDepth      \* bound: nested contained calls on one fiber

ASSUME ConstantsAssumption ==
    /\ Root \in Fibers
    /\ Interpreted \subseteq Fibers
    /\ None \notin Fibers
    /\ IsFiniteSet(Fibers)
    /\ MaxOps \in Nat
    /\ MaxResumes \in Nat
    /\ MaxDepth \in Nat

VARIABLES
    state,           \* fiber -> the five states of the record
    pending_wake,    \* fiber -> the wake latch
    cancel_flag,     \* fiber -> cancellation was requested
    cancel_mask,     \* fiber -> the handler took the cancellation over
    unwind_status,   \* fiber -> the ending a controlled unwind carries, or "NONE"
    contained_depth, \* fiber -> catch frames standing on its stack
    status,          \* fiber -> how it ended, once DONE
    joiner,          \* fiber -> the fiber parked in its join, or None
    owner,           \* fiber -> the fiber that holds its join handle, or None
    forgotten,       \* fiber -> nobody will join it
    at,              \* fiber -> where its own code stands
    target,          \* fiber -> the child it is joining, or None
    pool,            \* records a spawn may take
    all,             \* every live fiber of the worker
    live,            \* the worker's count of them
    ready,           \* the run queue
    inbox,           \* fibers made ready by foreign threads
    current,         \* the running fiber, or None
    settling,        \* the fiber that just switched away, or None
    disposition,     \* what it asked the scheduler to do
    phase,           \* where the worker thread stands
    rpc,             \* thread -> where its beans_fiber_resume stands
    rtarget,         \* thread -> the fiber it is resuming, or None
    asked,           \* history: fiber -> this life of the record was cancelled
    ops,             \* operations taken, bounded by MaxOps
    resumes          \* foreign resumes taken, bounded by MaxResumes

records == <<cancel_flag, cancel_mask, unwind_status, contained_depth, status,
             owner, forgotten, asked>>
worker  == <<pool, all, live>>
foreign == <<rpc, rtarget, resumes>>
vars == <<state, pending_wake, records, joiner, at, target, worker, ready,
          inbox, current, settling, disposition, phase, foreign, ops>>

States   == {"RUNNING", "READY", "PARKING", "PARKED", "DONE"}
Endings  == {"OK", "PANICKED", "CANCELLED"}
Phases   == {"fiber", "settle", "publish", "drain", "pop", "exited"}
ResumePC == {"idle", "load", "cas", "post", "latch", "recheck"}

TypeOK ==
    /\ state \in [Fibers -> States]
    /\ pending_wake \in [Fibers -> BOOLEAN]
    /\ cancel_flag \in [Fibers -> BOOLEAN]
    /\ cancel_mask \in [Fibers -> BOOLEAN]
    /\ unwind_status \in [Fibers -> {"NONE", "PANICKED", "CANCELLED"}]
    /\ contained_depth \in [Fibers -> 0..MaxDepth]
    /\ status \in [Fibers -> Endings]
    /\ joiner \in [Fibers -> Fibers \union {None}]
    /\ owner \in [Fibers -> Fibers \union {None}]
    /\ forgotten \in [Fibers -> BOOLEAN]
    /\ at \in [Fibers -> {"code", "parked", "yielded", "join"}]
    /\ target \in [Fibers -> Fibers \union {None}]
    /\ \A f \in Fibers : at[f] = "join" => target[f] \in Fibers
    /\ pool \subseteq Fibers
    /\ all \subseteq Fibers
    /\ live \in Int
    /\ ready \in Seq(Fibers)
    /\ inbox \in Seq(Fibers)
    /\ current \in Fibers \union {None}
    /\ settling \in Fibers \union {None}
    /\ disposition \in {"NONE", "PARK", "YIELD", "FINISH"}
    /\ phase \in Phases
    /\ rpc \in [Threads -> ResumePC]
    /\ rtarget \in [Threads -> Fibers \union {None}]
    /\ asked \in [Fibers -> BOOLEAN]
    /\ ops \in 0..MaxOps
    /\ resumes \in 0..MaxResumes

-----------------------------------------------------------------------------
(* beans_worker_bootstrap: the calling thread becomes the root fiber.      *)

Init ==
    /\ state = [f \in Fibers |-> IF f = Root THEN "RUNNING" ELSE "DONE"]
    /\ pending_wake = [f \in Fibers |-> FALSE]
    /\ cancel_flag = [f \in Fibers |-> FALSE]
    /\ cancel_mask = [f \in Fibers |-> FALSE]
    /\ unwind_status = [f \in Fibers |-> "NONE"]
    /\ contained_depth = [f \in Fibers |-> 0]
    /\ status = [f \in Fibers |-> "OK"]
    /\ joiner = [f \in Fibers |-> None]
    /\ owner = [f \in Fibers |-> None]
    /\ forgotten = [f \in Fibers |-> FALSE]
    /\ at = [f \in Fibers |-> "code"]
    /\ target = [f \in Fibers |-> None]
    /\ pool = Fibers \ {Root}
    /\ all = {Root}
    /\ live = 1
    /\ ready = <<>>
    /\ inbox = <<>>
    /\ current = Root
    /\ settling = None
    /\ disposition = "NONE"
    /\ phase = "fiber"
    /\ rpc = [t \in Threads |-> "idle"]
    /\ rtarget = [t \in Threads |-> None]
    /\ asked = [f \in Fibers |-> FALSE]
    /\ ops = 0
    /\ resumes = 0

-----------------------------------------------------------------------------
(* Helpers.                                                                *)

\* fiber_cancel_observable
Observable(f) == ~cancel_mask[f] /\ unwind_status[f] = "NONE" /\ cancel_flag[f]

\* f runs its own code (as opposed to sitting inside a park or a join).
InCode(f) == phase = "fiber" /\ current = f /\ at[f] = "code"

Children(f) == {c \in Fibers : owner[c] = f}

\* Mutant: a resume makes the fiber READY and forgets to push it.
UnparkedLost(f) == <<>>

\* The fiber a resume puts on the run queue, if it does.
Unparked(f) == IF f # None /\ state[f] = "PARKED" THEN <<f>> ELSE <<>>

\* beans_fiber_resume called on the worker's own thread.  It is atomic for the
\* foreign threads: the only change they can make under it is PARKED -> READY,
\* which sends the failed CAS round the loop into the latch.
ResumeHere(f) ==
    /\ state' = IF state[f] = "PARKED" THEN [state EXCEPT ![f] = "READY"]
                                       ELSE state
    /\ ready' = ready \o Unparked(f)
    /\ pending_wake' = IF state[f] \in {"PARKED", "DONE"}
                         THEN pending_wake
                         ELSE [pending_wake EXCEPT ![f] = TRUE]

\* fiber_to_scheduler: the running fiber leaves with a disposition.
SwitchAway(f, d) ==
    /\ state' = [state EXCEPT ![f] = "PARKING"]
    /\ disposition' = d
    /\ settling' = f
    /\ current' = None
    /\ phase' = "settle"

\* beans_fiber_exit_cancelled: unwind natively, or hand over to the interpreter.
ExitCancelled(f) ==
    IF f \in Interpreted
      THEN /\ cancel_mask' = [cancel_mask EXCEPT ![f] = TRUE]
           /\ UNCHANGED unwind_status
      ELSE /\ unwind_status' = [unwind_status EXCEPT ![f] = "CANCELLED"]
           /\ UNCHANGED cancel_mask

Count == /\ ops < MaxOps
         /\ ops' = ops + 1

-----------------------------------------------------------------------------
(* What a running fiber does.                                              *)

\* Mutant: the latch of the record's last life is kept.
ResetAtomicsLatchKept(c) ==
    /\ cancel_flag' = [cancel_flag EXCEPT ![c] = FALSE]
    /\ UNCHANGED pending_wake

\* The stores to the atomics of a new or reused record.
ResetAtomics(c) ==
    /\ pending_wake' = [pending_wake EXCEPT ![c] = FALSE]
    /\ cancel_flag' = [cancel_flag EXCEPT ![c] = FALSE]

\* The memset of a reused record, or the calloc of a fresh one.
ResetRecord(c) ==
    /\ cancel_mask' = [cancel_mask EXCEPT ![c] = FALSE]
    /\ unwind_status' = [unwind_status EXCEPT ![c] = "NONE"]
    /\ contained_depth' = [contained_depth EXCEPT ![c] = 0]
    /\ status' = [status EXCEPT ![c] = "OK"]
    /\ joiner' = [joiner EXCEPT ![c] = None]

\* beans_fiber_spawn: a pooled or a fresh record, reset, queued ready.  The
\* handle goes to the spawner, or to nobody (beans_fiber_forget).
Spawn(f, c, forget) ==
    /\ InCode(f)
    /\ Count
    /\ c \in pool
    /\ pool' = pool \ {c}
    /\ state' = [state EXCEPT ![c] = "READY"]
    /\ ResetAtomics(c)
    /\ ResetRecord(c)
    /\ forgotten' = [forgotten EXCEPT ![c] = forget]
    /\ owner' = [owner EXCEPT ![c] = IF forget THEN None ELSE f]
    /\ at' = [at EXCEPT ![c] = "code"]
    /\ live' = live + 1
    /\ all' = all \union {c}
    /\ ready' = Append(ready, c)
    /\ asked' = [asked EXCEPT ![c] = FALSE]
    /\ UNCHANGED <<target, inbox, current, settling, disposition, phase, foreign>>

\* A resume the running fiber issues (a channel, a gate, a group waking a waiter).
Resume(f, g) ==
    /\ InCode(f)
    /\ Count
    /\ g \in all
    /\ ResumeHere(g)
    /\ UNCHANGED <<records, joiner, at, target, worker, inbox, current, settling,
                   disposition, phase, foreign>>

\* Mutant: the flag is set and nobody is woken.
CancelSilently(f, c) ==
    /\ InCode(f)
    /\ Count
    /\ owner[c] = f
    /\ cancel_flag' = [cancel_flag EXCEPT ![c] = TRUE]
    /\ asked' = [asked EXCEPT ![c] = TRUE]
    /\ UNCHANGED <<state, pending_wake, ready, cancel_mask, unwind_status,
                   contained_depth, status, owner, forgotten, joiner, at, target,
                   worker, inbox, current, settling, disposition, phase, foreign>>

\* beans_fiber_cancel: the flag first, then the wake.
Cancel(f, c) ==
    /\ InCode(f)
    /\ Count
    /\ owner[c] = f
    /\ cancel_flag' = [cancel_flag EXCEPT ![c] = TRUE]
    /\ asked' = [asked EXCEPT ![c] = TRUE]
    /\ ResumeHere(c)
    /\ UNCHANGED <<cancel_mask, unwind_status, contained_depth, status, owner,
                   forgotten, joiner, at, target, worker, inbox, current,
                   settling, disposition, phase, foreign>>

\* beans_fiber_park answers CANCELLED before switching away (yield does too).
ParkRefused(f) ==
    /\ InCode(f)
    /\ Observable(f)
    /\ ExitCancelled(f)
    /\ UNCHANGED <<state, pending_wake, cancel_flag, contained_depth, status,
                   owner, forgotten, asked, joiner, at, target, worker, ready,
                   inbox, current, settling, disposition, phase, foreign, ops>>

\* beans_fiber_park consumes the latch and returns at once.
ParkLatched(f) ==
    /\ InCode(f)
    /\ ~Observable(f)
    /\ pending_wake[f]
    /\ pending_wake' = [pending_wake EXCEPT ![f] = FALSE]
    /\ UNCHANGED <<state, records, joiner, at, target, worker, ready, inbox,
                   current, settling, disposition, phase, foreign, ops>>

\* beans_fiber_park switches away.
ParkSwitch(f) ==
    /\ InCode(f)
    /\ ~Observable(f)
    /\ ~pending_wake[f]
    /\ at' = [at EXCEPT ![f] = "parked"]
    /\ SwitchAway(f, "PARK")
    /\ UNCHANGED <<pending_wake, records, joiner, target, worker, ready, inbox,
                   foreign, ops>>

\* beans_fiber_yield switches away; the latch is neither read nor cleared.
Yield(f) ==
    /\ InCode(f)
    /\ ~Observable(f)
    /\ at' = [at EXCEPT ![f] = "yielded"]
    /\ SwitchAway(f, "YIELD")
    /\ UNCHANGED <<pending_wake, records, joiner, target, worker, ready, inbox,
                   foreign, ops>>

\* Back from the switch: a cancel that raced the wake still reads as cancelled.
ParkReturn(f) ==
    /\ phase = "fiber"
    /\ current = f
    /\ at[f] \in {"parked", "yielded"}
    /\ at' = [at EXCEPT ![f] = "code"]
    /\ IF Observable(f) THEN ExitCancelled(f)
                        ELSE UNCHANGED <<cancel_mask, unwind_status>>
    /\ UNCHANGED <<state, pending_wake, cancel_flag, contained_depth, status,
                   owner, forgotten, asked, joiner, target, worker, ready,
                   inbox, current, settling, disposition, phase, foreign, ops>>

-----------------------------------------------------------------------------
(* beans_fiber_join: the loop over park, on behalf of the handle's owner.  *)

JoinEnter(f, c) ==
    /\ InCode(f)
    /\ owner[c] = f
    /\ at' = [at EXCEPT ![f] = "join"]
    /\ target' = [target EXCEPT ![f] = c]
    /\ UNCHANGED <<state, pending_wake, records, joiner, worker, ready, inbox,
                   current, settling, disposition, phase, foreign, ops>>

Joining(f) == phase = "fiber" /\ current = f /\ at[f] = "join"

\* The child is DONE: its outcome is delivered even to a cancelled joiner, and
\* fiber_retire pools the record.
JoinDeliver(f) ==
    LET c == target[f] IN
    /\ Joining(f)
    /\ state[c] = "DONE"
    /\ joiner' = [joiner EXCEPT ![c] = None]
    /\ owner' = [owner EXCEPT ![c] = None]
    /\ pool' = pool \union {c}
    /\ at' = [at EXCEPT ![f] = "code"]
    /\ target' = [target EXCEPT ![f] = None]
    /\ UNCHANGED <<state, pending_wake, cancel_flag, cancel_mask, unwind_status,
                   contained_depth, status, forgotten, asked, all, live, ready,
                   inbox, current, settling, disposition, phase, foreign, ops>>

\* The park answered CANCELLED and the child is still going: leave it to the
\* owning scope's cleanup join.
JoinCancelled(f) ==
    LET c == target[f] IN
    /\ Joining(f)
    /\ state[c] # "DONE"
    /\ Observable(f)
    /\ joiner' = [joiner EXCEPT ![c] = None]
    /\ at' = [at EXCEPT ![f] = "code"]
    /\ target' = [target EXCEPT ![f] = None]
    /\ ExitCancelled(f)
    /\ UNCHANGED <<state, pending_wake, cancel_flag, contained_depth, status,
                   owner, forgotten, asked, worker, ready, inbox, current,
                   settling, disposition, phase, foreign, ops>>

\* The latch answers this park: look at the child again.
JoinLatched(f) ==
    LET c == target[f] IN
    /\ Joining(f)
    /\ state[c] # "DONE"
    /\ ~Observable(f)
    /\ pending_wake[f]
    /\ pending_wake' = [pending_wake EXCEPT ![f] = FALSE]
    /\ joiner' = [joiner EXCEPT ![c] = None]
    /\ UNCHANGED <<state, records, at, target, worker, ready, inbox, current,
                   settling, disposition, phase, foreign, ops>>

JoinPark(f) ==
    LET c == target[f] IN
    /\ Joining(f)
    /\ state[c] # "DONE"
    /\ ~Observable(f)
    /\ ~pending_wake[f]
    /\ joiner' = [joiner EXCEPT ![c] = f]
    /\ SwitchAway(f, "PARK")
    /\ UNCHANGED <<pending_wake, records, at, target, worker, ready, inbox,
                   foreign, ops>>

-----------------------------------------------------------------------------
(* Contained calls, panics and endings.                                    *)

\* beans_fiber_contained_enter
ContainedEnter(f) ==
    /\ InCode(f)
    /\ Count
    /\ contained_depth[f] < MaxDepth
    /\ contained_depth' = [contained_depth EXCEPT ![f] = @ + 1]
    /\ UNCHANGED <<state, pending_wake, cancel_flag, cancel_mask, unwind_status,
                   status, owner, forgotten, asked, joiner, at, target, worker,
                   ready, inbox, current, settling, disposition, phase, foreign>>

\* Mutant: the depth is not tested before it is decremented.
ContainedLeaveUnguarded(f) ==
    /\ InCode(f)
    /\ unwind_status[f] # "CANCELLED"
    /\ contained_depth' = [contained_depth EXCEPT ![f] = @ - 1]
    /\ unwind_status' = [unwind_status EXCEPT ![f] = "NONE"]
    /\ UNCHANGED <<state, pending_wake, cancel_flag, cancel_mask, status, owner,
                   forgotten, asked, joiner, at, target, worker, ready, inbox,
                   current, settling, disposition, phase, foreign, ops>>

\* beans_fiber_contained_leave on the non-failing path, beans_fiber_contained_caught
\* on a panic's: the fiber stops unwinding and keeps running.  A cancellation is
\* not caught (the pad asks beans_fiber_cancelling and passes it on).
ContainedLeave(f) ==
    /\ InCode(f)
    /\ contained_depth[f] > 0
    /\ unwind_status[f] # "CANCELLED"
    /\ contained_depth' = [contained_depth EXCEPT ![f] = @ - 1]
    /\ unwind_status' = [unwind_status EXCEPT ![f] = "NONE"]
    /\ UNCHANGED <<state, pending_wake, cancel_flag, cancel_mask, status, owner,
                   forgotten, asked, joiner, at, target, worker, ready, inbox,
                   current, settling, disposition, phase, foreign, ops>>

\* beans_panic on a fiber that can contain it: beans_fiber_begin_unwind.
Panic(f) ==
    /\ InCode(f)
    /\ Count
    /\ unwind_status[f] = "NONE"
    /\ f # Root \/ contained_depth[f] > 0
    /\ unwind_status' = [unwind_status EXCEPT ![f] = "PANICKED"]
    /\ UNCHANGED <<state, pending_wake, cancel_flag, cancel_mask,
                   contained_depth, status, owner, forgotten, asked, joiner, at,
                   target, worker, ready, inbox, current, settling, disposition,
                   phase, foreign>>

\* fiber_finish: returned, or unwound to the entry frame.  Scope exit has joined
\* the children, and a standing catch frame stops a panic first.
Finish(f) ==
    /\ InCode(f)
    /\ f # Root
    /\ Children(f) = {}
    /\ unwind_status[f] = "CANCELLED" \/ contained_depth[f] = 0
    /\ status' = [status EXCEPT ![f] = IF unwind_status[f] = "NONE"
                                         THEN "OK" ELSE unwind_status[f]]
    /\ SwitchAway(f, "FINISH")
    /\ UNCHANGED <<pending_wake, cancel_flag, cancel_mask, unwind_status,
                   contained_depth, owner, forgotten, asked, joiner, at, target,
                   worker, ready, inbox, foreign, ops>>

\* The process ends: the root returned, panicked with nothing to contain it, or
\* a fiber panicked while it was unwinding.
ExitProcess(f) ==
    /\ InCode(f)
    /\ \/ f = Root /\ Children(f) = {} /\ contained_depth[f] = 0
       \/ f = Root /\ contained_depth[f] = 0 /\ ops < MaxOps
       \/ unwind_status[f] # "NONE" /\ ops < MaxOps
    /\ phase' = "exited"
    /\ UNCHANGED <<state, pending_wake, records, joiner, at, target, worker,
                   ready, inbox, current, settling, disposition, foreign, ops>>

-----------------------------------------------------------------------------
(* The scheduler: settle, inbox_drain, run_one.                            *)

\* settle(DISPOSE_PARK): the latch decides before PARKED is published.
SettlePark ==
    /\ phase = "settle"
    /\ disposition = "PARK"
    /\ IF pending_wake[settling]
         THEN /\ pending_wake' = [pending_wake EXCEPT ![settling] = FALSE]
              /\ state' = [state EXCEPT ![settling] = "READY"]
              /\ ready' = Append(ready, settling)
              /\ settling' = None
              /\ phase' = "drain"
         ELSE /\ phase' = "publish"
              /\ UNCHANGED <<pending_wake, state, ready, settling>>
    /\ UNCHANGED <<records, joiner, at, target, worker, inbox, current,
                   disposition, foreign, ops>>

\* settle's compare-and-swap PARKING -> PARKED, and its other branch.
Publish ==
    /\ phase = "publish"
    /\ IF state[settling] = "PARKING"
         THEN /\ state' = [state EXCEPT ![settling] = "PARKED"]
              /\ UNCHANGED ready
         ELSE /\ state' = [state EXCEPT ![settling] = "READY"]
              /\ ready' = Append(ready, settling)
    /\ settling' = None
    /\ phase' = "drain"
    /\ UNCHANGED <<pending_wake, records, joiner, at, target, worker, inbox,
                   current, disposition, foreign, ops>>

\* Mutant: a yield goes back to the front of the run queue.
SettleYieldFront ==
    /\ phase = "settle"
    /\ disposition = "YIELD"
    /\ state' = [state EXCEPT ![settling] = "READY"]
    /\ ready' = <<settling>> \o ready
    /\ settling' = None
    /\ phase' = "drain"
    /\ UNCHANGED <<pending_wake, records, joiner, at, target, worker, inbox,
                   current, disposition, foreign, ops>>

\* settle(DISPOSE_YIELD): the latch belongs to the next park.
SettleYield ==
    /\ phase = "settle"
    /\ disposition = "YIELD"
    /\ state' = [state EXCEPT ![settling] = "READY"]
    /\ ready' = Append(ready, settling)
    /\ settling' = None
    /\ phase' = "drain"
    /\ UNCHANGED <<pending_wake, records, joiner, at, target, worker, inbox,
                   current, disposition, foreign, ops>>

\* Mutant: only the hook's fiber is resumed.
EndAndWakeHookOnly(f, h, j) ==
    /\ state' = [g \in Fibers |-> CASE g = f -> "DONE"
                                    [] g = h /\ g # f /\ state[g] = "PARKED" -> "READY"
                                    [] OTHER -> state[g]]
    /\ ready' = ready \o Unparked(h)
    /\ UNCHANGED pending_wake

\* The settled fiber ends, and with it h and j are resumed, in this order.
EndAndWake(f, h, j) ==
    /\ state' = [g \in Fibers |-> CASE g = f -> "DONE"
                                    [] g \in {h, j} \ {f} /\ state[g] = "PARKED" -> "READY"
                                    [] OTHER -> state[g]]
    /\ ready' = ready \o Unparked(h) \o (IF j = h THEN <<>> ELSE Unparked(j))
    /\ pending_wake' = [g \in Fibers |->
                           \/ pending_wake[g]
                           \/ g \in {h, j} /\ state[g] \notin {"PARKED", "DONE"}
                           \/ g = h /\ g = j /\ state[g] = "PARKED"]

\* worker->live -= 1, all_remove
Uncount(f) == all' = all \ {f} /\ live' = live - 1

\* Mutant: a record nobody is joining right now is taken for one nobody will join.
RetireUnjoined(f) == pool' = IF joiner[f] = None THEN pool \union {f} ELSE pool

\* The forgotten record has no joiner to retire it.
RetireForgotten(f) == pool' = IF joiner[f] = None /\ forgotten[f]
                                THEN pool \union {f} ELSE pool

\* settle(DISPOSE_FINISH): DONE, uncounted; the completion hook wakes h, the fiber
\* parked for any child of its task group (None: no hook, or nobody waits); then
\* the joiner is woken or, if there is none, a forgotten record retired.
SettleFinish(h) ==
    /\ phase = "settle"
    /\ disposition = "FINISH"
    /\ IF h = None THEN UNCHANGED ops
                   ELSE Count /\ h \in all /\ at[h] = "parked"
    /\ EndAndWake(settling, h, joiner[settling])
    /\ Uncount(settling)
    /\ RetireForgotten(settling)
    /\ settling' = None
    /\ phase' = "drain"
    /\ UNCHANGED <<records, joiner, at, target, inbox, current, disposition,
                   foreign>>

\* inbox_drain(0) at the top of sched_main's loop.
Drain ==
    /\ phase = "drain"
    /\ ready' = ready \o inbox
    /\ inbox' = <<>>
    /\ phase' = "pop"
    /\ UNCHANGED <<state, pending_wake, records, joiner, at, target, worker,
                   current, settling, disposition, foreign, ops>>

\* ready_pop and run_one up to the switch into the fiber.
Dispatch ==
    /\ phase = "pop"
    /\ ready # <<>>
    /\ state' = [state EXCEPT ![Head(ready)] = "RUNNING"]
    /\ current' = Head(ready)
    /\ ready' = Tail(ready)
    /\ disposition' = "NONE"
    /\ phase' = "fiber"
    /\ UNCHANGED <<pending_wake, records, joiner, at, target, worker, inbox,
                   settling, foreign, ops>>

\* idle_wait with no timer and no io waiter: inbox_drain(1) sleeps until a
\* foreign thread posts.
IdleWait ==
    /\ phase = "pop"
    /\ ready = <<>>
    /\ inbox # <<>>
    /\ ready' = inbox
    /\ inbox' = <<>>
    /\ phase' = "drain"
    /\ UNCHANGED <<state, pending_wake, records, joiner, at, target, worker,
                   current, settling, disposition, foreign, ops>>

-----------------------------------------------------------------------------
(* beans_fiber_resume on a foreign thread, one atomic access per step.     *)

ForeignOnly == UNCHANGED <<records, joiner, at, target, worker, ready, current,
                           settling, disposition, phase, ops>>

At(t, pc) == rpc' = [rpc EXCEPT ![t] = pc] /\ UNCHANGED rtarget

Return(t) == /\ rpc' = [rpc EXCEPT ![t] = "idle"]
             /\ rtarget' = [rtarget EXCEPT ![t] = None]

ResumeCall(t, f) ==
    /\ phase # "exited"
    /\ rpc[t] = "idle"
    /\ resumes < MaxResumes
    /\ f \in all
    /\ resumes' = resumes + 1
    /\ rpc' = [rpc EXCEPT ![t] = "load"]
    /\ rtarget' = [rtarget EXCEPT ![t] = f]
    /\ ForeignOnly
    /\ UNCHANGED <<state, pending_wake, inbox>>

ResumeLoad(t) ==
    /\ phase # "exited"
    /\ rpc[t] = "load"
    /\ CASE state[rtarget[t]] = "PARKED" -> At(t, "cas")
         [] state[rtarget[t]] = "DONE" -> Return(t)
         [] OTHER -> At(t, "latch")
    /\ ForeignOnly
    /\ UNCHANGED <<state, pending_wake, inbox, resumes>>

\* The CAS PARKED -> READY; a loser loads again.
ResumeCas(t) ==
    /\ phase # "exited"
    /\ rpc[t] = "cas"
    /\ IF state[rtarget[t]] = "PARKED"
         THEN /\ state' = [state EXCEPT ![rtarget[t]] = "READY"]
              /\ At(t, "post")
         ELSE /\ At(t, "load")
              /\ UNCHANGED state
    /\ ForeignOnly
    /\ UNCHANGED <<pending_wake, inbox, resumes>>

\* inbox_post
ResumePost(t) ==
    /\ phase # "exited"
    /\ rpc[t] = "post"
    /\ inbox' = Append(inbox, rtarget[t])
    /\ Return(t)
    /\ ForeignOnly
    /\ UNCHANGED <<state, pending_wake, resumes>>

ResumeLatch(t) ==
    /\ phase # "exited"
    /\ rpc[t] = "latch"
    /\ pending_wake' = [pending_wake EXCEPT ![rtarget[t]] = TRUE]
    /\ At(t, "recheck")
    /\ ForeignOnly
    /\ UNCHANGED <<state, inbox, resumes>>

ResumeRecheck(t) ==
    /\ phase # "exited"
    /\ rpc[t] = "recheck"
    /\ IF state[rtarget[t]] = "PARKED" THEN At(t, "load") ELSE Return(t)
    /\ ForeignOnly
    /\ UNCHANGED <<state, pending_wake, inbox, resumes>>

-----------------------------------------------------------------------------
FiberStep(f) ==
    \/ \E c \in Fibers, forget \in BOOLEAN : Spawn(f, c, forget)
    \/ \E g \in Fibers : Resume(f, g) \/ Cancel(f, g) \/ JoinEnter(f, g)
    \/ ParkRefused(f)
    \/ ParkLatched(f)
    \/ ParkSwitch(f)
    \/ Yield(f)
    \/ ParkReturn(f)
    \/ JoinDeliver(f)
    \/ JoinCancelled(f)
    \/ JoinLatched(f)
    \/ JoinPark(f)
    \/ ContainedEnter(f)
    \/ ContainedLeave(f)
    \/ Panic(f)
    \/ Finish(f)
    \/ ExitProcess(f)

SchedulerStep ==
    \/ SettlePark
    \/ Publish
    \/ SettleYield
    \/ \E h \in Fibers \union {None} : SettleFinish(h)
    \/ Drain
    \/ Dispatch
    \/ IdleWait

ResumeStep(t) ==
    \/ ResumeLoad(t)
    \/ ResumeCas(t)
    \/ ResumePost(t)
    \/ ResumeLatch(t)
    \/ ResumeRecheck(t)

Next ==
    \/ \E f \in Fibers : FiberStep(f)
    \/ SchedulerStep
    \/ \E t \in Threads : ResumeStep(t) \/ \E f \in Fibers : ResumeCall(t, f)

Spec == Init /\ [][Next]_vars

\* The worker thread is never stopped for good while it can move (a fiber always
\* reaches its next switch), and a thread inside a resume completes it; nothing
\* makes a foreign thread call resume.
Fairness ==
    /\ WF_vars((\E f \in Fibers : FiberStep(f)) \/ SchedulerStep)
    /\ \A t \in Threads : WF_vars(ResumeStep(t))

FairSpec == Spec /\ Fairness

-----------------------------------------------------------------------------
(* Properties.                                                             *)

Posting == {t \in Threads : rpc[t] = "post"}

\* Every fiber is linked at most once: queue_next is shared by the run queue and
\* the inbox, so a second link anywhere would cut one of the lists.
LinkedOnce ==
    /\ IsInjective(ready)
    /\ IsInjective(inbox)
    /\ Range(ready) \intersect Range(inbox) = {}
    /\ \A t \in Posting : rtarget[t] \notin Range(ready) \union Range(inbox)
    /\ \A t, u \in Posting : rtarget[t] = rtarget[u] => t = u

\* READY is exactly "queued, posted, or about to be posted by the thread that won
\* the CAS": no fiber is made ready and then left on no list.
ReadyIsQueued ==
    \A f \in Fibers :
      state[f] = "READY" <=>
        \/ f \in Range(ready) \union Range(inbox)
        \/ \E t \in Posting : rtarget[t] = f

\* The live count that ends beans_worker_run and the table the deadlock report
\* prints are the fibers that have not ended, whatever was reused from the pool.
LiveCount ==
    /\ live = Cardinality(all)
    /\ all = {f \in Fibers : state[f] # "DONE"}

\* A parent is never asleep in the join of a child that has ended, and the child
\* it sleeps on names it as its joiner.
JoinerNotStranded ==
    \A f \in Fibers :
      at[f] = "join" /\ state[f] = "PARKED" =>
        /\ state[target[f]] # "DONE"
        /\ joiner[target[f]] = f

\* No fiber sleeps on a cancellation it could observe, although flag, wake and
\* park are separate steps and wakes of foreign threads fall anywhere between.
CancelNeverSlept ==
    \A f \in Fibers : state[f] = "PARKED" => ~Observable(f)

\* A fiber only ends cancelled when this life of its record was cancelled: what a
\* pooled record carried before does not leak into the fiber that reuses it.
CancelledOnlyIfAsked ==
    \A f \in Fibers :
      \/ unwind_status[f] = "CANCELLED"
      \/ status[f] = "CANCELLED"
      \/ cancel_mask[f]
      => asked[f]

\* No fiber sleeps over a cancellation it can observe, and none ends as
\* cancelled that nobody cancelled, however records are pooled
\* (beans_fiber_park, beans_fiber_cancel, beans_fiber_spawn).
CancelSound == CancelNeverSlept /\ CancelledOnlyIfAsked

\* A pooled record has ended and no list, waiter or handle reaches it.
PooledUnreachable ==
    \A f \in pool :
      /\ state[f] = "DONE"
      /\ owner[f] = None
      /\ joiner[f] = None
      /\ f \notin Range(ready) \union Range(inbox)
      /\ \A g \in all : target[g] # f

\* settle's compare-and-swap always finds PARKING, so the branch behind it that
\* requeues "a wake latched between the exchange and the store" is never taken.
PublishFindsParking ==
    phase = "publish" => state[settling] = "PARKING"

\* A fiber that can run is on exactly one list, once, the count the exit
\* test reads is that of the live fibers, and settle publishes from the
\* state it left (ready_push, inbox_post, settle).
QueuesSound == LinkedOnce /\ ReadyIsQueued /\ LiveCount /\ PublishFindsParking

\* beans_fiber.h: a resume that arrives while the fiber still runs "is
\* remembered, so a resume/park race never loses the wake": a latched wake is
\* not left on a parked fiber once the resume that latched it has returned.
NoLostWake ==
    \A f \in Fibers :
      state[f] = "PARKED" /\ pending_wake[f] =>
        \E t \in Threads : rtarget[t] = f /\ rpc[t] # "idle"

Token == INSTANCE WakeToken WITH
    st   <- [f \in Fibers |-> CASE state[f] \in {"RUNNING", "PARKING"} -> "run"
                                [] state[f] = "READY" -> "ready"
                                [] state[f] = "PARKED" -> "blocked"
                                [] OTHER -> "ended"],
    owed <- pending_wake

TokenStep == Token!Next \/ UNCHANGED Token!vars

\* The park / resume promise of beans_fiber.h as a specification of its own: the
\* scheduler implements it as long as every wake comes from the worker's own
\* thread (NoLostWake says what a foreign one can break).
TokenSpec == Token!Init /\ [][resumes' = 0 => TokenStep]_vars

\* A ready fiber gets to run: the queue is first in, first out, and a foreign
\* thread that won the CAS posts.
ReadyRuns ==
    \A f \in Fibers :
      state[f] = "READY" ~> (state[f] = "RUNNING" \/ phase = "exited")

\* A parent in the join of a child that ended comes back with the outcome.
JoinReturns ==
    \A f \in Fibers :
      (at[f] = "join" /\ state[target[f]] = "DONE")
        ~> (at[f] # "join" \/ phase = "exited")

\* A cancelled fiber observes it: no sequence of parks, joins and stray wakes lets
\* it go on for ever with the cancellation pending.
CancelObserved ==
    \A f \in Fibers :
      Observable(f) ~> (~Observable(f) \/ state[f] = "DONE" \/ phase = "exited")
=============================================================================
