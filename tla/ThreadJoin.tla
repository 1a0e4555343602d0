---------------------------- MODULE ThreadJoin -----------------------------
(***************************************************************************)
(* One OS thread (thread_main, runtime/beans_rt.c) and the fibers of one   *)
(* worker that join or detach its handle, cancellation of a parked joiner  *)
(* included.  Fibers of the worker interleave only where one parks; the OS *)
(* thread interleaves with each of their atomic accesses.  pthread_create  *)
(* is taken to succeed: the code does not look at its answer.              *)
(***************************************************************************)
EXTENDS Integers, FiniteSets

CONSTANTS Joiners,   \* callers on the worker that share the handle
          Nobody

VARIABLES
    promoted,      \* the callers are fibers of a worker, not a plain thread
    tpc,           \* the OS thread's next step
    done, join_waiter,
    held,          \* the waiter the OS thread took out of the handle
    joined,
    result,        \* "none", "ready" or "moved" to the joiner
    refs,          \* references on the handle
    freed,         \* the handle was released for the last time
    cc_threads,    \* threads that may touch the heap; 0 lets the collector run
    pc, token, flag  \* per caller

thread == <<tpc, done, held, cc_threads>>
handle == <<join_waiter, joined, result, refs, freed>>
vars == <<promoted, thread, handle, pc, token, flag>>

\* Every variable has its type; counts never go below zero.
TypeOK ==
    /\ promoted \in BOOLEAN
    /\ tpc \in {"unborn", "run", "swap", "resume", "release", "end", "exited"}
    /\ done \in BOOLEAN /\ joined \in BOOLEAN /\ freed \in BOOLEAN
    /\ join_waiter \in Joiners \union {Nobody}
    /\ held \in Joiners \union {Nobody}
    /\ result \in {"none", "ready", "moved"}
    /\ refs \in 0..2
    /\ cc_threads \in 0..1
    /\ pc \in [Joiners -> {"body", "test", "park", "parked", "ready", "retest",
                           "clear", "reap", "pjoin", "got", "detached", "panicked", "unwound"}]
    /\ token \in [Joiners -> BOOLEAN]
    /\ flag \in [Joiners -> BOOLEAN]

Init ==
    /\ promoted \in BOOLEAN
    /\ tpc = "unborn" /\ done = FALSE /\ held = Nobody /\ cc_threads = 0
    /\ join_waiter = Nobody /\ joined = FALSE /\ result = "none"
    /\ refs = 1 /\ freed = FALSE
    /\ pc = [j \in Joiners |-> "body"]
    /\ token = [j \in Joiners |-> FALSE]
    /\ flag = [j \in Joiners |-> FALSE]

At(j, p) == pc' = [pc EXCEPT ![j] = p]
Ended == {"got", "detached", "panicked", "unwound"}

\* The worker runs one fiber at a time; the others wait at a switch point.
Alone(j) == \A i \in Joiners \ {j} : pc[i] \in {"body", "parked", "ready"} \union Ended

-----------------------------------------------------------------------------

\* The counts beans_thread_spawn takes before pthread_create.
SpawnRefs == tpc' = "run" /\ cc_threads' = 1 /\ refs' = 2

Spawn ==
    /\ tpc = "unborn"
    /\ SpawnRefs
    /\ UNCHANGED <<promoted, done, held, join_waiter, joined, result, freed, pc,
                   token, flag>>

\* The thunk returns and its result is published; then done is set.
ThreadDone ==
    /\ tpc = "run"
    /\ result' = "ready" /\ done' = TRUE /\ tpc' = "swap"
    /\ UNCHANGED <<promoted, held, cc_threads, join_waiter, joined, refs, freed,
                   pc, token, flag>>

ThreadSwap ==
    /\ tpc = "swap"
    /\ held' = join_waiter /\ join_waiter' = Nobody /\ tpc' = "resume"
    /\ UNCHANGED <<promoted, done, cc_threads, joined, result, refs, freed, pc,
                   token, flag>>

\* beans_fiber_resume(waiter): a parked fiber is readied, an ended one is left
\* alone, any other keeps the wake as its token.
ThreadResume ==
    /\ tpc = "resume"
    /\ tpc' = "release" /\ held' = Nobody
    /\ pc' = [j \in Joiners |-> IF j = held /\ pc[j] = "parked" THEN "ready" ELSE pc[j]]
    /\ token' = [j \in Joiners |-> token[j] \/ (j = held /\ pc[j] \notin Ended \union {"parked"})]
    /\ UNCHANGED <<promoted, done, cc_threads, handle, flag>>

Release == refs' = refs - 1 /\ freed' = (refs = 1)

\* The roots are handed over and the count dropped after the last heap touch.
Leave == tpc' = "end" /\ UNCHANGED cc_threads

ThreadRelease ==
    /\ tpc = "release"
    /\ Release /\ Leave
    /\ UNCHANGED <<promoted, done, held, join_waiter, joined, result,
                   pc, token, flag>>

ThreadEnd ==
    /\ tpc = "end"
    /\ tpc' = "exited" /\ cc_threads' = cc_threads - 1
    /\ UNCHANGED <<promoted, done, held, handle, pc, token, flag>>

-----------------------------------------------------------------------------
(* beans_thread_join and beans_thread_detach.                              *)

Caller(j) == tpc # "unborn" /\ ~freed /\ refs > 0 /\ Alone(j)

\* Mutant: a registered joiner parks without reading done.
RegisterBlind(j) == join_waiter' = j /\ At(j, "park")

\* The waiter is registered before done is read for the first time.
Register(j) == join_waiter' = j /\ At(j, "test")

Reserve == joined' = TRUE

\* The first statements of join: a second join panics; a fiber registers itself.
Join(j) ==
    /\ Caller(j) /\ pc[j] = "body"
    /\ IF joined THEN At(j, "panicked") /\ UNCHANGED <<joined, join_waiter>>
       ELSE /\ Reserve
            /\ IF promoted THEN Register(j)
                           ELSE UNCHANGED join_waiter /\ At(j, "pjoin")
    /\ UNCHANGED <<promoted, thread, result, refs, freed, token, flag>>

Detach(j) ==
    /\ Caller(j) /\ pc[j] = "body"
    /\ IF joined THEN At(j, "panicked") /\ UNCHANGED joined
                 ELSE joined' = TRUE /\ At(j, "detached")
    /\ UNCHANGED <<promoted, thread, join_waiter, result, refs, freed, token, flag>>

Test(j) ==
    /\ pc[j] = "test"
    /\ At(j, IF done THEN "reap" ELSE "park")
    /\ UNCHANGED <<promoted, thread, handle, token, flag>>

\* beans_fiber_park
Park(j) ==
    /\ pc[j] = "park"
    /\ At(j, CASE flag[j] -> "retest"
               [] ~flag[j] /\ token[j] -> "test"
               [] OTHER -> "parked")
    /\ token' = [token EXCEPT ![j] = token[j] /\ flag[j]]
    /\ UNCHANGED <<promoted, thread, handle, flag>>

Dispatch(j) ==
    /\ pc[j] = "ready" /\ Alone(j)
    /\ At(j, IF flag[j] THEN "retest" ELSE "test")
    /\ UNCHANGED <<promoted, thread, handle, token, flag>>

\* The park answered CANCELLED: done is read once more.
RetestTo(j) == At(j, IF done THEN "reap" ELSE "clear")

Retest(j) ==
    /\ pc[j] = "retest"
    /\ RetestTo(j)
    /\ UNCHANGED <<promoted, thread, handle, token, flag>>

\* Mutant: the reservation survives the joiner that gave up.
ReservationKept == UNCHANGED joined

\* The joiner that gives up releases its reservation.
ReservationReleased == joined' = FALSE

\* The cancelled joiner withdraws and unwinds; the thread stays joinable.
Clear(j) ==
    /\ pc[j] = "clear"
    /\ join_waiter' = Nobody /\ ReservationReleased
    /\ At(j, "unwound")
    /\ UNCHANGED <<promoted, thread, result, refs, freed, token, flag>>

Reap(j) ==
    /\ pc[j] = "reap"
    /\ join_waiter' = Nobody
    /\ At(j, "pjoin")
    /\ UNCHANGED <<promoted, thread, joined, result, refs, freed, token, flag>>

\* pthread_join, then the result moves to the caller.
Take(j) ==
    /\ pc[j] = "pjoin" /\ tpc = "exited"
    /\ result' = "moved"
    /\ At(j, "got")
    /\ UNCHANGED <<promoted, thread, join_waiter, joined, refs, freed, token, flag>>

\* The last owner of the handle drops it; a handle in use is not dropped.
DropHandle ==
    /\ tpc # "unborn" /\ refs > 0
    /\ refs = IF tpc \in {"end", "exited"} THEN 1 ELSE 2
    /\ \A j \in Joiners : pc[j] \in Ended
    /\ Release
    /\ UNCHANGED <<promoted, thread, join_waiter, joined, result, pc, token, flag>>

\* Another fiber of the worker cancels a joiner.
Cancel(j) ==
    /\ promoted /\ ~flag[j] /\ pc[j] \in {"body", "parked", "ready"}
    /\ \A i \in Joiners : pc[i] \in {"body", "parked", "ready"} \union Ended
    /\ flag' = [flag EXCEPT ![j] = TRUE]
    /\ IF pc[j] = "parked" THEN At(j, "ready") /\ UNCHANGED token
                           ELSE token' = [token EXCEPT ![j] = TRUE] /\ UNCHANGED pc
    /\ UNCHANGED <<promoted, thread, handle>>

ThreadStep == ThreadDone \/ ThreadSwap \/ ThreadResume \/ ThreadRelease \/ ThreadEnd
JoinStep(j) == Test(j) \/ Park(j) \/ Dispatch(j) \/ Retest(j) \/ Clear(j) \/ Reap(j) \/ Take(j)

Next == \/ Spawn \/ ThreadStep \/ DropHandle
        \/ \E j \in Joiners : JoinStep(j) \/ Join(j) \/ Detach(j) \/ Cancel(j)

Spec == Init /\ [][Next]_vars

\* The OS runs the thread, and the worker its ready fibers.
Fairness == WF_vars(ThreadStep) /\ \A j \in Joiners : WF_vars(JoinStep(j))
FairSpec == Spec /\ Fairness

-----------------------------------------------------------------------------
\* The thread and a joiner in the middle of its call never touch a freed handle.
HandleAlive ==
    (tpc \in {"run", "swap", "release"} \/ \E j \in Joiners : pc[j] \notin Ended \union {"body"})
        => refs > 0

\* Once the thread has woken whoever it found, nobody is left parked: the waiter
\* was registered before the swap, or saw done after it.
JoinerNotStranded ==
    tpc \in {"release", "end", "exited"} => \A j \in Joiners : pc[j] # "parked"

\* The result reaches one joiner at most, and a joiner that gave up before the
\* thread was done leaves it to the next.
ResultTakenOnce ==
    /\ Cardinality({j \in Joiners : pc[j] = "got"}) <= 1
    /\ result = "moved" <=> \E j \in Joiners : pc[j] = "got"

\* The reservation always has an owner: a caller in its join, one that took the
\* result, or one that detached.  A joiner that gave up leaves the thread joinable.
ReservationHasOwner ==
    joined => \E j \in Joiners : pc[j] \notin {"body", "panicked", "unwound"}

\* cc_threads holds the collector off until the thread has let go of the heap.
CollectorHeldOff == cc_threads = 0 => tpc \in {"unborn", "exited"}

\* The fiber that the thread took out of the handle has not ended when it is
\* resumed: an ended fiber's record may be another fiber's, or freed.
ResumesTheLiving == tpc = "resume" /\ held # Nobody => pc[held] # "unwound"

\* Ending thread, joiners, cancelled joins and detach agree on the handle:
\* nobody touches it freed or is left parked, the result and the reservation
\* have one owner, and the collector waits for the thread (thread_main,
\* thread_join_park).
HandleKept == TypeOK /\ HandleAlive /\ JoinerNotStranded /\ ResultTakenOnce
    /\ ReservationHasOwner /\ CollectorHeldOff

InJoin(j)    == pc[j] \notin Ended \union {"body"}
OutOfJoin(j) == pc[j] \in Ended

\* A join returns, or unwinds when it is cancelled.
JoinReturns == \A j \in Joiners : InJoin(j) ~> OutOfJoin(j)

DoneWins == \A j \in Joiners : pc[j] = "retest" /\ done => pc'[j] \in {"retest", "reap"}

\* A cancelled joiner whose thread was done at the second look keeps the result.
DoneBeatsCancel == [][DoneWins]_vars
============================================================================
