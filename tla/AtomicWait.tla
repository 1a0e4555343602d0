---------------------------- MODULE AtomicWait -----------------------------
(***************************************************************************)
(* beans_atomic_wait and beans_atomic_notify (runtime/beans_rt.c): the     *)
(* address-keyed parking lot, and the futex that serves a 32-bit cell on   *)
(* Linux.  The cells of the model share one bucket, so one condition       *)
(* variable.  One action is one critical section of the bucket's lock, one *)
(* futex call, or one access to a cell outside both.                       *)
(***************************************************************************)
EXTENDS Integers, Sequences, FiniteSets, SequencesExt

CONSTANTS Waiters, Writers,
          LotCells,     \* cells that use the parking lot
          FutexCells,   \* cells that use the futex
          NoCell,
          MaxStores     \* bound: stores made by the writers

Cells == LotCells \union FutexCells

VARIABLES
    val,        \* cell -> 0 or 1
    pc,         \* waiter -> where its wait stands
    cell,       \* waiter -> the cell it waits on
    expected,   \* waiter -> the value it waits against
    bounded,    \* waiter -> it has a timeout
    signalled,  \* waiter -> its node was picked by a notify
    awake,      \* waiter -> the condition variable let it go
    answer,     \* waiter -> 0 timed out, 1 woken or changed, 2 none yet
    nodes,      \* the bucket's list, newest first
    kernel,     \* waiters queued in the kernel
    owing,      \* writer -> the cell it stored to and has not notified
    stores

vars == <<val, pc, cell, expected, bounded, signalled, awake, answer, nodes,
          kernel, owing, stores>>
waiter == <<cell, expected, bounded>>

TypeOK ==
    /\ val \in [Cells -> 0..1]
    /\ pc \in [Waiters -> {"idle", "compared", "asleep", "futex", "returned"}]
    /\ cell \in [Waiters -> Cells \union {NoCell}]
    /\ expected \in [Waiters -> 0..1]
    /\ bounded \in [Waiters -> BOOLEAN]
    /\ signalled \in [Waiters -> BOOLEAN] /\ awake \in [Waiters -> BOOLEAN]
    /\ answer \in [Waiters -> 0..2]
    /\ nodes \in Seq(Waiters)
    /\ kernel \subseteq Waiters
    /\ owing \in [Writers -> Cells \union {NoCell}]
    /\ stores \in 0..MaxStores

Init ==
    /\ val = [c \in Cells |-> 0]
    /\ pc = [w \in Waiters |-> "idle"]
    /\ cell = [w \in Waiters |-> NoCell]
    /\ expected = [w \in Waiters |-> 0]
    /\ bounded = [w \in Waiters |-> FALSE]
    /\ signalled = [w \in Waiters |-> FALSE]
    /\ awake = [w \in Waiters |-> FALSE]
    /\ answer = [w \in Waiters |-> 2]
    /\ nodes = <<>>
    /\ kernel = {}
    /\ owing = [t \in Writers |-> NoCell]
    /\ stores = 0

Return(w, a) ==
    /\ pc' = [pc EXCEPT ![w] = "returned"]
    /\ answer' = [answer EXCEPT ![w] = a]

Holds(w) == val[cell[w]] = expected[w]

-----------------------------------------------------------------------------
(* beans_atomic_wait.                                                      *)

\* The first, unlocked comparison; a timeout of zero goes no further.
Compare(w, c, e, limit) ==
    /\ pc[w] = "idle"
    /\ cell' = [cell EXCEPT ![w] = c]
    /\ expected' = [expected EXCEPT ![w] = e]
    /\ bounded' = [bounded EXCEPT ![w] = limit # "none"]
    /\ CASE limit = "zero" -> Return(w, IF val[c] = e THEN 0 ELSE 1)
         [] limit # "zero" /\ val[c] # e -> Return(w, 1)
         [] OTHER -> /\ pc' = [pc EXCEPT ![w] = "compared"]
                     /\ UNCHANGED answer
    /\ UNCHANGED <<val, signalled, awake, nodes, kernel, owing, stores>>

\* The comparison under the bucket's lock.
StillHolds(w) == Holds(w)

\* The lock is taken: return on a changed value, or push the node and wait.
Enqueue(w) ==
    /\ pc[w] = "compared" /\ cell[w] \in LotCells
    /\ IF StillHolds(w)
         THEN /\ nodes' = <<w>> \o nodes
              /\ pc' = [pc EXCEPT ![w] = "asleep"]
              /\ UNCHANGED answer
         ELSE Return(w, 1) /\ UNCHANGED nodes
    /\ UNCHANGED <<val, waiter, signalled, awake, kernel, owing, stores>>

\* Mutant: a wait that timed out leaves its node in the bucket.
UnlinkIfSignalled(w) == nodes' = IF signalled[w] THEN RemoveFirst(nodes, w) ELSE nodes

Unlink(w) == nodes' = RemoveFirst(nodes, w)

\* Awake with the lock held again: leave when signalled or the value moved, else
\* wait again.  A condition variable may also wake a waiter for no reason.
Recheck(w) ==
    /\ pc[w] = "asleep"
    /\ awake' = [awake EXCEPT ![w] = FALSE]
    /\ IF signalled[w] \/ ~Holds(w)
         THEN Return(w, 1) /\ Unlink(w)
         ELSE awake[w] /\ UNCHANGED <<pc, answer, nodes>>
    /\ UNCHANGED <<val, waiter, signalled, kernel, owing, stores>>

\* pthread_cond_timedwait answers ETIMEDOUT, whatever a notify did meanwhile.
TimeOut(w) ==
    /\ pc[w] = "asleep" /\ bounded[w]
    /\ Return(w, 0) /\ Unlink(w)
    /\ awake' = [awake EXCEPT ![w] = FALSE]
    /\ UNCHANGED <<val, waiter, signalled, kernel, owing, stores>>

\* The futex: the kernel compares and queues in one step.
FutexWait(w) ==
    /\ pc[w] = "compared" /\ cell[w] \in FutexCells
    /\ IF Holds(w)
         THEN /\ kernel' = kernel \union {w}
              /\ pc' = [pc EXCEPT ![w] = "futex"]
              /\ UNCHANGED answer
         ELSE Return(w, 1) /\ UNCHANGED kernel
    /\ UNCHANGED <<val, waiter, signalled, awake, nodes, owing, stores>>

\* Woken, interrupted by a signal, or out of time.
FutexReturn(w) ==
    /\ pc[w] = "futex"
    /\ \/ w \notin kernel /\ Return(w, 1)
       \/ w \in kernel /\ Return(w, 1)
       \/ w \in kernel /\ bounded[w] /\ Return(w, 0)
    /\ kernel' = kernel \ {w}
    /\ UNCHANGED <<val, waiter, signalled, awake, nodes, owing, stores>>

-----------------------------------------------------------------------------
(* beans_atomic_notify, after a store.                                     *)

Store(t, c, v) ==
    /\ stores < MaxStores /\ owing[t] = NoCell
    /\ val' = [val EXCEPT ![c] = v]
    /\ owing' = [owing EXCEPT ![t] = c]
    /\ stores' = stores + 1
    /\ UNCHANGED <<pc, waiter, signalled, awake, answer, nodes, kernel>>

\* Where the nodes of the cell stand that no notify has picked yet.
Waiting(c) == {i \in DOMAIN nodes : cell[nodes[i]] = c /\ ~signalled[nodes[i]]}

\* The walk from the newest node on stops at the first one it picks, or never.
Picked(c, all) ==
    {nodes[i] : i \in {k \in Waiting(c) : all \/ \A j \in Waiting(c) : k <= j}}

\* pthread_cond_broadcast: everyone asleep in the bucket.
LetGo(W) == awake' = [w \in Waiters |-> awake[w] \/ (W # {} /\ pc[w] = "asleep")]

Notify(t, all) ==
    /\ owing[t] \in LotCells
    /\ LET W == Picked(owing[t], all)
       IN  /\ signalled' = [w \in Waiters |-> signalled[w] \/ w \in W]
           /\ LetGo(W)
    /\ owing' = [owing EXCEPT ![t] = NoCell]
    /\ UNCHANGED <<val, pc, waiter, answer, nodes, kernel, stores>>

FutexWake(t, all) ==
    /\ owing[t] \in FutexCells
    /\ \E W \in SUBSET {w \in kernel : cell[w] = owing[t]} :
          /\ all => W = {w \in kernel : cell[w] = owing[t]}
          /\ ~all => Cardinality(W) = IF \E w \in kernel : cell[w] = owing[t] THEN 1 ELSE 0
          /\ kernel' = kernel \ W
    /\ owing' = [owing EXCEPT ![t] = NoCell]
    /\ UNCHANGED <<val, pc, waiter, signalled, awake, answer, nodes, stores>>

-----------------------------------------------------------------------------
WaitStep(w) == \/ Enqueue(w) \/ FutexWait(w)
               \/ awake[w] /\ Recheck(w)
               \/ w \notin kernel /\ FutexReturn(w)

Next ==
    \/ \E w \in Waiters :
          \/ \E c \in Cells, e \in 0..1, limit \in {"none", "some", "zero"} :
                Compare(w, c, e, limit)
          \/ Enqueue(w) \/ Recheck(w) \/ TimeOut(w) \/ FutexWait(w) \/ FutexReturn(w)
    \/ \E t \in Writers : \/ \E c \in Cells, v \in 0..1 : Store(t, c, v)
                          \/ \E all \in BOOLEAN : Notify(t, all) \/ FutexWake(t, all)

Spec == Init /\ [][Next]_vars

\* A waiter that was let go runs; a writer that stored goes on to notify.
PaysNotify(t) == Notify(t, TRUE) \/ FutexWake(t, TRUE)
Fairness ==
    /\ \A w \in Waiters : WF_vars(WaitStep(w))
    /\ \A t \in Writers : WF_vars(PaysNotify(t))
FairSpec == Spec /\ Fairness

-----------------------------------------------------------------------------
\* The bucket lists exactly the waiters still inside wait: a node lives on its
\* waiter's stack and is gone when the wait returns.
NodesAreWaiters ==
    /\ Range(nodes) = {w \in Waiters : pc[w] = "asleep"}
    /\ IsInjective(nodes)

\* A waiter a notify picked has been let go: the count notify returns is of
\* waiters that do return, whichever cell of the bucket they wait on.
PickedIsLetGo == \A w \in Waiters : pc[w] = "asleep" /\ signalled[w] => awake[w]

\* Nobody sleeps through a change: a waiter asleep on a value that is gone was
\* let go, or a writer still owes the notify, or a notify chose another waiter.
NotAsleepThroughChange ==
    \A w \in Waiters :
        (pc[w] = "asleep" \/ w \in kernel) /\ ~Holds(w) /\ ~awake[w] =>
            \/ \E t \in Writers : owing[t] = cell[w]
            \/ \E u \in Waiters \ {w} : cell[u] = cell[w] /\ (signalled[u] \/ pc[u] = "returned" \/ pc[u] = "futex")

\* The bucket holds the nodes of its sleepers, whoever a notify picked was
\* let go, and nobody sleeps through a change (beans_atomic_wait,
\* beans_atomic_notify).
NobodySleepsThrough == NodesAreWaiters /\ PickedIsLetGo
    /\ NotAsleepThroughChange

PickedOne(w) == signalled[w]
Returned(w) == pc[w] = "returned"

\* A waiter that a notify picked returns.
PickedReturns == \A w \in Waiters : PickedOne(w) ~> Returned(w)
============================================================================
