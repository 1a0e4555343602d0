------------------------------ MODULE Signals -------------------------------
(* std.signal: watched signals are blocked and read as data.  Masks and the  *)
(* counts of owners are per thread; a signal sent to the process stays       *)
(* pending while every thread blocks it, and otherwise takes its default     *)
(* action on a thread that does not.  Close is several steps, and so is the  *)
(* look and the sigwait of sig_drain.                                        *)
EXTENDS Integers, FiniteSets

CONSTANTS Main, Worker,  \* two threads; Main starts Worker, both open sources
          Sigs,          \* numbers of sig_table
          Sources,       \* sources opened, each at most once
          MaxRaised      \* signals sent to the process

VARIABLES backend,  \* "signalfd" or "kqueue"
          mask,     \* thread -> signals it blocks
          counts,   \* thread -> signal -> sources of that thread that watch it
          source,   \* source -> [pc, thread, want, told, todo, rel]; told is what
                    \* arrived: unread by a kqueue, or after the look of a close
          alive,    \* threads that run
          inherited, \* what Worker's mask was when it started (ghost)
          pending,  \* signals pending in the process
          raised,   \* signals sent so far
          killed,   \* signals that took their default action, with the thread
          hung      \* threads blocked in a sigwait, with its signal

signalVars == <<backend, mask, counts, source, alive, inherited, pending, raised, killed, hung>>
SignalThreads == {Main, Worker}
NoSource == [pc |-> "new", thread |-> Main, want |-> {}, told |-> {}, todo |-> {}, rel |-> {}]

SignalInit ==
    /\ backend \in {"signalfd", "kqueue"}
    /\ mask = [t \in SignalThreads |-> {}] /\ counts = [t \in SignalThreads |-> [n \in Sigs |-> 0]]
    /\ source = [s \in Sources |-> NoSource]
    /\ alive = {Main} /\ inherited = {} /\ pending = {} /\ raised = 0 /\ killed = {} /\ hung = {}

At(s, pc) == source[s].pc = pc
Of(t) == {s \in Sources : source[s].thread = t /\ source[s].pc \notin {"new", "failed", "closed"}}
\* A thread does one call at a time.
Calling(t) == \E s \in Of(t) : ~At(s, "open")
Running(t) == t \in alive /\ ~Calling(t) /\ killed = {}

\* A new thread inherits the mask and has no counts of its own.
Spawn ==
    /\ Worker \notin alive /\ Running(Main)
    /\ alive' = {Main, Worker} /\ mask' = [mask EXCEPT ![Worker] = mask[Main]]
    /\ inherited' = mask[Main]
    /\ UNCHANGED <<backend, counts, source, pending, raised, killed, hung>>

\* The kernel: a signal goes to a thread that does not block it, or waits
\* until one unblocks it or a sigwait takes it.
Takers(n) == {t \in alive : n \notin mask[t]}
Told == {"open", "taking", "took", "drained"}
Raise(n) ==
    /\ raised < MaxRaised /\ killed = {}
    /\ raised' = raised + 1
    /\ \/ /\ Takers(n) = {} \/ \E t \in alive : <<t, n>> \in hung
          /\ pending' = pending \cup {n} /\ killed' = killed
          /\ source' = [s \in Sources |-> IF source[s].pc \in Told /\ n \in source[s].want
                            THEN [source[s] EXCEPT !.told = @ \cup {n}] ELSE source[s]]
       \/ \E t \in Takers(n) :
             killed' = {<<n, t>>} /\ UNCHANGED <<pending, source>>
    /\ UNCHANGED <<backend, mask, counts, alive, inherited, hung>>

----------------------------------------------------------------------------
Unowned(t, want) == {n \in want : counts[t][n] = 0}
AddOwners(c, want) == [n \in Sigs |-> IF n \in want THEN c[n] + 1 ELSE c[n]]

\* What a watch that fails unblocks again.
NewlyBlocked(t, want) == Unowned(t, want)

\* beans_signal_watch: block, then make the descriptor; without one, the
\* signals this call blocked are unblocked again, and what is pending is
\* delivered.
Watch(t, s, want) ==
    /\ Running(t) /\ At(s, "new")
    /\ mask' = [mask EXCEPT ![t] = @ \cup want]
    /\ counts' = [counts EXCEPT ![t] = AddOwners(@, want)]
    /\ source' = [source EXCEPT ![s] = [NoSource EXCEPT !.pc = "open", !.thread = t, !.want = want]]
    /\ UNCHANGED <<backend, alive, inherited, pending, raised, killed, hung>>
WatchFails(t, s, want) ==
    /\ Running(t) /\ At(s, "new")
    /\ mask' = [mask EXCEPT ![t] = (@ \cup want) \ NewlyBlocked(t, want)]
    /\ killed' = killed \cup {<<n, t>> : n \in pending \cap NewlyBlocked(t, want)}
    /\ source' = [source EXCEPT ![s] = [NoSource EXCEPT !.pc = "failed", !.thread = t, !.want = want]]
    /\ UNCHANGED <<backend, counts, alive, inherited, pending, raised, hung>>

----------------------------------------------------------------------------
\* beans_signal_take: a signalfd read consumes what is pending, also beyond
\* the caller's limit; the kqueue was only told, and what fits the limit of
\* what it was told of is drained afterwards.
TakeFd(t, s) ==
    /\ backend = "signalfd" /\ Running(t) /\ At(s, "open") /\ source[s].thread = t
    /\ pending' = pending \ source[s].want
    /\ UNCHANGED <<backend, mask, counts, source, alive, inherited, raised, killed, hung>>
TakeKqueue(t, s) ==
    /\ backend = "kqueue" /\ Running(t) /\ At(s, "open") /\ source[s].thread = t
    /\ \E taken \in (SUBSET source[s].told) \ {{}} :
          source' = [source EXCEPT ![s].told = {}, ![s].pc = "taking", ![s].todo = taken]
    /\ UNCHANGED <<backend, mask, counts, alive, inherited, pending, raised, killed, hung>>

\* Mutant of Released: everything the source watched.
ReleasedAll(t, want) == want
\* sig_drop_owners: the signals no other source of the thread watches.
Released(t, want) == {n \in want : counts[t][n] = 1}
CloseDrop(t, s) ==
    /\ Running(t) /\ At(s, "open") /\ source[s].thread = t
    /\ counts' = [counts EXCEPT ![t] = [n \in Sigs |->
          IF n \in source[s].want /\ @[n] > 0 THEN @[n] - 1 ELSE @[n]]]
    /\ source' = [source EXCEPT ![s].pc = "draining", ![s].todo = Released(t, source[s].want),
                                ![s].rel = Released(t, source[s].want)]
    /\ UNCHANGED <<backend, mask, alive, inherited, pending, raised, killed, hung>>

\* Only what sigpending shows is waited for.
Shown(todo) == todo \cap pending

\* sig_drain: sigpending, and then a sigwait for each signal that it showed.
Draining(s) == source[s].pc \in {"taking", "draining"}
DrainLook(s) ==
    /\ Draining(s) /\ killed = {}
    /\ source' = [source EXCEPT ![s].pc = IF @ = "taking" THEN "took" ELSE "drained",
                                ![s].todo = Shown(@),
                                ![s].told = IF source[s].pc = "taking" THEN @ ELSE {}]
    /\ UNCHANGED <<backend, mask, counts, alive, inherited, pending, raised, killed, hung>>
SigwaitTakes(s, n) ==
    /\ n \in pending /\ pending' = pending \ {n}
    /\ source' = [source EXCEPT ![s].todo = @ \ {n}]
    /\ hung' = hung \ {<<source[s].thread, n>>}
SigwaitBlocks(s, n) ==
    /\ n \notin pending /\ hung' = hung \cup {<<source[s].thread, n>>}
    /\ UNCHANGED <<pending, source>>
DrainWait(s) ==
    /\ source[s].pc \in {"took", "drained"} /\ killed = {}
    /\ \E n \in source[s].todo :
          /\ \A m \in Sigs : <<source[s].thread, m>> \in hung => m = n
          /\ SigwaitTakes(s, n) \/ SigwaitBlocks(s, n)
    /\ UNCHANGED <<backend, mask, counts, alive, inherited, raised, killed>>
TakeEnds(s) ==
    /\ At(s, "took") /\ source[s].todo = {} /\ killed = {}
    /\ source' = [source EXCEPT ![s].pc = "open"]
    /\ UNCHANGED <<backend, mask, counts, alive, inherited, pending, raised, killed, hung>>

\* Unblocking delivers what is pending; then the descriptor is closed.
CloseEnds(s) ==
    /\ At(s, "drained") /\ source[s].todo = {} /\ killed = {}
    /\ mask' = [mask EXCEPT ![source[s].thread] = @ \ source[s].rel]
    /\ killed' = killed \cup {<<n, source[s].thread>> : n \in pending \cap source[s].rel}
    /\ source' = [source EXCEPT ![s].pc = "closed"]
    /\ UNCHANGED <<backend, counts, alive, inherited, pending, raised, hung>>

SignalNext ==
    \/ Spawn \/ \E n \in Sigs : Raise(n)
    \/ \E t \in SignalThreads, s \in Sources :
          \/ \E want \in (SUBSET Sigs) \ {{}} : Watch(t, s, want) \/ WatchFails(t, s, want)
          \/ TakeFd(t, s) \/ TakeKqueue(t, s) \/ CloseDrop(t, s)
    \/ \E s \in Sources : DrainLook(s) \/ DrainWait(s) \/ TakeEnds(s) \/ CloseEnds(s)
SignalSpec == SignalInit /\ [][SignalNext]_signalVars

----------------------------------------------------------------------------
Wants(t, pcs) == UNION {source[s].want : s \in {x \in Sources : source[x].thread = t /\ source[x].pc \in pcs}}
Watched(t) == Wants(t, {"open", "taking", "took"})
GivenUp(t) == Wants(t, {"closed", "failed"})
Releasing(t) == UNION {source[s].rel : s \in {x \in Sources :
                           source[x].thread = t /\ source[x].pc \in {"draining", "drained"}}}
Passed(t) == IF t = Worker THEN inherited ELSE {}

\* A thread blocks what its open sources watch, whatever other sources it
\* closes or fails to open, and nothing else: a close gives back what no other
\* source of the thread watches, a watch that fails what it blocked.  What the
\* thread inherited stays blocked until a source of its own gave it back.
MasksComeBack ==
    \A t \in SignalThreads :
        mask[t] = Watched(t) \cup Releasing(t) \cup (Passed(t) \ GivenUp(t))

\* A program that stopped watching is not killed by a signal it had chosen
\* to handle: when a close unblocks, only a signal that arrived after its
\* sigpending can be pending.
OldSignalsAreGone ==
    \A s \in Sources : (At(s, "drained") /\ source[s].todo = {}) =>
        pending \cap source[s].rel \subseteq source[s].told

\* sig_drain does not hang on a signal that one thread watches alone: one it was
\* shown pending is gone at the sigwait only when a source of another thread
\* took it in between.
Shared(t, n) ==
    \E s \in Sources : /\ source[s].thread # t /\ n \in source[s].want
                       /\ source[s].pc \notin {"new", "failed"}
AloneNeverHangs == \A h \in hung : Shared(h[1], h[2])

\* A signal that a thread watches takes its default action on another one
\* only, which did not inherit the block or gave it back itself.
WatchedIsSafe ==
    \A k \in killed, t \in SignalThreads : k[1] \in Watched(t) =>
        k[2] # t /\ (k[1] \notin Passed(k[2]) \/ k[1] \in GivenUp(k[2]))

\* Masks are what the open sources ask for, an old signal is never delivered by a
\* close, a drain hangs on shared signals only, and a watched signal takes its
\* default action only where no block is (beans_signal_watch, sig_drain, beans_signal_close).
SignalsKept == MasksComeBack /\ OldSignalsAreGone /\ AloneNeverHangs /\ WatchedIsSafe
=============================================================================
