-------------------------- MODULE Netpoller_proofs --------------------------
(***************************************************************************)
(* Proofs about Netpoller: what the idle wait goes by is what the fibers   *)
(* wait for, the kick is not lost and a deadlock is reported only when it  *)
(* is one, for every set of fibers and threads and every bound.  And about *)
(* the sockets that wait there: opening one keeps nothing that failed      *)
(* (SocketOpen), a stream carries what was written (SocketBytes), and a    *)
(* socket's mode is what its caller counts on (SocketIo), for every set of *)
(* descriptors, buffers and sizes.                                         *)
(***************************************************************************)
EXTENDS Netpoller, SocketIo, QueueLemmas

\* TypeOK with the count of io waiters left open below.
NetTypes ==
    /\ state \in [Fibers -> {"RUNNING", "READY", "PARKED", "DONE"}]
    /\ pending_wake \in [Fibers -> BOOLEAN]
    /\ cancel_flag \in [Fibers -> BOOLEAN] /\ unwinding \in [Fibers -> BOOLEAN]
    /\ wait \in [Fibers -> {"code", "io", "sleep", "park"}]
    /\ parked \in [Fibers -> BOOLEAN]
    /\ deadline \in [Fibers -> 0..MaxTime \union {None}]
    /\ io_armed \in [Fibers -> BOOLEAN] /\ io_signalled \in [Fibers -> BOOLEAN]
    /\ io_waiters \in Int
    /\ in_poll \in BOOLEAN
    /\ sleepers \subseteq (0..MaxTime) \X Fibers
    /\ ready \in Seq(Fibers) /\ inbox \in Seq(Fibers)
    /\ current \in Fibers \union {None}
    /\ phase \in {"fiber", "sched", "pop", "idle", "recheck", "poll", "polled",
                  "cond", "timed", "reported", "stopped"}
    /\ registered \subseteq Fibers /\ fd_ready \subseteq Fibers
    /\ kicked \in BOOLEAN
    /\ tpc \in [Threads -> {"run", "kick", "posted", "ended"}]
    /\ now \in 0..MaxTime /\ waits \in 0..MaxWaits /\ cancels \in 0..MaxCancels

\* The running fiber is the current one, and a ready one is in a queue.
QueueInv ==
    /\ \A f \in Fibers : state[f] = "RUNNING" <=> phase = "fiber" /\ current = f
    /\ \A f \in Fibers : state[f] = "READY" => f \in Range(ready) \union Range(inbox)
    /\ phase = "idle" => ready = <<>>

\* in_poll spans the second look at the inbox and the wait itself.
PollInv ==
    /\ in_poll <=> phase \in {"recheck", "poll", "polled"}
    /\ KickNotLost

\* A registration that is neither delivered nor given up belongs to an io wait.
ArmInv ==
    /\ ArmedIsWaiting
    /\ \A f \in Fibers : wait[f] = "io" => io_armed[f] # io_signalled[f]

Cancelled == {f \in Fibers : cancel_flag[f]}
Unwinding == {f \in Fibers : unwinding[f]}

\* Each fiber that unwound out of its wait took at most one off the count.
CountInv ==
    /\ Unwinding \subseteq Cancelled
    /\ Cardinality(Cancelled) <= cancels
    /\ io_waiters <= Cardinality(Armed)
    /\ Cardinality(Armed) <= io_waiters + Cardinality(Unwinding)

\* The timer belongs to the wait its fiber is in.
Live(e) == deadline[e[2]] = e[1] /\ wait[e[2]] \in {"io", "sleep"}

\* Where the worker stands decides which timers may be stale: a wait that ended
\* leaves a due one of its own behind until the loop fires it; and a fiber the
\* poller answered has been through the loop since it began its wait.
TimerInv ==
    /\ \A e \in sleepers :
         /\ Live(e) \/ e[1] <= now
         /\ Live(e) \/ phase = "sched" \/ (phase = "fiber" /\ e[2] = current)
    /\ \A e \in sleepers : io_signalled[e[2]] /\ wait[e[2]] = "io" => Live(e)

NetInv ==
    /\ NetTypes /\ QueueInv /\ PollInv /\ ArmInv /\ CountInv
    /\ cancels = 0 => TimerInv
    /\ ReportIsDeadlock

-----------------------------------------------------------------------------
(* The wakes of the worker's own thread.                                   *)

\* The orders in which a set is unparked.
LEMMA SeqsLemma ==
    ASSUME NEW S, IsFiniteSet(S), NEW q \in SetToSeqs(S)
    PROVE  q \in Seq(S) /\ Range(q) = S
<1> DEFINE n == Cardinality(S)
           D == 1..n
<1>1. n \in Nat /\ q \in [D -> S] /\ \A i, j \in D : i # j => q[i] # q[j]
  BY FS_CardinalityType DEF SetToSeqs
<1>2. q \in Injection(D, S)
  BY <1>1 DEF Injection, IsInjective
<1>3. Cardinality(D) = Cardinality(S)
  BY <1>1, FS_Interval
<1>4. q \in Surjection(D, S)
  BY <1>2, <1>3, FS_Injection
<1>5. q \in Seq(S)
  BY <1>1
<1>6. Range(q) = S
  <2>1. DOMAIN q = D
    BY <1>1
  <2> HIDE DEF D
  <2> QED BY <1>1, <1>4, <2>1 DEF Surjection, Range
<1> QED BY <1>5, <1>6

\* What a round of wakes keeps: parked fibers become ready and join the queue
\* behind rd, nobody else changes state.
WakeKeeps(rd) ==
    /\ ready' \in Seq(Fibers) /\ Range(rd) \subseteq Range(ready')
    /\ state' \in [Fibers -> {"RUNNING", "READY", "PARKED", "DONE"}]
    /\ pending_wake' \in [Fibers -> BOOLEAN]
    /\ \A f \in Fibers :
         state'[f] # state[f] => state[f] = "PARKED" /\ state'[f] = "READY" /\ f \in Range(ready')

LEMMA ResumeLemma ==
    ASSUME NetTypes, NEW S \in SUBSET Fibers, NEW rd \in Seq(Fibers),
           NEW q, ResumeAll(S, q, rd)
    PROVE  WakeKeeps(rd)
<1> DEFINE P == {f \in S : state[f] = "PARKED"}
<1>1. IsFiniteSet(P) /\ P \subseteq Fibers
  BY ConstantsAssumption, FS_Subset
<1>2. q \in SetToSeqs(P) /\ ready' = rd \o q
  BY DEF ResumeAll
<1>3. q \in Seq(P) /\ Range(q) = P
  BY <1>1, <1>2, SeqsLemma
<1>4. q \in Seq(Fibers)
  BY <1>1, <1>3
<1>5. ready' \in Seq(Fibers) /\ Range(ready') = Range(rd) \union P
  BY <1>2, <1>3, <1>4, ConcatProperties, RangeConcatenation
<1>6. /\ state' = [f \in Fibers |-> IF f \in S /\ state[f] = "PARKED" THEN "READY" ELSE state[f]]
      /\ pending_wake' \in [Fibers -> BOOLEAN]
  BY DEF ResumeAll, NetTypes
<1>7. state' \in [Fibers -> {"RUNNING", "READY", "PARKED", "DONE"}]
  BY <1>6 DEF NetTypes
<1>8. ASSUME NEW f \in Fibers, state'[f] # state[f]
      PROVE  state[f] = "PARKED" /\ state'[f] = "READY" /\ f \in P
  BY <1>6, <1>8
<1> HIDE DEF P
<1> QED BY <1>5, <1>6, <1>7, <1>8 DEF WakeKeeps

LEMMA FireLemma ==
    ASSUME NetTypes, NEW rd \in Seq(Fibers), FireDue(rd)
    PROVE  WakeKeeps(rd) /\ sleepers' = sleepers \ Due
<1>1. {e[2] : e \in Due} \subseteq Fibers
  BY DEF NetTypes, Due
<1>2. PICK q : ResumeAll({e[2] : e \in Due}, q, rd)
  BY DEF FireDue
<1>3. sleepers' = sleepers \ Due
  BY DEF FireDue
<1> QED BY <1>1, <1>2, <1>3, ResumeLemma

\* Which steps of the worker wake fibers, and behind which queue.
LEMMA WakesLemma ==
    ASSUME NetTypes
    PROVE  /\ Range(ready \o inbox) = Range(ready) \union Range(inbox)
           /\ ready \o inbox \in Seq(Fibers)
           /\ Schedule \/ LeavePoll \/ TimedWake =>
                WakeKeeps(ready \o inbox) /\ sleepers' = sleepers \ Due
           /\ EnterPoll \/ IdleTimer => WakeKeeps(ready) /\ sleepers' = sleepers \ Due
           /\ Poll => WakeKeeps(ready)
           /\ \A f, g \in Fibers : Cancel(f, g) => WakeKeeps(ready)
<1>1. ready \in Seq(Fibers) /\ inbox \in Seq(Fibers)
  BY DEF NetTypes
<1>2. ready \o inbox \in Seq(Fibers)
  BY <1>1, ConcatProperties
<1>3. Range(ready \o inbox) = Range(ready) \union Range(inbox)
  BY <1>1, RangeConcatenation
<1>4. Schedule \/ LeavePoll \/ TimedWake =>
        WakeKeeps(ready \o inbox) /\ sleepers' = sleepers \ Due
  BY <1>2, FireLemma DEF Schedule, LeavePoll, TimedWake
<1>5. EnterPoll \/ IdleTimer => WakeKeeps(ready) /\ sleepers' = sleepers \ Due
  BY <1>1, FireLemma DEF EnterPoll, IdleTimer
<1>6. ASSUME Poll PROVE WakeKeeps(ready)
  <2>1. PICK q : ResumeAll(registered \intersect fd_ready, q, ready)
    BY <1>6 DEF Poll
  <2>2. registered \intersect fd_ready \subseteq Fibers
    BY DEF NetTypes
  <2> QED BY <1>1, <2>1, <2>2, ResumeLemma
<1>7. ASSUME NEW f \in Fibers, NEW g \in Fibers, Cancel(f, g) PROVE WakeKeeps(ready)
  <2>1. PICK q : ResumeAll({g}, q, ready)
    BY <1>7 DEF Cancel
  <2> QED BY <1>1, <2>1, ResumeLemma
<1> QED BY <1>2, <1>3, <1>4, <1>5, <1>6, <1>7

\* Every step keeps the types.
LEMMA TypesStep ==
    ASSUME NetTypes, [Next]_vars
    PROVE  NetTypes'
<1> USE DEF InCode, Running, Leave, Disarm, SleeperRemove, Due, WorkerOnly, MayWake,
            fiberVars, ioVars, kernelVars, bounds, Alive
<1>q. ready \o inbox \in Seq(Fibers) /\ <<>> \in Seq(Fibers)
  BY WakesLemma, EmptySeq
<1>w. /\ Schedule \/ LeavePoll \/ TimedWake =>
           WakeKeeps(ready \o inbox) /\ sleepers' = sleepers \ Due
      /\ EnterPoll \/ IdleTimer => WakeKeeps(ready) /\ sleepers' = sleepers \ Due
      /\ Poll => WakeKeeps(ready)
      /\ \A f, g \in Fibers : Cancel(f, g) => WakeKeeps(ready)
  BY WakesLemma
<1>1. ASSUME NEW f \in Fibers, NEW d \in Deadlines \union {now, None}, WaitIo(f, d) PROVE NetTypes'
  BY <1>1, ConstantsAssumption DEF WaitIo, NetTypes, Deadlines
<1>2. ASSUME NEW f \in Fibers, NEW d \in Deadlines, Sleep(f, d) PROVE NetTypes'
  BY <1>2, ConstantsAssumption DEF Sleep, NetTypes, Deadlines
<1>3. ASSUME NEW f \in Fibers, WaitWake(f) PROVE NetTypes'
  BY <1>3, ConstantsAssumption DEF WaitWake, NetTypes
<1>4. ASSUME NEW f \in Fibers, IoReady(f) PROVE NetTypes'
  BY <1>4 DEF IoReady, NetTypes
<1>5. ASSUME NEW f \in Fibers, IoTimeout(f) PROVE NetTypes'
  BY <1>5 DEF IoTimeout, NetTypes
<1>6. ASSUME NEW f \in Fibers, SleepOver(f) PROVE NetTypes'
  BY <1>6 DEF SleepOver, NetTypes
<1>7. ASSUME NEW f \in Fibers, WaitCancelled(f) PROVE NetTypes'
  <2>1. sleepers' \subseteq sleepers
    BY <1>7 DEF WaitCancelled
  <2>2. io_waiters' \in Int /\ registered' \subseteq Fibers /\ io_armed' \in [Fibers -> BOOLEAN]
    <3>1. \/ Disarm(f)
          \/ UNCHANGED <<registered, io_armed, io_waiters>>
      BY <1>7 DEF WaitCancelled
    <3>2. CASE Disarm(f)
      BY <3>2 DEF NetTypes
    <3>3. CASE UNCHANGED <<registered, io_armed, io_waiters>>
      BY <3>3 DEF NetTypes
    <3> QED BY <3>1, <3>2, <3>3
  <2>3. UNCHANGED <<state, pending_wake, cancel_flag, io_signalled, kernelVars,
                    in_poll, ready, inbox, current, phase, tpc, now, bounds>>
    BY <1>7 DEF WaitCancelled
  <2>4. /\ unwinding' = [unwinding EXCEPT ![f] = TRUE]
        /\ wait' = [wait EXCEPT ![f] = "code"] /\ deadline' = [deadline EXCEPT ![f] = None]
        /\ parked' = [parked EXCEPT ![f] = FALSE]
    BY <1>7 DEF WaitCancelled
  <2> QED BY <2>1, <2>2, <2>3, <2>4 DEF NetTypes
<1>8. ASSUME NEW f \in Fibers, WaitLatched(f) PROVE NetTypes'
  BY <1>8 DEF WaitLatched, NetTypes
<1>9. ASSUME NEW f \in Fibers, WaitPark(f) PROVE NetTypes'
  BY <1>9 DEF WaitPark, NetTypes
<1>10. ASSUME NEW f \in Fibers, WaitWoken(f) PROVE NetTypes'
  BY <1>10 DEF WaitWoken, NetTypes
<1>11. ASSUME NEW f \in Fibers, NEW g \in Fibers, Cancel(f, g) PROVE NetTypes'
  <2>1. WakeKeeps(ready)
    BY <1>11, <1>w
  <2>2. cancels' \in 0..MaxCancels /\ cancel_flag' \in [Fibers -> BOOLEAN]
    BY <1>11, ConstantsAssumption DEF Cancel, NetTypes
  <2> QED BY <1>11, <2>1, <2>2 DEF Cancel, NetTypes, WakeKeeps
<1>12. ASSUME NEW f \in Fibers, Finish(f) PROVE NetTypes'
  BY <1>12 DEF Finish, NetTypes
<1>13. CASE Schedule
  <2>1. WakeKeeps(ready \o inbox) /\ sleepers' = sleepers \ Due
    BY <1>13, <1>w
  <2> QED BY <1>13, <2>1 DEF Schedule, NetTypes, WakeKeeps
<1>14. CASE Dispatch
  BY <1>14 DEF Dispatch, NetTypes
<1>15. CASE Nothing
  BY <1>15 DEF Nothing, NetTypes
<1>16. CASE EnterPoll
  <2>1. WakeKeeps(ready) /\ sleepers' = sleepers \ Due
    BY <1>16, <1>w
  <2> QED BY <1>16, <2>1 DEF EnterPoll, NetTypes, WakeKeeps
<1>17. CASE Recheck
  BY <1>17, <1>q DEF Recheck, NetTypes
<1>18. CASE Poll
  <2>1. IsFiniteSet(registered \intersect fd_ready)
    BY ConstantsAssumption, FS_Subset DEF NetTypes
  <2>2. Cardinality(registered \intersect fd_ready) \in Nat
    BY <2>1, FS_CardinalityType
  <2>3. WakeKeeps(ready)
    BY <1>18, <1>w
  <2>4. io_waiters' \in Int /\ registered' \subseteq Fibers
        /\ io_armed' \in [Fibers -> BOOLEAN] /\ io_signalled' \in [Fibers -> BOOLEAN]
        /\ kicked' = FALSE /\ phase' = "polled"
        /\ UNCHANGED <<fiberVars, tpc, now, bounds, fd_ready, in_poll, sleepers, inbox, current>>
    BY <1>18, <2>2 DEF Poll, NetTypes
  <2> QED BY <2>3, <2>4 DEF NetTypes, WakeKeeps
<1>19. CASE LeavePoll
  <2>1. WakeKeeps(ready \o inbox) /\ sleepers' = sleepers \ Due
    BY <1>19, <1>w
  <2>2. /\ in_poll' = FALSE /\ inbox' = <<>> /\ phase' = "sched"
        /\ UNCHANGED <<fiberVars, tpc, now, bounds, ioVars, kernelVars, current>>
    BY <1>19 DEF LeavePoll
  <2> QED BY <1>q, <2>1, <2>2 DEF NetTypes, WakeKeeps
<1>20. CASE IdleNoTimer
  BY <1>20, <1>q DEF IdleNoTimer, NetTypes
<1>21. CASE IdleTimer
  <2>1. WakeKeeps(ready) /\ sleepers' = sleepers \ Due
    BY <1>21, <1>w
  <2> QED BY <1>21, <2>1 DEF IdleTimer, NetTypes, WakeKeeps
<1>22. CASE CondWake
  BY <1>22, <1>q DEF CondWake, NetTypes
<1>23. CASE TimedWake
  <2>1. WakeKeeps(ready \o inbox) /\ sleepers' = sleepers \ Due
    BY <1>23, <1>w
  <2> QED BY <1>23, <2>1 DEF TimedWake, NetTypes, WakeKeeps
<1>24. ASSUME NEW t \in Threads, Kick(t) PROVE NetTypes'
  BY <1>24 DEF Kick, NetTypes
<1>25. ASSUME NEW t \in Threads, ThreadEnd(t) PROVE NetTypes'
  BY <1>25 DEF ThreadEnd, NetTypes
<1>26. ASSUME NEW t \in Threads, NEW f \in Fibers, Post(t, f) PROVE NetTypes'
  <2>1. Append(inbox, f) \in Seq(Fibers)
    BY AppendProperties DEF NetTypes
  <2> QED BY <1>26, <2>1 DEF Post, NetTypes
<1>27. ASSUME NEW f \in Fibers, FdReady(f) PROVE NetTypes'
  BY <1>27 DEF FdReady, NetTypes
<1>28. CASE Tick
  BY <1>28, ConstantsAssumption DEF Tick, NetTypes
<1>29. CASE UNCHANGED vars
  BY <1>29 DEF vars, NetTypes
<1> QED BY <1>1, <1>2, <1>3, <1>4, <1>5, <1>6, <1>7, <1>8, <1>9, <1>10, <1>11, <1>12,
           <1>13, <1>14, <1>15, <1>16, <1>17, <1>18, <1>19, <1>20, <1>21, <1>22, <1>23, <1>24, <1>25, <1>26, <1>27, <1>28, <1>29 DEF Next, WorkerStep, FiberStep

\* The handshake of inbox_post and io_idle_wait.
LEMMA PollStep ==
    ASSUME NetTypes, PollInv, [Next]_vars
    PROVE  PollInv'
<1> USE DEF InCode, Running, Leave, Disarm, SleeperRemove, Due, WorkerOnly, fiberVars,
            ioVars, kernelVars, bounds, Alive, FireDue, ResumeAll
<1>t. tpc \in [Threads -> {"run", "kick", "posted", "ended"}]
  BY DEF NetTypes
<1>1. ASSUME NEW f \in Fibers, NEW d \in Deadlines \union {now, None}, WaitIo(f, d) PROVE PollInv'
  BY <1>1 DEF WaitIo, PollInv, KickNotLost
<1>2. ASSUME NEW f \in Fibers, NEW d \in Deadlines, Sleep(f, d) PROVE PollInv'
  BY <1>2 DEF Sleep, PollInv, KickNotLost
<1>3. ASSUME NEW f \in Fibers, WaitWake(f) PROVE PollInv'
  BY <1>3 DEF WaitWake, PollInv, KickNotLost
<1>4. ASSUME NEW f \in Fibers, IoReady(f) PROVE PollInv'
  BY <1>4 DEF IoReady, PollInv, KickNotLost
<1>5. ASSUME NEW f \in Fibers, IoTimeout(f) PROVE PollInv'
  BY <1>5 DEF IoTimeout, PollInv, KickNotLost
<1>6. ASSUME NEW f \in Fibers, SleepOver(f) PROVE PollInv'
  BY <1>6 DEF SleepOver, PollInv, KickNotLost
<1>7. ASSUME NEW f \in Fibers, WaitCancelled(f) PROVE PollInv'
  BY <1>7 DEF WaitCancelled, PollInv, KickNotLost
<1>8. ASSUME NEW f \in Fibers, WaitLatched(f) PROVE PollInv'
  BY <1>8 DEF WaitLatched, PollInv, KickNotLost
<1>9. ASSUME NEW f \in Fibers, WaitPark(f) PROVE PollInv'
  BY <1>9 DEF WaitPark, PollInv, KickNotLost
<1>10. ASSUME NEW f \in Fibers, WaitWoken(f) PROVE PollInv'
  BY <1>10 DEF WaitWoken, PollInv, KickNotLost
<1>11. ASSUME NEW f \in Fibers, NEW g \in Fibers, Cancel(f, g) PROVE PollInv'
  BY <1>11 DEF Cancel, PollInv, KickNotLost
<1>12. ASSUME NEW f \in Fibers, Finish(f) PROVE PollInv'
  BY <1>12 DEF Finish, PollInv, KickNotLost
<1>13. CASE Schedule
  BY <1>13 DEF Schedule, PollInv, KickNotLost
<1>14. CASE Dispatch
  BY <1>14 DEF Dispatch, PollInv, KickNotLost
<1>15. CASE Nothing
  BY <1>15 DEF Nothing, PollInv, KickNotLost
<1>16. CASE EnterPoll
  BY <1>16 DEF EnterPoll, PollInv, KickNotLost
<1>17. CASE Recheck
  BY <1>17 DEF Recheck, PollInv, KickNotLost
<1>18. CASE Poll
  BY <1>18 DEF Poll, PollInv, KickNotLost
<1>19. CASE LeavePoll
  BY <1>19 DEF LeavePoll, PollInv, KickNotLost
<1>20. CASE IdleNoTimer
  BY <1>20 DEF IdleNoTimer, PollInv, KickNotLost
<1>21. CASE IdleTimer
  BY <1>21 DEF IdleTimer, PollInv, KickNotLost
<1>22. CASE CondWake
  BY <1>22 DEF CondWake, PollInv, KickNotLost
<1>23. CASE TimedWake
  BY <1>23 DEF TimedWake, PollInv, KickNotLost
<1>24. ASSUME NEW t \in Threads, Kick(t) PROVE PollInv'
  BY <1>24, <1>t DEF Kick, PollInv, KickNotLost
<1>25. ASSUME NEW t \in Threads, ThreadEnd(t) PROVE PollInv'
  BY <1>25 DEF ThreadEnd, PollInv, KickNotLost
<1>26. ASSUME NEW t \in Threads, NEW f \in Fibers, Post(t, f) PROVE PollInv'
  <2>1. CASE state[f] = "PARKED"
    <3>1. tpc'[t] = "kick" /\ UNCHANGED <<phase, in_poll>>
      BY <1>26, <2>1, <1>t DEF Post
    <3> QED BY <3>1 DEF PollInv, KickNotLost
  <2>2. CASE state[f] # "PARKED"
    <3>1. UNCHANGED <<phase, in_poll, inbox, kicked>> /\ tpc[t] = "run" /\ tpc' = [tpc EXCEPT ![t] = "posted"]
      BY <1>26, <2>2 DEF Post
    <3>2. \A u \in Threads : tpc[u] = "kick" => tpc'[u] = "kick"
      BY <3>1, <1>t
    <3> QED BY <3>1, <3>2 DEF PollInv, KickNotLost
  <2> QED BY <2>1, <2>2
<1>27. ASSUME NEW f \in Fibers, FdReady(f) PROVE PollInv'
  BY <1>27 DEF FdReady, PollInv, KickNotLost
<1>28. CASE Tick
  BY <1>28 DEF Tick, PollInv, KickNotLost
<1>29. CASE UNCHANGED vars
  BY <1>29 DEF vars, PollInv, KickNotLost
<1> QED BY <1>1, <1>2, <1>3, <1>4, <1>5, <1>6, <1>7, <1>8, <1>9, <1>10, <1>11, <1>12,
           <1>13, <1>14, <1>15, <1>16, <1>17, <1>18, <1>19, <1>20, <1>21, <1>22, <1>23, <1>24, <1>25, <1>26, <1>27, <1>28, <1>29 DEF Next, WorkerStep, FiberStep

\* Every ready fiber stays in a queue.
LEMMA QueueStep ==
    ASSUME NetTypes, QueueInv, [Next]_vars
    PROVE  QueueInv'
<1> USE DEF InCode, Running, Leave, Disarm, WorkerOnly, fiberVars, ioVars, kernelVars,
            bounds, Alive
<1>w. /\ Range(ready \o inbox) = Range(ready) \union Range(inbox)
      /\ Schedule \/ LeavePoll \/ TimedWake => WakeKeeps(ready \o inbox)
      /\ EnterPoll \/ IdleTimer \/ Poll => WakeKeeps(ready)
      /\ \A f, g \in Fibers : Cancel(f, g) => WakeKeeps(ready)
  BY WakesLemma
<1>e. Range(<<>>) = {}
  BY EmptySeq DEF Range
<1>1. ASSUME NEW f \in Fibers, NEW d \in Deadlines \union {now, None}, WaitIo(f, d) PROVE QueueInv'
  BY <1>1 DEF WaitIo, QueueInv
<1>2. ASSUME NEW f \in Fibers, NEW d \in Deadlines, Sleep(f, d) PROVE QueueInv'
  BY <1>2 DEF Sleep, QueueInv
<1>3. ASSUME NEW f \in Fibers, WaitWake(f) PROVE QueueInv'
  BY <1>3 DEF WaitWake, QueueInv
<1>4. ASSUME NEW f \in Fibers, IoReady(f) PROVE QueueInv'
  BY <1>4 DEF IoReady, QueueInv
<1>5. ASSUME NEW f \in Fibers, IoTimeout(f) PROVE QueueInv'
  BY <1>5 DEF IoTimeout, QueueInv
<1>6. ASSUME NEW f \in Fibers, SleepOver(f) PROVE QueueInv'
  BY <1>6 DEF SleepOver, QueueInv
<1>7. ASSUME NEW f \in Fibers, WaitCancelled(f) PROVE QueueInv'
  BY <1>7 DEF WaitCancelled, QueueInv
<1>8. ASSUME NEW f \in Fibers, WaitLatched(f) PROVE QueueInv'
  BY <1>8 DEF WaitLatched, QueueInv
<1>9. ASSUME NEW f \in Fibers, WaitPark(f) PROVE QueueInv'
  BY <1>9 DEF WaitPark, QueueInv, NetTypes
<1>10. ASSUME NEW f \in Fibers, WaitWoken(f) PROVE QueueInv'
  BY <1>10 DEF WaitWoken, QueueInv
<1>11. ASSUME NEW f \in Fibers, NEW g \in Fibers, Cancel(f, g) PROVE QueueInv'
  <2>1. WakeKeeps(ready)
    BY <1>11, <1>w
  <2> QED BY <1>11, <2>1, <1>w, <1>e DEF Cancel, QueueInv, NetTypes, WakeKeeps
<1>12. ASSUME NEW f \in Fibers, Finish(f) PROVE QueueInv'
  BY <1>12 DEF Finish, QueueInv, NetTypes
<1>13. CASE Schedule
  <2>1. WakeKeeps(ready \o inbox)
    BY <1>13, <1>w
  <2> QED BY <1>13, <2>1, <1>w, <1>e DEF Schedule, QueueInv, NetTypes, WakeKeeps
<1>14. CASE Dispatch
  <2>1. /\ Head(ready) \in Fibers
        /\ \A f \in Range(ready) : f = Head(ready) \/ f \in Range(Tail(ready))
    <3>1. Len(ready) \in Nat \ {0} /\ DOMAIN ready = 1..Len(ready) /\ Head(ready) = ready[1]
          /\ DOMAIN Tail(ready) = 1..(Len(ready) - 1)
          /\ \A i \in 1..(Len(ready) - 1) : Tail(ready)[i] = ready[i + 1]
      BY <1>14, HeadTailProperties, LenProperties, EmptySeq DEF Dispatch, NetTypes
    <3>2. ASSUME NEW f \in Range(ready), f # Head(ready) PROVE f \in Range(Tail(ready))
      <4>1. PICK i \in 1..Len(ready) : f = ready[i]
        BY <3>1 DEF Range
      <4>2. i - 1 \in 1..(Len(ready) - 1) /\ Tail(ready)[i - 1] = f
        BY <3>1, <3>2, <4>1
      <4> QED BY <3>1, <4>2 DEF Range
    <3>3. Head(ready) \in Fibers
      BY <3>1, ElementOfSeq DEF NetTypes
    <3> QED BY <3>2, <3>3
  <2> QED BY <1>14, <2>1 DEF Dispatch, QueueInv, NetTypes
<1>15. CASE Nothing
  BY <1>15 DEF Nothing, QueueInv
<1>16. CASE EnterPoll
  <2>1. WakeKeeps(ready)
    BY <1>16, <1>w
  <2> QED BY <1>16, <2>1, <1>w, <1>e DEF EnterPoll, QueueInv, NetTypes, WakeKeeps
<1>17. CASE Recheck
  BY <1>17, <1>w, <1>e DEF Recheck, QueueInv
<1>18. CASE Poll
  <2>1. WakeKeeps(ready)
    BY <1>18, <1>w
  <2> QED BY <1>18, <2>1, <1>w, <1>e DEF Poll, QueueInv, NetTypes, WakeKeeps
<1>19. CASE LeavePoll
  <2>1. WakeKeeps(ready \o inbox)
    BY <1>19, <1>w
  <2> QED BY <1>19, <2>1, <1>w, <1>e DEF LeavePoll, QueueInv, NetTypes, WakeKeeps
<1>20. CASE IdleNoTimer
  BY <1>20, <1>w, <1>e DEF IdleNoTimer, QueueInv
<1>21. CASE IdleTimer
  <2>1. WakeKeeps(ready)
    BY <1>21, <1>w
  <2> QED BY <1>21, <2>1, <1>w, <1>e DEF IdleTimer, QueueInv, NetTypes, WakeKeeps
<1>22. CASE CondWake
  BY <1>22, <1>w, <1>e DEF CondWake, QueueInv
<1>23. CASE TimedWake
  <2>1. WakeKeeps(ready \o inbox)
    BY <1>23, <1>w
  <2> QED BY <1>23, <2>1, <1>w, <1>e DEF TimedWake, QueueInv, NetTypes, WakeKeeps
<1>24. ASSUME NEW t \in Threads, Kick(t) PROVE QueueInv'
  BY <1>24 DEF Kick, QueueInv
<1>25. ASSUME NEW t \in Threads, ThreadEnd(t) PROVE QueueInv'
  BY <1>25 DEF ThreadEnd, QueueInv
<1>26. ASSUME NEW t \in Threads, NEW f \in Fibers, Post(t, f) PROVE QueueInv'
  <2>1. Range(Append(inbox, f)) = Range(inbox) \union {f}
    <3>1. Append(inbox, f) = inbox \o <<f>> /\ <<f>> \in Seq(Fibers) /\ Range(<<f>>) = {f}
      BY ShortLemma DEF NetTypes
    <3> DEFINE one == <<f>>
    <3>2. one \in Seq(Fibers) /\ Range(one) = {f} /\ Append(inbox, f) = inbox \o one
      BY <3>1
    <3> HIDE DEF one
    <3> QED BY <3>2, RangeConcatenation DEF NetTypes
  <2>2. UNCHANGED <<ready, current, phase>>
    BY <1>26 DEF Post
  <2>3. CASE state[f] = "PARKED"
    <3>1. state' = [state EXCEPT ![f] = "READY"] /\ Range(inbox') = Range(inbox) \union {f}
      BY <1>26, <2>1, <2>3 DEF Post
    <3> QED BY <2>2, <2>3, <3>1 DEF QueueInv, NetTypes
  <2>4. CASE state[f] # "PARKED"
    BY <1>26, <2>2, <2>4 DEF Post, QueueInv
  <2> QED BY <2>3, <2>4
<1>27. ASSUME NEW f \in Fibers, FdReady(f) PROVE QueueInv'
  BY <1>27 DEF FdReady, QueueInv
<1>28. CASE Tick
  BY <1>28 DEF Tick, QueueInv
<1>29. CASE UNCHANGED vars
  BY <1>29 DEF vars, QueueInv
<1> QED BY <1>1, <1>2, <1>3, <1>4, <1>5, <1>6, <1>7, <1>8, <1>9, <1>10, <1>11, <1>12,
           <1>13, <1>14, <1>15, <1>16, <1>17, <1>18, <1>19, <1>20, <1>21, <1>22, <1>23, <1>24, <1>25, <1>26, <1>27, <1>28, <1>29 DEF Next, WorkerStep, FiberStep

\* A registration belongs to the io wait its fiber is in.
LEMMA ArmStep ==
    ASSUME NetTypes, QueueInv, ArmInv, [Next]_vars
    PROVE  ArmInv'
<1> USE DEF InCode, Running, Leave, Disarm, WorkerOnly, fiberVars, ioVars, kernelVars,
            bounds, Alive, Armed
<1>w. /\ Schedule \/ LeavePoll \/ TimedWake => WakeKeeps(ready \o inbox)
      /\ EnterPoll \/ IdleTimer \/ Poll => WakeKeeps(ready)
      /\ \A f, g \in Fibers : Cancel(f, g) => WakeKeeps(ready)
  BY WakesLemma
<1>1. ASSUME NEW f \in Fibers, NEW d \in Deadlines \union {now, None}, WaitIo(f, d) PROVE ArmInv'
  <2>1. /\ phase = "fiber" /\ current = f /\ UNCHANGED state
        /\ registered' = registered \union {f} /\ io_armed' = [io_armed EXCEPT ![f] = TRUE]
        /\ io_signalled' = [io_signalled EXCEPT ![f] = FALSE] /\ wait' = [wait EXCEPT ![f] = "io"]
    BY <1>1 DEF WaitIo
  <2>2. /\ wait \in [Fibers -> {"code", "io", "sleep", "park"}]
        /\ io_armed \in [Fibers -> BOOLEAN] /\ io_signalled \in [Fibers -> BOOLEAN]
    BY DEF NetTypes
  <2>3. state[f] = "RUNNING"
    BY <2>1 DEF QueueInv
  <2>4. registered' = {h \in Fibers : io_armed'[h]}
    BY <2>1, <2>2 DEF ArmInv, ArmedIsWaiting
  <2>5. \A h \in Fibers : io_armed'[h] => wait'[h] = "io" /\ state'[h] # "DONE"
    BY <2>1, <2>2, <2>3 DEF ArmInv, ArmedIsWaiting
  <2>6. \A h \in Fibers : wait'[h] = "io" => io_armed'[h] # io_signalled'[h]
    BY <2>1, <2>2 DEF ArmInv
  <2> QED BY <2>4, <2>5, <2>6 DEF ArmInv, ArmedIsWaiting
<1>2. ASSUME NEW f \in Fibers, NEW d \in Deadlines, Sleep(f, d) PROVE ArmInv'
  BY <1>2 DEF Sleep, ArmInv, ArmedIsWaiting, QueueInv, NetTypes
<1>3. ASSUME NEW f \in Fibers, WaitWake(f) PROVE ArmInv'
  BY <1>3 DEF WaitWake, ArmInv, ArmedIsWaiting, QueueInv, NetTypes
<1>4. ASSUME NEW f \in Fibers, IoReady(f) PROVE ArmInv'
  BY <1>4 DEF IoReady, ArmInv, ArmedIsWaiting, QueueInv, NetTypes
<1>5. ASSUME NEW f \in Fibers, IoTimeout(f) PROVE ArmInv'
  BY <1>5 DEF IoTimeout, ArmInv, ArmedIsWaiting, QueueInv, NetTypes
<1>6. ASSUME NEW f \in Fibers, SleepOver(f) PROVE ArmInv'
  BY <1>6 DEF SleepOver, ArmInv, ArmedIsWaiting, QueueInv, NetTypes
<1>7. ASSUME NEW f \in Fibers, WaitCancelled(f) PROVE ArmInv'
  <2>1. /\ wait[f] # "code" /\ wait' = [wait EXCEPT ![f] = "code"]
        /\ UNCHANGED <<state, io_signalled>>
    BY <1>7 DEF WaitCancelled
  <2>2. CASE wait[f] = "io"
    BY <1>7, <2>1, <2>2 DEF WaitCancelled, ArmInv, ArmedIsWaiting, NetTypes
  <2>3. CASE wait[f] # "io"
    BY <1>7, <2>1, <2>3 DEF WaitCancelled, ArmInv, ArmedIsWaiting, NetTypes
  <2> QED BY <2>2, <2>3
<1>8. ASSUME NEW f \in Fibers, WaitLatched(f) PROVE ArmInv'
  BY <1>8 DEF WaitLatched, ArmInv, ArmedIsWaiting, QueueInv, NetTypes
<1>9. ASSUME NEW f \in Fibers, WaitPark(f) PROVE ArmInv'
  BY <1>9 DEF WaitPark, ArmInv, ArmedIsWaiting, QueueInv, NetTypes
<1>10. ASSUME NEW f \in Fibers, WaitWoken(f) PROVE ArmInv'
  BY <1>10 DEF WaitWoken, ArmInv, ArmedIsWaiting, QueueInv, NetTypes
<1>11. ASSUME NEW f \in Fibers, NEW g \in Fibers, Cancel(f, g) PROVE ArmInv'
  <2>1. WakeKeeps(ready)
    BY <1>11, <1>w
  <2> QED BY <1>11, <2>1 DEF Cancel, ArmInv, ArmedIsWaiting, NetTypes, WakeKeeps
<1>12. ASSUME NEW f \in Fibers, Finish(f) PROVE ArmInv'
  BY <1>12 DEF Finish, ArmInv, ArmedIsWaiting, QueueInv, NetTypes
<1>13. CASE Schedule
  <2>1. WakeKeeps(ready \o inbox)
    BY <1>13, <1>w
  <2> QED BY <1>13, <2>1 DEF Schedule, ArmInv, ArmedIsWaiting, NetTypes, WakeKeeps
<1>14. CASE Dispatch
  BY <1>14 DEF Dispatch, ArmInv, ArmedIsWaiting, QueueInv, NetTypes
<1>15. CASE Nothing
  BY <1>15 DEF Nothing, ArmInv, ArmedIsWaiting
<1>16. CASE EnterPoll
  <2>1. WakeKeeps(ready)
    BY <1>16, <1>w
  <2> QED BY <1>16, <2>1 DEF EnterPoll, ArmInv, ArmedIsWaiting, NetTypes, WakeKeeps
<1>17. CASE Recheck
  BY <1>17 DEF Recheck, ArmInv, ArmedIsWaiting
<1>18. CASE Poll
  <2>1. WakeKeeps(ready)
    BY <1>18, <1>w
  <2> QED BY <1>18, <2>1 DEF Poll, ArmInv, ArmedIsWaiting, NetTypes, WakeKeeps
<1>19. CASE LeavePoll
  <2>1. WakeKeeps(ready \o inbox)
    BY <1>19, <1>w
  <2> QED BY <1>19, <2>1 DEF LeavePoll, ArmInv, ArmedIsWaiting, NetTypes, WakeKeeps
<1>20. CASE IdleNoTimer
  BY <1>20 DEF IdleNoTimer, ArmInv, ArmedIsWaiting
<1>21. CASE IdleTimer
  <2>1. WakeKeeps(ready)
    BY <1>21, <1>w
  <2> QED BY <1>21, <2>1 DEF IdleTimer, ArmInv, ArmedIsWaiting, NetTypes, WakeKeeps
<1>22. CASE CondWake
  BY <1>22 DEF CondWake, ArmInv, ArmedIsWaiting
<1>23. CASE TimedWake
  <2>1. WakeKeeps(ready \o inbox)
    BY <1>23, <1>w
  <2> QED BY <1>23, <2>1 DEF TimedWake, ArmInv, ArmedIsWaiting, NetTypes, WakeKeeps
<1>24. ASSUME NEW t \in Threads, Kick(t) PROVE ArmInv'
  BY <1>24 DEF Kick, ArmInv, ArmedIsWaiting
<1>25. ASSUME NEW t \in Threads, ThreadEnd(t) PROVE ArmInv'
  BY <1>25 DEF ThreadEnd, ArmInv, ArmedIsWaiting
<1>26. ASSUME NEW t \in Threads, NEW f \in Fibers, Post(t, f) PROVE ArmInv'
  BY <1>26 DEF Post, ArmInv, ArmedIsWaiting, QueueInv, NetTypes
<1>27. ASSUME NEW f \in Fibers, FdReady(f) PROVE ArmInv'
  BY <1>27 DEF FdReady, ArmInv, ArmedIsWaiting
<1>28. CASE Tick
  BY <1>28 DEF Tick, ArmInv, ArmedIsWaiting
<1>29. CASE UNCHANGED vars
  BY <1>29 DEF vars, ArmInv, ArmedIsWaiting
<1> QED BY <1>1, <1>2, <1>3, <1>4, <1>5, <1>6, <1>7, <1>8, <1>9, <1>10, <1>11, <1>12,
           <1>13, <1>14, <1>15, <1>16, <1>17, <1>18, <1>19, <1>20, <1>21, <1>22, <1>23, <1>24, <1>25, <1>26, <1>27, <1>28, <1>29 DEF Next, WorkerStep, FiberStep

\* The count of io waiters is off by at most the fibers that unwound.
LEMMA CountStep ==
    ASSUME NetTypes, ArmInv, CountInv, [Next]_vars
    PROVE  CountInv'
<1> USE DEF InCode, Running, Leave, Disarm, WorkerOnly, fiberVars, ioVars, kernelVars,
            bounds, Alive
<1>f. /\ IsFiniteSet(Armed) /\ IsFiniteSet(Cancelled) /\ IsFiniteSet(Unwinding)
      /\ Cardinality(Armed) \in Nat /\ Cardinality(Cancelled) \in Nat
      /\ Cardinality(Unwinding) \in Nat
  BY ConstantsAssumption, FS_Subset, FS_CardinalityType DEF Armed, Cancelled, Unwinding
<1>s. ASSUME UNCHANGED <<io_armed, io_waiters, cancel_flag, unwinding, cancels>> PROVE CountInv'
  <2>1. UNCHANGED <<Armed, Cancelled, Unwinding, io_waiters, cancels>>
    BY <1>s DEF Armed, Cancelled, Unwinding
  <2> QED BY <2>1 DEF CountInv
<1>1. ASSUME NEW f \in Fibers, NEW d \in Deadlines \union {now, None}, WaitIo(f, d) PROVE CountInv'
  <2>1. f \notin Armed /\ Armed' = Armed \union {f} /\ io_waiters' = io_waiters + 1
    BY <1>1 DEF WaitIo, Armed, ArmInv, ArmedIsWaiting, NetTypes
  <2>2. Cardinality(Armed') = Cardinality(Armed) + 1
    BY <1>f, <2>1, FS_AddElement
  <2>3. UNCHANGED <<Cancelled, Unwinding, cancels>>
    BY <1>1 DEF WaitIo, Cancelled, Unwinding
  <2> QED BY <1>f, <2>1, <2>2, <2>3 DEF CountInv, NetTypes
<1>2. ASSUME NEW f \in Fibers, NEW d \in Deadlines, Sleep(f, d) PROVE CountInv'
  BY <1>2, <1>s DEF Sleep
<1>3. ASSUME NEW f \in Fibers, WaitWake(f) PROVE CountInv'
  BY <1>3, <1>s DEF WaitWake
<1>4. ASSUME NEW f \in Fibers, IoReady(f) PROVE CountInv'
  BY <1>4, <1>s DEF IoReady
<1>5. ASSUME NEW f \in Fibers, IoTimeout(f) PROVE CountInv'
  <2>1. f \in Armed /\ Armed' = Armed \ {f} /\ io_waiters' = io_waiters - 1
    BY <1>5 DEF IoTimeout, Armed, ArmInv, NetTypes
  <2>2. Cardinality(Armed') = Cardinality(Armed) - 1
    BY <1>f, <2>1, FS_RemoveElement
  <2>3. UNCHANGED <<Cancelled, Unwinding, cancels>>
    BY <1>5 DEF IoTimeout, Cancelled, Unwinding
  <2> QED BY <1>f, <2>1, <2>2, <2>3 DEF CountInv, NetTypes
<1>6. ASSUME NEW f \in Fibers, SleepOver(f) PROVE CountInv'
  BY <1>6, <1>s DEF SleepOver
<1>7. ASSUME NEW f \in Fibers, WaitCancelled(f) PROVE CountInv'
  <2>1. f \in Cancelled /\ f \notin Unwinding /\ Unwinding' = Unwinding \union {f}
    BY <1>7 DEF WaitCancelled, Observable, Cancelled, Unwinding, NetTypes
  <2>2. Cardinality(Unwinding') = Cardinality(Unwinding) + 1
    BY <1>f, <2>1, FS_AddElement
  <2>3. UNCHANGED <<Cancelled, cancels>>
    BY <1>7 DEF WaitCancelled, Cancelled
  <2>4. CASE wait[f] = "io" /\ f \in Armed
    <3>1. Armed' = Armed \ {f} /\ io_waiters' = io_waiters - 1
      BY <1>7, <2>4 DEF WaitCancelled, Armed, NetTypes
    <3>2. Cardinality(Armed') = Cardinality(Armed) - 1
      BY <1>f, <2>4, <3>1, FS_RemoveElement
    <3> QED BY <1>f, <2>1, <2>2, <2>3, <3>1, <3>2 DEF CountInv, NetTypes
  <2>5. CASE wait[f] = "io" /\ f \notin Armed
    <3>1. Armed' = Armed /\ io_waiters' = io_waiters - 1
      BY <1>7, <2>5 DEF WaitCancelled, Armed, NetTypes
    <3> QED BY <1>f, <2>1, <2>2, <2>3, <3>1 DEF CountInv, NetTypes
  <2>6. CASE wait[f] # "io"
    <3>1. Armed' = Armed /\ io_waiters' = io_waiters
      BY <1>7, <2>6 DEF WaitCancelled, Armed
    <3> QED BY <1>f, <2>1, <2>2, <2>3, <3>1 DEF CountInv, NetTypes
  <2> QED BY <2>4, <2>5, <2>6
<1>8. ASSUME NEW f \in Fibers, WaitLatched(f) PROVE CountInv'
  BY <1>8, <1>s DEF WaitLatched
<1>9. ASSUME NEW f \in Fibers, WaitPark(f) PROVE CountInv'
  BY <1>9, <1>s DEF WaitPark
<1>10. ASSUME NEW f \in Fibers, WaitWoken(f) PROVE CountInv'
  BY <1>10, <1>s DEF WaitWoken
<1>11. ASSUME NEW f \in Fibers, NEW g \in Fibers, Cancel(f, g) PROVE CountInv'
  <2>1. UNCHANGED <<io_armed, io_waiters, unwinding>> /\ cancels' = cancels + 1
    BY <1>11 DEF Cancel
  <2>2. UNCHANGED <<Armed, Unwinding>>
    BY <2>1 DEF Armed, Unwinding
  <2>3. Cancelled' = Cancelled \union {g}
    BY <1>11 DEF Cancel, Cancelled, NetTypes
  <2>4. Cardinality(Cancelled') <= Cardinality(Cancelled) + 1 /\ Cardinality(Cancelled') \in Nat
    <3>1. Cardinality(Cancelled \union {g})
            = IF g \in Cancelled THEN Cardinality(Cancelled) ELSE Cardinality(Cancelled) + 1
      BY <1>f, FS_AddElement
    <3> QED BY <1>f, <2>3, <3>1
  <2>5. Unwinding' \subseteq Cancelled'
    BY <2>2, <2>3 DEF CountInv
  <2> QED BY <1>f, <2>1, <2>2, <2>4, <2>5 DEF CountInv, NetTypes
<1>12. ASSUME NEW f \in Fibers, Finish(f) PROVE CountInv'
  BY <1>12, <1>s DEF Finish
<1>13. CASE Schedule
  BY <1>13, <1>s DEF Schedule
<1>14. CASE Dispatch
  BY <1>14, <1>s DEF Dispatch
<1>15. CASE Nothing
  BY <1>15, <1>s DEF Nothing
<1>16. CASE EnterPoll
  BY <1>16, <1>s DEF EnterPoll
<1>17. CASE Recheck
  BY <1>17, <1>s DEF Recheck
<1>18. CASE Poll
  <2> DEFINE events == registered \intersect fd_ready
  <2>1. /\ io_waiters' = io_waiters - Cardinality(events)
        /\ io_armed' = [h \in Fibers |-> h \notin events /\ io_armed[h]]
        /\ UNCHANGED <<cancel_flag, unwinding, cancels>>
    BY <1>18 DEF Poll
  <2>2. UNCHANGED <<Cancelled, Unwinding>>
    BY <2>1 DEF Cancelled, Unwinding
  <2>3. events \subseteq Armed
    BY DEF ArmInv, ArmedIsWaiting
  <2>4. Armed' = Armed \ events
    BY <2>1 DEF Armed, NetTypes
  <2>5. IsFiniteSet(events) /\ Cardinality(events) \in Nat
    BY <1>f, <2>3, FS_Subset, FS_CardinalityType
  <2>6. Armed \intersect events = events
    BY <2>3
  <2> HIDE DEF events
  <2>7. Cardinality(Armed') = Cardinality(Armed) - Cardinality(events)
    <3>1. Cardinality(Armed \ events) = Cardinality(Armed) - Cardinality(Armed \intersect events)
      BY <1>f, FS_Difference
    <3> QED BY <2>4, <2>6, <3>1
  <2> QED BY <1>f, <2>1, <2>2, <2>5, <2>7 DEF CountInv, NetTypes
<1>19. CASE LeavePoll
  BY <1>19, <1>s DEF LeavePoll
<1>20. CASE IdleNoTimer
  BY <1>20, <1>s DEF IdleNoTimer
<1>21. CASE IdleTimer
  BY <1>21, <1>s DEF IdleTimer
<1>22. CASE CondWake
  BY <1>22, <1>s DEF CondWake
<1>23. CASE TimedWake
  BY <1>23, <1>s DEF TimedWake
<1>24. ASSUME NEW t \in Threads, Kick(t) PROVE CountInv'
  BY <1>24, <1>s DEF Kick
<1>25. ASSUME NEW t \in Threads, ThreadEnd(t) PROVE CountInv'
  BY <1>25, <1>s DEF ThreadEnd
<1>26. ASSUME NEW t \in Threads, NEW f \in Fibers, Post(t, f) PROVE CountInv'
  BY <1>26, <1>s DEF Post
<1>27. ASSUME NEW f \in Fibers, FdReady(f) PROVE CountInv'
  BY <1>27, <1>s DEF FdReady
<1>28. CASE Tick
  BY <1>28, <1>s DEF Tick
<1>29. CASE UNCHANGED vars
  BY <1>s, <1>29 DEF vars
<1> QED BY <1>1, <1>2, <1>3, <1>4, <1>5, <1>6, <1>7, <1>8, <1>9, <1>10, <1>11, <1>12,
           <1>13, <1>14, <1>15, <1>16, <1>17, <1>18, <1>19, <1>20, <1>21, <1>22, <1>23, <1>24, <1>25, <1>26, <1>27, <1>28, <1>29 DEF Next, WorkerStep, FiberStep

\* A timer outlives its wait only in the fiber that began it, and only when due.
LEMMA TimerStep ==
    ASSUME NetTypes, CountInv, cancels = 0 => TimerInv, [Next]_vars
    PROVE  (cancels = 0 => TimerInv)'
<1> USE DEF InCode, Running, Leave, WorkerOnly, fiberVars, ioVars, kernelVars, bounds,
            Alive, Live
<1>c. cancels = 0 => Cancelled = {}
  <2>1. IsFiniteSet(Cancelled) /\ Cardinality(Cancelled) \in Nat
    BY ConstantsAssumption, FS_Subset, FS_CardinalityType DEF Cancelled
  <2> QED BY <2>1, FS_EmptySet DEF CountInv
<1>1. ASSUME NEW f \in Fibers, NEW d \in Deadlines \union {now, None}, WaitIo(f, d) PROVE (cancels = 0 => TimerInv)'
  BY <1>1, ConstantsAssumption DEF WaitIo, TimerInv, NetTypes, Deadlines
<1>2. ASSUME NEW f \in Fibers, NEW d \in Deadlines, Sleep(f, d) PROVE (cancels = 0 => TimerInv)'
  BY <1>2, ConstantsAssumption DEF Sleep, TimerInv, NetTypes, Deadlines
<1>3. ASSUME NEW f \in Fibers, WaitWake(f) PROVE (cancels = 0 => TimerInv)'
  BY <1>3 DEF WaitWake, TimerInv, NetTypes
<1>4. ASSUME NEW f \in Fibers, IoReady(f) PROVE (cancels = 0 => TimerInv)'
  <2> SUFFICES ASSUME cancels = 0, TimerInv PROVE TimerInv'
    BY <1>4 DEF IoReady
  <2>1. \A e \in sleepers : e[2] = f => e[1] = deadline[f]
    BY <1>4 DEF IoReady, TimerInv
  <2>2. \A e \in sleepers' : e \in sleepers /\ e[2] # f
    <3>1. CASE deadline[f] = None
      BY <1>4, <2>1, <3>1, ConstantsAssumption DEF IoReady, NetTypes
    <3>2. CASE deadline[f] # None
      <4>1. \A d, e \in sleepers : d[2] = f /\ e[2] = f => d = e
        BY <2>1 DEF NetTypes
      <4> QED BY <1>4, <3>2, <4>1 DEF IoReady, SleeperRemove
    <3> QED BY <3>1, <3>2
  <2>3. /\ wait' = [wait EXCEPT ![f] = "code"] /\ deadline' = [deadline EXCEPT ![f] = None]
        /\ UNCHANGED <<io_signalled, now, phase, current>>
    BY <1>4 DEF IoReady
  <2>4. \A e \in sleepers' : e \in sleepers /\ deadline'[e[2]] = deadline[e[2]] /\ wait'[e[2]] = wait[e[2]]
    BY <2>2, <2>3 DEF NetTypes
  <2> QED BY <2>3, <2>4 DEF TimerInv
<1>5. ASSUME NEW f \in Fibers, IoTimeout(f) PROVE (cancels = 0 => TimerInv)'
  <2> SUFFICES ASSUME cancels = 0, TimerInv PROVE TimerInv'
    BY <1>5 DEF IoTimeout
  <2>1. /\ sleepers' \subseteq sleepers
        /\ wait' = [wait EXCEPT ![f] = "code"] /\ deadline' = [deadline EXCEPT ![f] = None]
        /\ UNCHANGED <<io_signalled, now, phase, current>>
    BY <1>5 DEF IoTimeout, SleeperRemove
  <2>2. \A e \in sleepers : e[2] = f => e[1] <= now
    BY <1>5 DEF IoTimeout, Expired, TimerInv, NetTypes
  <2>3. phase = "fiber" /\ current = f
    BY <1>5 DEF IoTimeout
  <2>4. ASSUME NEW e \in sleepers PROVE e[2] = f \/ (deadline'[e[2]] = deadline[e[2]] /\ wait'[e[2]] = wait[e[2]])
    BY <2>1 DEF NetTypes
  <2>5. f \in Fibers => wait'[f] = "code"
    BY <2>1 DEF NetTypes
  <2> QED BY <2>1, <2>2, <2>3, <2>4, <2>5 DEF TimerInv
<1>6. ASSUME NEW f \in Fibers, SleepOver(f) PROVE (cancels = 0 => TimerInv)'
  <2> SUFFICES ASSUME cancels = 0, TimerInv PROVE TimerInv'
    BY <1>6 DEF SleepOver
  <2>1. /\ sleepers' \subseteq sleepers
        /\ wait' = [wait EXCEPT ![f] = "code"] /\ deadline' = [deadline EXCEPT ![f] = None]
        /\ UNCHANGED <<io_signalled, now, phase, current>>
    BY <1>6 DEF SleepOver, SleeperRemove
  <2>2. \A e \in sleepers : e[2] = f => e[1] <= now
    BY <1>6 DEF SleepOver, Expired, TimerInv, NetTypes
  <2>3. phase = "fiber" /\ current = f
    BY <1>6 DEF SleepOver
  <2>4. ASSUME NEW e \in sleepers PROVE e[2] = f \/ (deadline'[e[2]] = deadline[e[2]] /\ wait'[e[2]] = wait[e[2]])
    BY <2>1 DEF NetTypes
  <2>5. f \in Fibers => wait'[f] = "code"
    BY <2>1 DEF NetTypes
  <2> QED BY <2>1, <2>2, <2>3, <2>4, <2>5 DEF TimerInv
<1>7. ASSUME NEW f \in Fibers, WaitCancelled(f) PROVE (cancels = 0 => TimerInv)'
  <2>1. f \in Cancelled /\ cancels' = cancels
    BY <1>7 DEF WaitCancelled, Observable, Cancelled
  <2> QED BY <1>c, <2>1
<1>8. ASSUME NEW f \in Fibers, WaitLatched(f) PROVE (cancels = 0 => TimerInv)'
  BY <1>8 DEF WaitLatched, TimerInv, NetTypes
<1>9. ASSUME NEW f \in Fibers, WaitPark(f) PROVE (cancels = 0 => TimerInv)'
  BY <1>9 DEF WaitPark, TimerInv, NetTypes
<1>10. ASSUME NEW f \in Fibers, WaitWoken(f) PROVE (cancels = 0 => TimerInv)'
  BY <1>10 DEF WaitWoken, TimerInv, NetTypes
<1>11. ASSUME NEW f \in Fibers, NEW g \in Fibers, Cancel(f, g) PROVE (cancels = 0 => TimerInv)'
  <2>1. cancels' = cancels + 1
    BY <1>11 DEF Cancel
  <2> QED BY <2>1 DEF NetTypes
<1>12. ASSUME NEW f \in Fibers, Finish(f) PROVE (cancels = 0 => TimerInv)'
  BY <1>12 DEF Finish, TimerInv, NetTypes
<1>13. CASE Schedule
  <2>1. sleepers' = sleepers \ Due
    BY <1>13, WakesLemma
  <2> QED BY <1>13, <2>1 DEF Schedule, Due, TimerInv, NetTypes
<1>14. CASE Dispatch
  BY <1>14 DEF Dispatch, TimerInv, NetTypes
<1>15. CASE Nothing
  BY <1>15 DEF Nothing, TimerInv, NetTypes
<1>16. CASE EnterPoll
  <2>1. sleepers' = sleepers \ Due
    BY <1>16, WakesLemma
  <2> QED BY <1>16, <2>1 DEF EnterPoll, Due, TimerInv, NetTypes
<1>17. CASE Recheck
  BY <1>17 DEF Recheck, TimerInv, NetTypes
<1>18. CASE Poll
  BY <1>18 DEF Poll, TimerInv, NetTypes
<1>19. CASE LeavePoll
  <2>1. sleepers' = sleepers \ Due
    BY <1>19, WakesLemma
  <2> QED BY <1>19, <2>1 DEF LeavePoll, Due, TimerInv, NetTypes
<1>20. CASE IdleNoTimer
  BY <1>20 DEF IdleNoTimer, TimerInv, NetTypes
<1>21. CASE IdleTimer
  <2>1. sleepers' = sleepers \ Due
    BY <1>21, WakesLemma
  <2> QED BY <1>21, <2>1 DEF IdleTimer, Due, TimerInv, NetTypes
<1>22. CASE CondWake
  BY <1>22 DEF CondWake, TimerInv, NetTypes
<1>23. CASE TimedWake
  <2>1. sleepers' = sleepers \ Due
    BY <1>23, WakesLemma
  <2> QED BY <1>23, <2>1 DEF TimedWake, Due, TimerInv, NetTypes
<1>24. ASSUME NEW t \in Threads, Kick(t) PROVE (cancels = 0 => TimerInv)'
  BY <1>24 DEF Kick, TimerInv, NetTypes
<1>25. ASSUME NEW t \in Threads, ThreadEnd(t) PROVE (cancels = 0 => TimerInv)'
  BY <1>25 DEF ThreadEnd, TimerInv, NetTypes
<1>26. ASSUME NEW t \in Threads, NEW f \in Fibers, Post(t, f) PROVE (cancels = 0 => TimerInv)'
  BY <1>26 DEF Post, TimerInv, NetTypes
<1>27. ASSUME NEW f \in Fibers, FdReady(f) PROVE (cancels = 0 => TimerInv)'
  BY <1>27 DEF FdReady, TimerInv, NetTypes
<1>28. CASE Tick
  BY <1>28 DEF Tick, TimerInv, NetTypes
<1>29. CASE UNCHANGED vars
  BY <1>29 DEF vars, TimerInv
<1> QED BY <1>1, <1>2, <1>3, <1>4, <1>5, <1>6, <1>7, <1>8, <1>9, <1>10, <1>11, <1>12,
           <1>13, <1>14, <1>15, <1>16, <1>17, <1>18, <1>19, <1>20, <1>21, <1>22, <1>23, <1>24, <1>25, <1>26, <1>27, <1>28, <1>29 DEF Next, WorkerStep, FiberStep

\* The report's own step: the queues, the count and the timers are all empty.
LEMMA ReportStep ==
    ASSUME NetTypes, QueueInv, CountInv, ReportIsDeadlock, [Next]_vars
    PROVE  ReportIsDeadlock'
<1> USE DEF InCode, Running, WorkerOnly, Alive, MayWake
<1>1. ASSUME NEW f \in Fibers, NEW d \in Deadlines \union {now, None}, WaitIo(f, d) PROVE ReportIsDeadlock'
  BY <1>1 DEF WaitIo, ReportIsDeadlock
<1>2. ASSUME NEW f \in Fibers, NEW d \in Deadlines, Sleep(f, d) PROVE ReportIsDeadlock'
  BY <1>2 DEF Sleep, ReportIsDeadlock
<1>3. ASSUME NEW f \in Fibers, WaitWake(f) PROVE ReportIsDeadlock'
  BY <1>3 DEF WaitWake, ReportIsDeadlock
<1>4. ASSUME NEW f \in Fibers, IoReady(f) PROVE ReportIsDeadlock'
  BY <1>4 DEF IoReady, ReportIsDeadlock
<1>5. ASSUME NEW f \in Fibers, IoTimeout(f) PROVE ReportIsDeadlock'
  BY <1>5 DEF IoTimeout, ReportIsDeadlock
<1>6. ASSUME NEW f \in Fibers, SleepOver(f) PROVE ReportIsDeadlock'
  BY <1>6 DEF SleepOver, ReportIsDeadlock
<1>7. ASSUME NEW f \in Fibers, WaitCancelled(f) PROVE ReportIsDeadlock'
  BY <1>7 DEF WaitCancelled, ReportIsDeadlock
<1>8. ASSUME NEW f \in Fibers, WaitLatched(f) PROVE ReportIsDeadlock'
  BY <1>8 DEF WaitLatched, ReportIsDeadlock
<1>9. ASSUME NEW f \in Fibers, WaitPark(f) PROVE ReportIsDeadlock'
  BY <1>9 DEF WaitPark, ReportIsDeadlock
<1>10. ASSUME NEW f \in Fibers, WaitWoken(f) PROVE ReportIsDeadlock'
  BY <1>10 DEF WaitWoken, ReportIsDeadlock
<1>11. ASSUME NEW f \in Fibers, NEW g \in Fibers, Cancel(f, g) PROVE ReportIsDeadlock'
  BY <1>11 DEF Cancel, ReportIsDeadlock
<1>12. ASSUME NEW f \in Fibers, Finish(f) PROVE ReportIsDeadlock'
  BY <1>12 DEF Finish, ReportIsDeadlock
<1>13. CASE Schedule
  BY <1>13 DEF Schedule, ReportIsDeadlock
<1>14. CASE Dispatch
  BY <1>14 DEF Dispatch, ReportIsDeadlock
<1>15. CASE Nothing
  BY <1>15 DEF Nothing, ReportIsDeadlock
<1>16. CASE EnterPoll
  BY <1>16 DEF EnterPoll, ReportIsDeadlock
<1>17. CASE Recheck
  BY <1>17 DEF Recheck, ReportIsDeadlock
<1>18. CASE Poll
  BY <1>18 DEF Poll, ReportIsDeadlock
<1>19. CASE LeavePoll
  BY <1>19 DEF LeavePoll, ReportIsDeadlock
<1>20. CASE IdleNoTimer
  <2> SUFFICES ASSUME phase' = "reported", cancels' = 0
               PROVE  /\ \A f \in Fibers : state'[f] \in {"PARKED", "DONE"}
                      /\ Armed' = {} /\ sleepers' = {} /\ ~MayWake'
    BY DEF ReportIsDeadlock, MayWake
  <2>1. /\ phase = "idle" /\ ~MayWake /\ sleepers = {} /\ io_waiters <= 0
        /\ ready' = ready \o inbox /\ ready' = <<>>
        /\ UNCHANGED <<state, io_armed, sleepers, tpc, cancels>>
    BY <1>20 DEF IdleNoTimer, NoIoWaiters, fiberVars, ioVars, bounds
  <2>2. Range(ready) \union Range(inbox) = {}
    <3>1. Range(<<>>) = {}
      BY EmptySeq DEF Range
    <3> QED BY <2>1, <3>1, WakesLemma
  <2>3. \A f \in Fibers : state[f] \in {"PARKED", "DONE"}
    BY <2>1, <2>2 DEF QueueInv, NetTypes
  <2>4. Armed = {}
    <3>1. /\ IsFiniteSet(Armed) /\ IsFiniteSet(Unwinding) /\ IsFiniteSet(Cancelled)
          /\ Cardinality(Armed) \in Nat /\ Cardinality(Cancelled) \in Nat
      BY ConstantsAssumption, FS_Subset, FS_CardinalityType DEF Armed, Unwinding,
         Cancelled
    <3>2. cancels = 0
      BY <2>1
    <3>3. Unwinding = {}
      BY <3>1, <3>2, FS_EmptySet DEF CountInv
    <3>4. Cardinality(Armed) = 0
      BY <2>1, <3>1, <3>3, FS_EmptySet DEF CountInv, NetTypes
    <3> QED BY <3>1, <3>4, FS_EmptySet
  <2>5. Armed' = Armed /\ MayWake' = MayWake
    BY <2>1 DEF Armed, MayWake
  <2> QED BY <2>1, <2>3, <2>4, <2>5
<1>21. CASE IdleTimer
  BY <1>21 DEF IdleTimer, ReportIsDeadlock
<1>22. CASE CondWake
  BY <1>22 DEF CondWake, ReportIsDeadlock
<1>23. CASE TimedWake
  BY <1>23 DEF TimedWake, ReportIsDeadlock
<1>24. ASSUME NEW t \in Threads, Kick(t) PROVE ReportIsDeadlock'
  BY <1>24 DEF Kick, ReportIsDeadlock, fiberVars
<1>25. ASSUME NEW t \in Threads, ThreadEnd(t) PROVE ReportIsDeadlock'
  BY <1>25 DEF ThreadEnd, ReportIsDeadlock, fiberVars
<1>26. ASSUME NEW t \in Threads, NEW f \in Fibers, Post(t, f) PROVE ReportIsDeadlock'
  BY <1>26 DEF Post, ReportIsDeadlock
<1>27. ASSUME NEW f \in Fibers, FdReady(f) PROVE ReportIsDeadlock'
  BY <1>27 DEF FdReady, ReportIsDeadlock
<1>28. CASE Tick
  BY <1>28 DEF Tick, ReportIsDeadlock
<1>29. CASE UNCHANGED vars
  BY <1>29 DEF vars, ReportIsDeadlock, Armed, fiberVars, ioVars, kernelVars, bounds
<1> QED BY <1>1, <1>2, <1>3, <1>4, <1>5, <1>6, <1>7, <1>8, <1>9, <1>10, <1>11, <1>12,
           <1>13, <1>14, <1>15, <1>16, <1>17, <1>18, <1>19, <1>20, <1>21, <1>22, <1>23, <1>24, <1>25, <1>26, <1>27, <1>28, <1>29 DEF Next, WorkerStep, FiberStep

-----------------------------------------------------------------------------
LEMMA InitNet == Init => NetInv
<1> SUFFICES ASSUME Init PROVE NetInv
  OBVIOUS
<1>1. ready \in Seq(Fibers) /\ Range(ready) = Fibers /\ inbox = <<>>
  BY ConstantsAssumption, SeqsLemma DEF Init
<1>2. NetTypes
  <2>1. ready \in Seq(Fibers) /\ inbox \in Seq(Fibers)
    BY <1>1, EmptySeq
  <2>2. now \in 0..MaxTime /\ waits \in 0..MaxWaits /\ cancels \in 0..MaxCancels
    BY ConstantsAssumption DEF Init
  <2>3. sleepers \subseteq (0..MaxTime) \X Fibers /\ registered \subseteq Fibers /\ fd_ready \subseteq Fibers
    BY DEF Init
  <2>4. /\ io_waiters \in Int /\ current \in Fibers \union {None}
        /\ tpc \in [Threads -> {"run", "kick", "posted", "ended"}]
        /\ deadline \in [Fibers -> 0..MaxTime \union {None}]
    BY DEF Init
  <2>5. /\ state \in [Fibers -> {"RUNNING", "READY", "PARKED", "DONE"}]
        /\ wait \in [Fibers -> {"code", "io", "sleep", "park"}]
        /\ pending_wake \in [Fibers -> BOOLEAN] /\ cancel_flag \in [Fibers -> BOOLEAN]
        /\ unwinding \in [Fibers -> BOOLEAN] /\ parked \in [Fibers -> BOOLEAN]
        /\ io_armed \in [Fibers -> BOOLEAN] /\ io_signalled \in [Fibers -> BOOLEAN]
    BY DEF Init
  <2>6. in_poll = FALSE /\ kicked = FALSE /\ phase = "sched"
    BY DEF Init
  <2> QED BY <2>1, <2>2, <2>3, <2>4, <2>5, <2>6 DEF NetTypes
<1>3. QueueInv /\ PollInv /\ ArmInv
  BY <1>1 DEF Init, QueueInv, PollInv, KickNotLost, ArmInv, ArmedIsWaiting, Armed
<1>4. CountInv
  <2>1. Armed = {} /\ Cancelled = {} /\ Unwinding = {}
    BY DEF Init, Armed, Cancelled, Unwinding
  <2> QED BY <2>1, FS_EmptySet DEF Init, CountInv
<1>5. TimerInv /\ ReportIsDeadlock
  BY DEF Init, TimerInv, ReportIsDeadlock
<1> QED BY <1>2, <1>3, <1>4, <1>5 DEF NetInv

LEMMA NetInvStep == ASSUME NetInv, [Next]_vars PROVE NetInv'
<1>1. NetTypes /\ QueueInv /\ PollInv /\ ArmInv /\ CountInv /\ ReportIsDeadlock
  BY DEF NetInv
<1>2. cancels = 0 => TimerInv
  BY DEF NetInv
<1>3. NetTypes' /\ QueueInv' /\ PollInv'
  BY <1>1, TypesStep, QueueStep, PollStep
<1>4. ArmInv' /\ CountInv'
  BY <1>1, ArmStep, CountStep
<1>5. (cancels = 0 => TimerInv)'
  BY <1>1, <1>2, TimerStep
<1>6. ReportIsDeadlock'
  BY <1>1, ReportStep
<1> QED BY <1>3, <1>4, <1>5, <1>6 DEF NetInv

\* What the idle wait goes by, out of the invariant.
LEMMA AccountedLemma == NetInv => WaitsAccounted
<1> SUFFICES ASSUME NetInv PROVE WaitsAccounted
  OBVIOUS
<1>1. /\ IsFiniteSet(Fibers) /\ IsFiniteSet(Armed) /\ IsFiniteSet(Unwinding) /\ IsFiniteSet(Cancelled)
      /\ Cardinality(Fibers) \in Nat /\ Cardinality(Armed) \in Nat
      /\ Cardinality(Unwinding) \in Nat /\ Cardinality(Cancelled) \in Nat
      /\ Cardinality(Armed) <= Cardinality(Fibers)
  BY ConstantsAssumption, FS_Subset, FS_CardinalityType DEF Armed, Unwinding, Cancelled
<1>2. Cardinality(Unwinding) <= Cardinality(Cancelled)
  BY <1>1, FS_Subset DEF NetInv, CountInv
<1>3. io_waiters \in (-MaxCancels)..Cardinality(Fibers)
  BY <1>1, <1>2, ConstantsAssumption DEF NetInv, NetTypes, CountInv
<1>4. TypeOK
  BY <1>3 DEF NetInv, NetTypes, TypeOK
<1>5. CountedUntilCancel
  BY <1>1, <1>2 DEF NetInv, NetTypes, CountInv, CountedUntilCancel, IoWaitersCountArmed
<1>6. TimersUntilCancel
  <2> SUFFICES ASSUME cancels = 0, NEW e \in sleepers, e[1] > now PROVE Live(e)
    BY DEF TimersUntilCancel, TimerNamesWaiter, Live
  <2>1. Live(e) \/ e[1] <= now
    BY DEF NetInv, TimerInv
  <2>2. e[1] \in Int /\ now \in Int
    BY DEF NetInv, NetTypes
  <2> QED BY <2>1, <2>2
<1> QED BY <1>4, <1>5, <1>6 DEF NetInv, ArmInv, WaitsAccounted

LEMMA NetAlways == Spec => []NetInv
<1>1. Init => NetInv
  BY InitNet
<1>2. NetInv /\ [Next]_vars => NetInv'
  BY NetInvStep
<1> QED BY <1>1, <1>2, PTL DEF Spec

\* io_idle_wait decides by the count of io waiters and the timers: for any number
\* of fibers, threads, waits and cancels the kernel's registrations are those of
\* fibers in an io wait, and until the first cancel the count is exact and a
\* pending timer belongs to the wait its fiber is in (poller_arm, poller_disarm,
\* sleeper_remove).
THEOREM WaitsAccountedCorrect == Spec => []WaitsAccounted
<1>1. NetInv => WaitsAccounted
  BY AccountedLemma
<1> QED BY <1>1, NetAlways, PTL

\* inbox_post against io_idle_wait: no interleaving of the post, the read of
\* in_poll and the kick with the worker's second look at the inbox leaves the
\* worker in the poller beside a posted fiber with no kick to come.
THEOREM KickNotLostCorrect == Spec => []KickNotLost
<1>1. NetInv => KickNotLost
  BY DEF NetInv, PollInv
<1> QED BY <1>1, NetAlways, PTL

\* idle_wait's deadlock report: until the first cancel it is printed only when
\* no fiber is ready or running, none waits for a descriptor or a timer, and no
\* thread is left to wake one.
THEOREM ReportIsDeadlockCorrect == Spec => []ReportIsDeadlock
<1>1. NetInv => ReportIsDeadlock
  BY DEF NetInv
<1> QED BY <1>1, NetAlways, PTL

-----------------------------------------------------------------------------
(* SocketOpen, SocketBytes and SocketIo.                                   *)

\* What is asked of the constants: 0 stands for no descriptor, bytes and the
\* sizes given to reads are numbers, and so are the deadlines.
SocketsHold ==
    /\ 0 \notin FdNums
    /\ Heads \subseteq Seq(Nat) /\ Bodies \subseteq Seq(Nat)
    /\ Wanted \subseteq Nat /\ Chunk \in Nat /\ BufMax \in Nat
    /\ Kinds \subseteq {"stream", "datagram", "listener"} /\ Limits \subseteq Nat

\* The call under way holds one socket while it tries an address, and none
\* between two of them.
OpenInv ==
    /\ pc \in {"idle", "next", "try", "wait", "done", "unwound"}
    /\ pc \in {"idle", "next", "unwound"} => open = {}
    /\ pc \in {"try", "wait"} => fd \in FdNums /\ open = {fd}
    /\ pc = "done" => open = {opened.fd} \ {0} /\ (opened.fd # 0 => flags = "blocking")
    /\ pc # "done" => opened = NotOpened
    /\ pc \in {"idle", "done", "unwound"} => list = FALSE

LEMMA OpenStarts == ASSUME OpenInit PROVE OpenInv
BY DEF OpenInit, OpenInv, NotOpened

LEMMA OpenStep == ASSUME SocketsHold, OpenInv, [OpenNext]_openVars PROVE OpenInv'
<1> USE DEF OpenInv, NotOpened
<1>1. CASE Resolve
  BY <1>1 DEF Resolve
<1>2. CASE Exhausted
  BY <1>2 DEF Exhausted
<1>3. CASE OpenSocket
  <2>1. CASE \E n \in FdNums \ open : fd' = n /\ open' = open \cup {n} /\ pc' = "try"
    BY <1>3, <2>1 DEF OpenSocket
  <2>2. CASE pc' = "next" /\ UNCHANGED <<fd, open, flags>>
    BY <1>3, <2>2 DEF OpenSocket
  <2> QED BY <1>3, <2>1, <2>2 DEF OpenSocket
<1>4. ASSUME NEW e, pc \in {"try", "wait"}, NextAddress(e) PROVE OpenInv'
  BY <1>4 DEF NextAddress, Dropped
<1>5. ASSUME pc \in {"try", "wait"}, OpenFinish PROVE OpenInv'
  BY <1>5 DEF OpenFinish, GivenBack, SocketsHold
<1>6. CASE TryWaits
  BY <1>6 DEF TryWaits
<1>7. CASE OpenTick
  BY <1>7 DEF OpenTick
<1>8. CASE OpenCancelled
  BY <1>8 DEF OpenCancelled, Dropped
<1>9. CASE Unwound
  BY <1>9 DEF Unwound, CleanedUp
<1>10. CASE Reopen
  BY <1>10 DEF Reopen
<1>11. CASE UNCHANGED openVars
  BY <1>11 DEF openVars
<1>12. CASE TryWorks \/ WaitWorks
  BY <1>5, <1>12 DEF TryWorks, WaitWorks
<1> HIDE DEF OpenInv
<1>13. CASE TryFails \/ WaitFails \/ OpenTimesOut
  BY <1>4, <1>13 DEF TryFails, WaitFails, OpenTimesOut
<1> QED BY <1>1, <1>2, <1>3, <1>6, <1>7, <1>8, <1>9, <1>10, <1>11, <1>12, <1>13 DEF OpenNext

LEMMA OpenInvClean == ASSUME OpenInv PROVE OpeningClean
<1>1. LeavesNothing
  BY DEF OpenInv, NotOpened, LeavesNothing
<1>2. OneAtATime
  <2>1. open = {} \/ \E n : open = {n}
    BY DEF OpenInv
  <2>2. CASE open = {}
    BY <2>2, FS_EmptySet DEF OneAtATime
  <2>3. ASSUME NEW n, open = {n} PROVE OneAtATime
    BY <2>3, FS_Singleton DEF OneAtATime
  <2> QED BY <2>1, <2>2, <2>3
<1>3. ComesBackBlocking
  BY DEF OpenInv, ComesBackBlocking
<1> QED BY <1>1, <1>2, <1>3 DEF OpeningClean

-----------------------------------------------------------------------------
CallSteps == {"idle", "early", "call", "kernel", "blocked", "wait"}
CallNames == {"none", "raw", "cached", "first", "try", "accept"}

IoTypeOK ==
    /\ kind \in {"stream", "datagram", "listener"} /\ polls \in BOOLEAN
    /\ where \in {"fiber", "thread"} /\ limit \in Nat
    /\ nb \in BOOLEAN /\ user \in BOOLEAN /\ prepared \in BOOLEAN /\ readable \in BOOLEAN
    /\ op \in [name : CallNames, pc : CallSteps, left : Nat, spent : Nat]
    /\ result \in {"none", "ok", "timeout", "wouldblock"}

\* What the program asked for and what a stream remembers of the mode are
\* true of the descriptor, whoever used it before.
ModeInv ==
    /\ user => nb
    /\ prepared /\ polls => nb
    /\ Stands("idle") => op.name = "none"
    /\ ~Stands("idle") => op.name \in OpsOf
    /\ Fiber /\ polls /\ ~Stands("idle") => nb
    /\ op.name = "raw" /\ kind = "stream" /\ ~Fiber /\ ~user => ~nb
    /\ op.name = "try" => user /\ op.pc \in {"call", "blocked"}
    /\ Stands("kernel") => ~nb

\* A descriptor that blocks says would-block only at its deadline, and an
\* accept counts down from one deadline.
TimeInv ==
    /\ Stands("blocked") /\ ~nb => limit > 0 /\ op.left = 0
    /\ kind # "datagram" /\ ~Fiber /\ ~user => result # "wouldblock"
    /\ op.name = "accept" /\ Fiber /\ polls /\ limit > 0 => op.spent + op.left = limit

IoInv == IoTypeOK /\ ModeInv /\ TimeInv

LEMMA IoStarts == ASSUME SocketsHold, IoInit PROVE IoInv
<1>1. IoTypeOK
  BY DEF IoInit, IoTypeOK, SocketsHold, NoCall, CallSteps, CallNames
<1>2. ModeInv /\ TimeInv
  BY DEF IoInit, ModeInv, TimeInv, NoCall, Stands
<1> QED BY <1>1, <1>2 DEF IoInv

LEMMA IoInvRight == ASSUME IoInv PROVE ModesRight
<1>1. FiberNeverBlocks
  BY DEF IoInv, ModeInv, FiberNeverBlocks, Stands
<1>2. StreamNeverSaysWouldBlock
  BY DEF IoInv, TimeInv, StreamNeverSaysWouldBlock
<1>3. TryIsImmediate
  BY DEF IoInv, ModeInv, TryIsImmediate
<1>4. FiberAcceptInTime
  <2>1. op.spent \in Nat /\ op.left \in Nat
    BY DEF IoInv, IoTypeOK
  <2> QED BY <2>1 DEF IoInv, TimeInv, FiberAcceptInTime
<1> QED BY <1>1, <1>2, <1>3, <1>4 DEF ModesRight

\* A call that begins.
LEMMA BeginKeeps ==
  ASSUME IoInv, NEW name \in OpsOf, Stands("idle"), Begin(name), result' = "none",
         UNCHANGED <<kind, polls, where, user, limit, readable>>,
         nb' \in BOOLEAN, prepared' \in BOOLEAN, user => nb', prepared' /\ polls => nb',
         Fiber /\ polls => nb', name = "try" => user,
         name = "raw" /\ kind = "stream" /\ ~Fiber /\ ~user => ~nb'
  PROVE  IoInv'
<1> DEFINE early == IF name \in {"first", "accept"} THEN "early" ELSE "call"
<1>0. IoTypeOK /\ ModeInv /\ TimeInv
  BY DEF IoInv
<1>1. name \in CallNames \ {"none"}
  BY <1>0 DEF IoTypeOK, OpsOf, CallNames
<1>2. early \in {"early", "call"} /\ (name = "try" => early = "call")
  OBVIOUS
<1>3. op' = [name |-> name, pc |-> early, left |-> limit, spent |-> 0]
  BY DEF Begin
<1> HIDE DEF early
<1>4. op'.name = name /\ op'.pc = early /\ op'.left = limit /\ op'.spent = 0
  BY <1>3
<1>5. IoTypeOK'
  <2>1. op' \in [name : CallNames, pc : CallSteps, left : Nat, spent : Nat]
    BY <1>0, <1>1, <1>2, <1>3 DEF IoTypeOK, CallSteps
  <2> QED BY <1>0, <2>1 DEF IoTypeOK
<1>6. ModeInv'
  BY <1>0, <1>1, <1>2, <1>4 DEF ModeInv, Stands, Fiber, OpsOf
<1>7. TimeInv'
  BY <1>0, <1>1, <1>2, <1>4 DEF IoTypeOK, TimeInv, Stands, Fiber
<1> QED BY <1>5, <1>6, <1>7 DEF IoInv

\* A call that goes on to another step of its own.
LEMMA OnwardKeeps ==
  ASSUME IoInv, ~Stands("idle"), NEW to \in CallSteps \ {"idle"}, NEW l \in Nat, NEW s \in Nat,
         op' = [name |-> op.name, pc |-> to, left |-> l, spent |-> s],
         UNCHANGED <<kind, polls, where, nb, user, prepared, limit, readable, result>>,
         op.name = "try" => to \in {"call", "blocked"}, to = "kernel" => ~nb,
         to = "blocked" /\ ~nb => limit > 0 /\ l = 0,
         op.name = "accept" /\ Fiber /\ polls /\ limit > 0 => s + l = limit
  PROVE  IoInv'
<1>0. IoTypeOK /\ ModeInv /\ TimeInv
  BY DEF IoInv
<1>1. op.name \in CallNames /\ op.name \in OpsOf
  BY <1>0 DEF IoTypeOK, ModeInv
<1>2. op'.name = op.name /\ op'.pc = to /\ op'.left = l /\ op'.spent = s
  OBVIOUS
<1>3. IoTypeOK'
  BY <1>0, <1>1 DEF IoTypeOK
<1>4. ModeInv'
  BY <1>0, <1>1, <1>2 DEF ModeInv, Stands, Fiber, OpsOf
<1>5. TimeInv'
  BY <1>0, <1>2 DEF TimeInv, Stands, Fiber
<1> QED BY <1>3, <1>4, <1>5 DEF IoInv

\* A call that answers.
LEMMA AnswerKeeps ==
  ASSUME IoInv, NEW r \in {"ok", "timeout", "wouldblock"}, Answer(r), readable' \in BOOLEAN,
         UNCHANGED <<kind, polls, where, nb, user, prepared, limit>>,
         kind # "datagram" /\ ~Fiber /\ ~user => r # "wouldblock"
  PROVE  IoInv'
<1>0. IoTypeOK /\ ModeInv /\ TimeInv
  BY DEF IoInv
<1>1. op' = NoCall /\ result' = r
  BY DEF Answer
<1>2. IoTypeOK'
  BY <1>0, <1>1 DEF IoTypeOK, NoCall, CallNames, CallSteps
<1>3. ModeInv'
  BY <1>0, <1>1 DEF ModeInv, Stands, Fiber, NoCall
<1>4. TimeInv'
  BY <1>0, <1>1 DEF TimeInv, Stands, Fiber, NoCall
<1> QED BY <1>2, <1>3, <1>4 DEF IoInv

LEMMA OpFields ==
  ASSUME IoInv
  PROVE  /\ op = [name |-> op.name, pc |-> op.pc, left |-> op.left, spent |-> op.spent]
         /\ op.name \in CallNames /\ op.pc \in CallSteps /\ op.left \in Nat /\ op.spent \in Nat
BY DEF IoInv, IoTypeOK

LEMMA UseKeeps ==
  ASSUME SocketsHold, IoInv,
         HandOver \/ (\E on \in BOOLEAN : SetNonblocking(on)) \/ Arrive \/ Steal \/ UNCHANGED sockVars
  PROVE  IoInv'
<1>0. IoTypeOK /\ ModeInv /\ TimeInv
  BY DEF IoInv
<1>1. CASE HandOver
  <2>1. /\ Stands("idle") /\ where' \in {"fiber", "thread"} /\ result' = "none"
        /\ UNCHANGED <<kind, polls, nb, user, prepared, limit, readable, op>>
    BY <1>1 DEF HandOver
  <2>2. op.name = "none" /\ op.pc = "idle"
    BY <1>0, <2>1 DEF ModeInv, Stands
  <2>3. IoTypeOK' /\ ModeInv' /\ TimeInv'
    BY <1>0, <2>1, <2>2 DEF IoTypeOK, ModeInv, TimeInv, Stands, Fiber, OpsOf
  <2> QED BY <2>3 DEF IoInv
<1>2. ASSUME NEW on \in BOOLEAN, SetNonblocking(on) PROVE IoInv'
  <2>1. /\ Stands("idle") /\ nb' = on /\ user' = on /\ prepared' = FALSE /\ result' = "none"
        /\ UNCHANGED <<kind, polls, where, limit, readable, op>>
    BY <1>2 DEF SetNonblocking, Forgets
  <2>2. op.name = "none" /\ op.pc = "idle"
    BY <1>0, <2>1 DEF ModeInv, Stands
  <2>3. IoTypeOK' /\ ModeInv' /\ TimeInv'
    BY <1>0, <2>1, <2>2 DEF IoTypeOK, ModeInv, TimeInv, Stands, Fiber, OpsOf
  <2> QED BY <2>3 DEF IoInv
<1>3. CASE Arrive \/ Steal \/ UNCHANGED sockVars
  <2>1. /\ readable' \in BOOLEAN
        /\ UNCHANGED <<kind, polls, where, nb, user, prepared, limit, op, result>>
    BY <1>0, <1>3 DEF Arrive, Steal, sockVars, IoTypeOK
  <2>2. IoTypeOK' /\ ModeInv' /\ TimeInv'
    BY <1>0, <2>1 DEF IoTypeOK, ModeInv, TimeInv, Stands, Fiber, OpsOf
  <2> QED BY <2>2 DEF IoInv
<1> QED BY <1>1, <1>2, <1>3

LEMMA StartsKeep ==
  ASSUME SocketsHold, IoInv,
         StartRaw \/ (\E n \in {"cached", "first"} : StartCached(n)) \/ StartTry \/ StartAccept
  PROVE  IoInv'
<1>0. IoTypeOK /\ ModeInv
  BY DEF IoInv
<1>1. CASE StartRaw
  <2>1. nb' \in BOOLEAN /\ prepared' \in BOOLEAN
    BY <1>0, <1>1 DEF StartRaw, IoTypeOK
  <2>2. (user => nb') /\ (prepared' /\ polls => nb') /\ (Fiber /\ polls => nb')
    BY <1>0, <1>1 DEF StartRaw, ModeInv, Prepares, Normalises
  <2>3. kind = "stream" /\ ~Fiber /\ ~user => ~nb'
    BY <1>1 DEF StartRaw, Prepares, Normalises
  <2> QED BY <1>1, <2>1, <2>2, <2>3, BeginKeeps DEF StartRaw
<1>2. ASSUME NEW n \in {"cached", "first"}, StartCached(n) PROVE IoInv'
  <2>1. nb' \in BOOLEAN /\ prepared' \in BOOLEAN
    BY <1>0, <1>2 DEF StartCached, IoTypeOK, Fiber
  <2>2. (user => nb') /\ (prepared' /\ polls => nb') /\ (Fiber /\ polls => nb')
    BY <1>0, <1>2 DEF StartCached, ModeInv, Prepares
  <2>3. n \in OpsOf
    BY <1>2 DEF StartCached
  <2> QED BY <1>2, <2>1, <2>2, <2>3, BeginKeeps DEF StartCached
<1>3. CASE StartTry
  <2>1. /\ "try" \in OpsOf /\ Stands("idle") /\ user /\ Begin("try") /\ result' = "none"
        /\ UNCHANGED <<kind, polls, where, nb, user, prepared, limit, readable>>
    BY <1>3 DEF StartTry
  <2>2. nb /\ nb' \in BOOLEAN /\ prepared' \in BOOLEAN
    BY <1>0, <2>1 DEF ModeInv, IoTypeOK
  <2> QED BY <2>1, <2>2, BeginKeeps
<1>4. CASE StartAccept
  <2>1. /\ "accept" \in OpsOf /\ Stands("idle") /\ Begin("accept") /\ result' = "none"
        /\ nb' = (nb \/ Prepares)
        /\ UNCHANGED <<kind, polls, where, user, prepared, limit, readable>>
    BY <1>4 DEF StartAccept
  <2>2. nb' \in BOOLEAN /\ prepared' \in BOOLEAN
    BY <1>0, <2>1 DEF IoTypeOK
  <2>3. (user => nb') /\ (prepared' /\ polls => nb') /\ (Fiber /\ polls => nb')
    BY <1>0, <2>1 DEF ModeInv, Prepares
  <2> QED BY <2>1, <2>2, <2>3, BeginKeeps
<1> QED BY <1>1, <1>2, <1>3, <1>4

LEMMA CallsKeep ==
  ASSUME SocketsHold, IoInv,
         Early \/ Syscall \/ KernelTakes \/ KernelExpires \/ Blocked \/ WaitReady \/ CallTimesOut \/ IoTick
  PROVE  IoInv'
<1>0. IoTypeOK /\ ModeInv /\ TimeInv
  BY DEF IoInv
<1>f. /\ op = [name |-> op.name, pc |-> op.pc, left |-> op.left, spent |-> op.spent]
      /\ op.name \in CallNames /\ op.pc \in CallSteps /\ op.left \in Nat /\ op.spent \in Nat
  BY OpFields
<1>1. CASE Early
  <2> DEFINE to == IF op.name = "accept" \/ Fiber THEN "wait" ELSE "call"
  <2>1. op' = [op EXCEPT !.pc = to] /\ Stands("early")
        /\ UNCHANGED <<kind, polls, where, nb, user, prepared, limit, readable, result>>
    BY <1>1 DEF Early
  <2>2. op' = [name |-> op.name, pc |-> to, left |-> op.left, spent |-> op.spent]
    BY <1>f, <2>1
  <2>3. to \in {"wait", "call"} /\ to \in CallSteps \ {"idle"}
    BY DEF CallSteps
  <2>4. ~Stands("idle") /\ op.name # "try"
    BY <1>0, <2>1 DEF Stands, ModeInv
  <2>5. op.name = "accept" /\ Fiber /\ polls /\ limit > 0 => op.spent + op.left = limit
    BY <1>0 DEF TimeInv
  <2> HIDE DEF to
  <2> QED BY <1>f, <2>1, <2>2, <2>3, <2>4, <2>5, OnwardKeeps
<1>2. CASE Syscall
  <2>1. Stands("call") /\ ~Stands("idle")
        /\ UNCHANGED <<kind, polls, where, nb, user, prepared, limit>>
    BY <1>2 DEF Syscall, Stands
  <2>2. CASE readable
    <3>1. Answer("ok") /\ readable' \in BOOLEAN
      BY <1>2, <2>2 DEF Syscall
    <3> QED BY <2>1, <3>1, AnswerKeeps
  <2>3. CASE ~readable
    <3> DEFINE to == IF nb THEN "blocked" ELSE "kernel"
    <3>1. op' = [op EXCEPT !.pc = to] /\ UNCHANGED <<readable, result>>
      BY <1>2, <2>3 DEF Syscall
    <3>2. op' = [name |-> op.name, pc |-> to, left |-> op.left, spent |-> op.spent]
      BY <1>f, <3>1
    <3>3. to \in CallSteps \ {"idle"} /\ (to = "kernel" => ~nb) /\ (to = "blocked" => nb)
      BY DEF CallSteps
    <3>4. op.name = "try" => to \in {"call", "blocked"}
      BY <1>0 DEF ModeInv
    <3>5. op.name = "accept" /\ Fiber /\ polls /\ limit > 0 => op.spent + op.left = limit
      BY <1>0 DEF TimeInv
    <3> HIDE DEF to
    <3> QED BY <1>f, <2>1, <3>1, <3>2, <3>3, <3>4, <3>5, OnwardKeeps
  <2> QED BY <2>2, <2>3
<1>3. CASE KernelTakes
  <2>1. Answer("ok") /\ readable' \in BOOLEAN /\ UNCHANGED <<kind, polls, where, nb, user, prepared, limit>>
    BY <1>3 DEF KernelTakes
  <2> QED BY <2>1, AnswerKeeps
<1>4. CASE KernelExpires
  <2>1. /\ Stands("kernel") /\ limit > 0 /\ op.left = 0 /\ op' = [op EXCEPT !.pc = "blocked"]
        /\ UNCHANGED <<kind, polls, where, nb, user, prepared, limit, readable, result>>
    BY <1>4 DEF KernelExpires
  <2>2. op' = [name |-> op.name, pc |-> "blocked", left |-> op.left, spent |-> op.spent]
    BY <1>f, <2>1
  <2>3. ~Stands("idle") /\ "blocked" \in CallSteps \ {"idle"}
    BY <2>1 DEF Stands, CallSteps
  <2>4. op.name = "accept" /\ Fiber /\ polls /\ limit > 0 => op.spent + op.left = limit
    BY <1>0 DEF TimeInv
  <2> QED BY <1>f, <2>1, <2>2, <2>3, <2>4, OnwardKeeps
<1>5. CASE Blocked
  <2>1. /\ Stands("blocked") /\ ~Stands("idle")
        /\ UNCHANGED <<kind, polls, where, nb, user, prepared, limit, readable>>
    BY <1>5 DEF Blocked, Stands
  <2>2. CASE WaitsAfter
    <3>1. op' = [op EXCEPT !.pc = "wait", !.left = Budget] /\ result' = result
      BY <1>5, <2>2 DEF Blocked
    <3>2. op' = [name |-> op.name, pc |-> "wait", left |-> Budget, spent |-> op.spent]
      BY <1>f, <3>1
    <3>3. Budget \in Nat /\ (op.name = "accept" => Budget = op.left)
      BY <1>0, <1>f DEF Budget, IoTypeOK
    <3>4. "wait" \in CallSteps \ {"idle"} /\ op.name # "try"
      BY <2>2 DEF CallSteps, WaitsAfter
    <3>5. op.name = "accept" /\ Fiber /\ polls /\ limit > 0 => op.spent + Budget = limit
      BY <1>0, <3>3 DEF TimeInv
    <3> QED BY <1>f, <2>1, <3>1, <3>2, <3>3, <3>4, <3>5, OnwardKeeps
  <2>3. CASE ~WaitsAfter
    <3> DEFINE r == IF limit > 0 /\ op.left = 0 THEN "timeout" ELSE "wouldblock"
    <3>1. Answer(r) /\ r \in {"ok", "timeout", "wouldblock"}
      BY <1>5, <2>3 DEF Blocked
    <3>2. kind # "datagram" /\ ~Fiber /\ ~user => r # "wouldblock"
      <4>1. SUFFICES ASSUME kind # "datagram", ~Fiber, ~user, nb PROVE FALSE
        BY <1>0, <2>1 DEF TimeInv
      <4>2. op.name \in OpsOf /\ op.name # "try" /\ op.name # "accept"
        BY <1>0, <2>1, <2>3, <4>1 DEF ModeInv, WaitsAfter
      <4>3. op.name \notin {"cached", "first"}
        BY <2>3, <4>1, <4>2 DEF WaitsAfter, WaitsOnThread
      <4>4. op.name = "raw" /\ kind = "stream"
        BY <1>0, <4>1, <4>2, <4>3 DEF OpsOf, IoTypeOK
      <4> QED BY <1>0, <4>1, <4>4 DEF ModeInv
    <3>3. readable' \in BOOLEAN
      BY <1>0, <2>1 DEF IoTypeOK
    <3> HIDE DEF r
    <3> QED BY <2>1, <3>1, <3>2, <3>3, AnswerKeeps
  <2> QED BY <2>2, <2>3
<1>6. CASE WaitReady
  <2>1. /\ Stands("wait") /\ op' = [op EXCEPT !.pc = "call"]
        /\ UNCHANGED <<kind, polls, where, nb, user, prepared, limit, readable, result>>
    BY <1>6 DEF WaitReady
  <2>2. op' = [name |-> op.name, pc |-> "call", left |-> op.left, spent |-> op.spent]
    BY <1>f, <2>1
  <2>3. ~Stands("idle") /\ "call" \in CallSteps \ {"idle"}
    BY <2>1 DEF Stands, CallSteps
  <2>4. op.name = "accept" /\ Fiber /\ polls /\ limit > 0 => op.spent + op.left = limit
    BY <1>0 DEF TimeInv
  <2> QED BY <1>f, <2>1, <2>2, <2>3, <2>4, OnwardKeeps
<1>7. CASE CallTimesOut
  <2>1. Answer("timeout") /\ UNCHANGED <<kind, polls, where, nb, user, prepared, limit, readable>>
    BY <1>7 DEF CallTimesOut
  <2>2. readable' \in BOOLEAN
    BY <1>0, <2>1 DEF IoTypeOK
  <2> QED BY <2>1, <2>2, AnswerKeeps
<1>8. CASE IoTick
  <2> DEFINE l == IF op.left > 0 THEN op.left - 1 ELSE 0
             s == op.spent + 1
  <2>1. /\ op.pc \in {"wait", "kernel"} /\ limit > 0 /\ (op.pc = "wait" => op.left > 0)
        /\ op' = [op EXCEPT !.left = l, !.spent = s]
        /\ UNCHANGED <<kind, polls, where, nb, user, prepared, limit, readable, result>>
    BY <1>8 DEF IoTick
  <2>2. op' = [name |-> op.name, pc |-> op.pc, left |-> l, spent |-> s]
    BY <1>f, <2>1
  <2>3. l \in Nat /\ s \in Nat /\ (op.left > 0 => s + l = op.spent + op.left)
    BY <1>f
  <2>4. ~Stands("idle") /\ op.pc \in CallSteps \ {"idle"} /\ op.pc # "blocked" /\ op.name # "try"
    BY <1>0, <1>f, <2>1 DEF Stands, ModeInv
  <2>5. op.name = "accept" /\ Fiber /\ polls /\ limit > 0 => s + l = limit
    <3>1. SUFFICES ASSUME op.name = "accept", Fiber, polls PROVE s + l = limit
      OBVIOUS
    <3>2. nb
      BY <1>0, <2>4, <3>1 DEF ModeInv
    <3>3. op.pc = "wait"
      BY <1>0, <2>1, <3>2 DEF ModeInv, Stands
    <3>4. op.spent + op.left = limit
      BY <1>0, <2>1, <3>1 DEF TimeInv
    <3> QED BY <2>1, <2>3, <3>3, <3>4
  <2>6. op.pc = "kernel" => ~nb
    BY <1>0 DEF ModeInv, Stands
  <2> HIDE DEF l, s
  <2> QED BY <2>1, <2>2, <2>3, <2>4, <2>5, <2>6, OnwardKeeps
<1> QED BY <1>1, <1>2, <1>3, <1>4, <1>5, <1>6, <1>7, <1>8

LEMMA IoStep == ASSUME SocketsHold, IoInv, [IoNext]_sockVars PROVE IoInv'
BY UseKeeps, StartsKeep, CallsKeep DEF IoNext
-----------------------------------------------------------------------------
\* Where the stream stands: what was read, what a read holds and what the
\* kernel holds are the beginning of what was given, up to the offset into the
\* response under way.
BytesTypeOK ==
    /\ head \in Seq(Nat) /\ body \in Seq(Nat) /\ given \in Seq(Nat)
    /\ offset \in Nat /\ offset <= Total /\ (eof => offset = Total)
    /\ inflight \in Seq(Nat) /\ taken \in Seq(Nat)
    /\ request \in [mode : {"none", "some", "exact", "end"}, limit : Nat, got : Seq(Nat)]

FlowInv ==
    /\ \E p \in Seq(Nat) : given = p \o (head \o body)
    /\ taken \o request.got \o inflight = SubSeq(given, 1, (Len(given) - Total) + offset)
    /\ Len(request.got) <= request.limit
    /\ ReadsAreExact

BytesInv == BytesTypeOK /\ FlowInv

\* What concatenation and SubSeq hold, place by place.
LEMMA ConcatAt ==
  ASSUME NEW s \in Seq(Nat), NEW t \in Seq(Nat)
  PROVE  /\ s \o t \in Seq(Nat) /\ Len(s \o t) = Len(s) + Len(t) /\ Len(s) \in Nat /\ Len(t) \in Nat
         /\ \A i \in 1..Len(s) : (s \o t)[i] = s[i]
         /\ \A i \in 1..Len(t) : (s \o t)[Len(s) + i] = t[i]
<1>1. Len(s) \in Nat /\ Len(t) \in Nat
  BY LenProperties
<1>2. /\ s \o t \in Seq(Nat) /\ Len(s \o t) = Len(s) + Len(t)
      /\ \A i \in 1 .. Len(s) + Len(t) : (s \o t)[i] = IF i <= Len(s) THEN s[i] ELSE t[i - Len(s)]
  BY ConcatProperties
<1>3. ASSUME NEW i \in 1..Len(s) PROVE (s \o t)[i] = s[i]
  BY <1>1, <1>2
<1>4. ASSUME NEW i \in 1..Len(t) PROVE (s \o t)[Len(s) + i] = t[i]
  <2> DEFINE j == Len(s) + i
  <2>1. j \in 1 .. Len(s) + Len(t) /\ ~(j <= Len(s)) /\ j - Len(s) = i
    BY <1>1
  <2> HIDE DEF j
  <2>2. (s \o t)[j] = t[j - Len(s)]
    BY <1>2, <2>1
  <2> QED BY <2>1, <2>2 DEF j
<1> QED BY <1>1, <1>2, <1>3, <1>4

LEMMA SubSeqAt ==
  ASSUME NEW s \in Seq(Nat), NEW m \in Nat, NEW n \in Nat, m + n <= Len(s)
  PROVE  /\ SubSeq(s, m + 1, m + n) \in Seq(Nat) /\ Len(SubSeq(s, m + 1, m + n)) = n
         /\ \A i \in 1..n : SubSeq(s, m + 1, m + n)[i] = s[m + i]
<1>1. Len(s) \in Nat
  BY LenProperties
<1>2. ASSUME NEW a \in 1..Len(s) + 1, NEW b \in a - 1..Len(s), a = m + 1, b = m + n
      PROVE  /\ SubSeq(s, a, b) \in Seq(Nat) /\ Len(SubSeq(s, a, b)) = n
             /\ \A i \in 1..n : SubSeq(s, a, b)[i] = s[m + i]
  <2>1. /\ SubSeq(s, a, b) \in Seq(Nat)
        /\ Len(SubSeq(s, a, b)) = IF a <= b THEN b - a + 1 ELSE 0
        /\ \A i \in 1 .. b - a + 1 : SubSeq(s, a, b)[i] = s[a + i - 1]
    <3>1. a \in Int /\ b \in Int /\ \A i \in a..b : s[i] \in Nat
      BY <1>1
    <3> QED BY <3>1, SubSeqProperties
  <2>2. Len(SubSeq(s, a, b)) = n /\ b - a + 1 = n
    BY <1>2, <2>1
  <2>3. ASSUME NEW i \in 1..n PROVE SubSeq(s, a, b)[i] = s[m + i]
    <3>1. a + i - 1 = m + i
      BY <1>2
    <3> QED BY <2>1, <2>2, <3>1
  <2> QED BY <2>1, <2>2, <2>3
<1>3. m + 1 \in 1..Len(s) + 1 /\ m + n \in (m + 1) - 1..Len(s)
  BY <1>1
<1> QED BY <1>2, <1>3

\* What one buffer of a call carries is the beginning of what is left of it.
LEMMA PieceFacts ==
  ASSUME NEW s \in Seq(Nat), BufMax \in Nat
  PROVE  /\ Piece(s) \in Seq(Nat) /\ Len(Piece(s)) <= Len(s)
         /\ \A i \in 1..Len(Piece(s)) : Piece(s)[i] = s[i]
<1> DEFINE m == IF Len(s) < BufMax THEN Len(s) ELSE BufMax
<1>1. Len(s) \in Nat
  BY LenProperties
<1>2. m \in Nat /\ m <= Len(s)
  BY <1>1
<1>3. Piece(s) = SubSeq(s, 1, m)
  BY DEF Piece
<1> HIDE DEF m
<1>4. /\ SubSeq(s, 1, m) \in Seq(Nat) /\ Len(SubSeq(s, 1, m)) = m
      /\ \A i \in 1..m : SubSeq(s, 1, m)[i] = s[i]
  BY <1>1, <1>2
<1> QED BY <1>2, <1>3, <1>4

\* What a send offers is the response from the offset on, as far as the two
\* buffers reach.
LEMMA PartFacts ==
  ASSUME head \in Seq(Nat), body \in Seq(Nat), offset \in Nat, offset < Total, BufMax \in Nat
  PROVE  /\ Piece(First) \o Second \in Seq(Nat)
         /\ Len(Piece(First) \o Second) <= Total - offset
         /\ \A i \in 1..Len(Piece(First) \o Second) :
               (Piece(First) \o Second)[i] = (head \o body)[offset + i]
<1>1. Len(head) \in Nat /\ Len(body) \in Nat /\ Total = Len(head) + Len(body)
  BY LenProperties DEF Total
<1>c. /\ \A i \in 1..Len(head) : (head \o body)[i] = head[i]
      /\ \A i \in 1..Len(body) : (head \o body)[Len(head) + i] = body[i]
  BY ConcatAt
<1>2. CASE offset < Len(head)
  <2>1. /\ First \in Seq(Nat) /\ Len(First) = Len(head) - offset
        /\ \A i \in 1..Len(First) : First[i] = head[offset + i]
    <3>1. First = SubSeq(head, offset + 1, Len(head))
      BY <1>2 DEF First
    <3> QED BY <1>1, <1>2, <3>1
  <2>2. /\ Piece(First) \in Seq(Nat) /\ Len(Piece(First)) <= Len(First)
        /\ \A i \in 1..Len(Piece(First)) : Piece(First)[i] = First[i]
    BY <2>1, PieceFacts
  <2>3. /\ Piece(body) \in Seq(Nat) /\ Len(Piece(body)) <= Len(body)
        /\ \A i \in 1..Len(Piece(body)) : Piece(body)[i] = body[i]
    BY PieceFacts
  <2> DEFINE f == Piece(First)
             b == Piece(body)
  <2>4. CASE Len(Piece(First)) = Len(First)
    <3>1. Second = b
      BY <1>2, <2>4 DEF Second
    <3>2. f \in Seq(Nat) /\ b \in Seq(Nat) /\ Len(f) = Len(head) - offset /\ Len(b) <= Len(body)
      BY <2>1, <2>2, <2>3, <2>4
    <3>3. \A i \in 1..Len(f) : f[i] = head[offset + i]
      BY <2>1, <2>2, <2>4
    <3>4. \A i \in 1..Len(b) : b[i] = body[i]
      BY <2>3
    <3> HIDE DEF f, b
    <3>a. /\ Len(f \o b) = Len(f) + Len(b) /\ Len(f) \in Nat /\ Len(b) \in Nat /\ f \o b \in Seq(Nat)
          /\ \A i \in 1..Len(f) : (f \o b)[i] = f[i]
          /\ \A i \in 1..Len(b) : (f \o b)[Len(f) + i] = b[i]
      BY <3>2, ConcatAt
    <3>5. ASSUME NEW i \in 1..Len(f \o b) PROVE (f \o b)[i] = (head \o body)[offset + i]
      <4>2. CASE i <= Len(f)
        <5>1. i \in 1..Len(f) /\ offset + i \in 1..Len(head)
          BY <1>1, <3>2, <3>a, <4>2
        <5> QED BY <1>c, <3>3, <3>a, <5>1
      <4>3. CASE i > Len(f)
        <5> DEFINE j == i - Len(f)
        <5>1. /\ j \in 1..Len(b) /\ j \in 1..Len(body) /\ i = Len(f) + j
              /\ offset + i = Len(head) + j
          BY <1>1, <3>2, <3>a, <4>3
        <5> HIDE DEF j
        <5>2. (f \o b)[Len(f) + j] = b[j]
          BY <3>a, <5>1
        <5>3. (head \o body)[Len(head) + j] = body[j]
          BY <1>c, <5>1
        <5> QED BY <3>4, <5>1, <5>2, <5>3
      <4>4. i \in Nat
        BY <3>a
      <4>5. i <= Len(f) \/ i > Len(f)
        BY <3>a, <4>4
      <4> QED BY <4>2, <4>3, <4>5
    <3>6. f \o b \in Seq(Nat) /\ Len(f \o b) <= Total - offset
      BY <1>1, <3>2, <3>a
    <3>7. Piece(First) \o Second = f \o b
      BY <3>1 DEF f
    <3> QED BY <3>5, <3>6, <3>7
  <2>5. CASE Len(Piece(First)) # Len(First)
    <3>1. Second = <<>>
      BY <2>5 DEF Second
    <3>2. Piece(First) \o Second = f
      BY <2>2, <3>1
    <3>3. \A i \in 1..Len(f) : f[i] = head[offset + i]
      <4>1. ASSUME NEW i \in 1..Len(f) PROVE f[i] = head[offset + i]
        <5>1. i \in 1..Len(First) /\ f[i] = First[i]
          BY <2>1, <2>2
        <5> QED BY <2>1, <5>1
      <4> QED BY <4>1
    <3>4. f \in Seq(Nat) /\ Len(f) <= Len(head) - offset
      BY <2>1, <2>2
    <3> HIDE DEF f
    <3>5. ASSUME NEW i \in 1..Len(f) PROVE f[i] = (head \o body)[offset + i]
      <4>0. Len(f) \in Nat
        BY <3>4, LenProperties
      <4>1. offset + i \in 1..Len(head)
        BY <1>1, <3>4, <4>0
      <4>2. (head \o body)[offset + i] = head[offset + i]
        BY <1>c, <4>1
      <4> QED BY <3>3, <4>2
    <3> QED BY <1>1, <3>2, <3>4, <3>5
  <2> QED BY <2>4, <2>5
<1>3. CASE ~(offset < Len(head))
  <2>1. Second = <<>> /\ First = SubSeq(body, (offset - Len(head)) + 1, Len(body))
    BY <1>3 DEF First, Second
  <2>2. /\ First \in Seq(Nat) /\ Len(First) = Total - offset
        /\ \A i \in 1..Len(First) : First[i] = body[(offset - Len(head)) + i]
    BY <1>1, <1>3, <2>1
  <2>3. /\ Piece(First) \in Seq(Nat) /\ Len(Piece(First)) <= Len(First)
        /\ \A i \in 1..Len(Piece(First)) : Piece(First)[i] = First[i]
    BY <2>2, PieceFacts
  <2> DEFINE f == Piece(First)
  <2>4. Piece(First) \o Second = f
    BY <2>1, <2>3
  <2>5. f \in Seq(Nat) /\ Len(f) <= Total - offset
    BY <2>2, <2>3
  <2>6. \A i \in 1..Len(f) : f[i] = body[(offset - Len(head)) + i]
    BY <2>2, <2>3
  <2> HIDE DEF f
  <2>7. ASSUME NEW i \in 1..Len(f) PROVE f[i] = (head \o body)[offset + i]
    <3> DEFINE j == (offset - Len(head)) + i
    <3>0. Len(f) \in Nat
      BY <2>5, LenProperties
    <3>1. j \in 1..Len(body) /\ offset + i = Len(head) + j
      BY <1>1, <1>3, <2>5, <3>0
    <3> HIDE DEF j
    <3>2. (head \o body)[Len(head) + j] = body[j]
      BY <1>c, <3>1
    <3>3. f[i] = body[j]
      BY <2>6 DEF j
    <3> QED BY <3>1, <3>2, <3>3
  <2> QED BY <2>4, <2>5, <2>7
<1> QED BY <1>2, <1>3

\* Any part of it follows in what was given on what already went out.
LEMMA SentFollows ==
  ASSUME BytesTypeOK, NEW p \in Seq(Nat), given = p \o (head \o body), offset < Total, BufMax \in Nat,
         NEW n \in 1..Len(Piece(First) \o Second)
  PROVE  /\ SubSeq(Piece(First) \o Second, 1, n) \in Seq(Nat) /\ offset + n <= Total
         /\ SubSeq(given, 1, (Len(given) - Total) + offset) \o SubSeq(Piece(First) \o Second, 1, n)
               = SubSeq(given, 1, (Len(given) - Total) + (offset + n))
<1> DEFINE z == Piece(First) \o Second
           w == SubSeq(z, 1, n)
           r == head \o body
           m == (Len(given) - Total) + offset
<1>1. /\ z \in Seq(Nat) /\ Len(z) <= Total - offset /\ \A i \in 1..Len(z) : z[i] = r[offset + i]
  BY PartFacts DEF BytesTypeOK
<1>2. r \in Seq(Nat) /\ Len(r) = Total /\ Total \in Nat /\ offset \in Nat
  BY DEF BytesTypeOK, Total
<1>3. given \in Seq(Nat) /\ given = p \o r /\ n \in 1..Len(z)
  BY DEF BytesTypeOK
<1> HIDE DEF z, r
<1>4. /\ w \in Seq(Nat) /\ Len(w) = n /\ \A i \in 1..n : w[i] = z[i]
  BY <1>1, <1>3
<1>5. /\ Len(given) = Len(p) + Total /\ Len(p) \in Nat
      /\ \A i \in 1..Len(r) : given[Len(p) + i] = r[i]
  <2>1. r \in Seq(Nat) /\ p \in Seq(Nat)
    BY <1>2
  <2>2. /\ Len(p \o r) = Len(p) + Len(r) /\ Len(p) \in Nat
        /\ \A i \in 1..Len(r) : (p \o r)[Len(p) + i] = r[i]
    BY <2>1, ConcatAt
  <2> QED BY <1>2, <1>3, <2>2
<1>6. m = Len(p) + offset /\ m + n <= Len(given) /\ m \in Nat /\ n \in Nat /\ offset + n <= Total
  BY <1>1, <1>2, <1>3, <1>5
<1> HIDE DEF w, m
<1>7. ASSUME NEW i \in 1..n PROVE given[m + i] = w[i]
  <2> DEFINE j == offset + i
  <2>1. j \in 1..Len(r) /\ m + i = Len(p) + j
    <3>1. /\ Len(r) = Total /\ m = Len(p) + offset /\ Len(p) \in Nat /\ Total \in Nat
          /\ offset \in Nat /\ n \in Nat /\ offset + n <= Total
      BY <1>2, <1>5, <1>6
    <3> QED BY <3>1
  <2> HIDE DEF j
  <2>2. given[m + i] = r[j]
    BY <1>5, <2>1
  <2>3. i \in 1..Len(z)
    BY <1>3
  <2> QED BY <1>1, <1>4, <2>1, <2>2, <2>3 DEF j
<1>8. SubSeq(given, m + 1, m + n) = w
  <2> DEFINE v == SubSeq(given, m + 1, m + n)
  <2>1. /\ v \in Seq(Nat) /\ Len(v) = n /\ \A i \in 1..n : v[i] = given[m + i]
    BY <1>3, <1>6, SubSeqAt
  <2> HIDE DEF v
  <2>2. v = w
    BY <1>4, <1>7, <2>1, SeqEqual
  <2> QED BY <2>2 DEF v
<1>9. SubSeq(given, 1, m) \o SubSeq(given, m + 1, m + n) = SubSeq(given, 1, m + n)
  <2>1. 1 \in 1..Len(given) + 1 /\ m \in 1 - 1..Len(given) /\ m + n \in m..Len(given)
    BY <1>5, <1>6
  <2> QED BY <1>3, <2>1, ConcatAdjacentSubSeq
<1>10. m + n = (Len(given) - Total) + (offset + n)
  BY <1>2, <1>5, <1>6 DEF m
<1> QED BY <1>4, <1>6, <1>8, <1>9, <1>10 DEF w, z, m

LEMMA Associates ==
  ASSUME NEW t \in Seq(Nat), NEW g \in Seq(Nat), NEW a \in Seq(Nat)
  PROVE  (t \o g) \o a = t \o (g \o a)
OBVIOUS

LEMMA Splits ==
  ASSUME NEW s \in Seq(Nat), NEW n \in 1..Len(s)
  PROVE  /\ SubSeq(s, 1, n) \in Seq(Nat) /\ Len(SubSeq(s, 1, n)) = n
         /\ SubSeq(s, n + 1, Len(s)) \in Seq(Nat)
         /\ SubSeq(s, 1, n) \o SubSeq(s, n + 1, Len(s)) = s
OBVIOUS

LEMMA BytesStart == ASSUME SocketsHold, BytesInit PROVE BytesInv
<1>1. head \in Seq(Nat) /\ body \in Seq(Nat) /\ head \o body \in Seq(Nat)
  BY DEF BytesInit, SocketsHold
<1>2. /\ offset = 0 /\ given = head \o body /\ eof = FALSE /\ taken = <<>> /\ inflight = <<>>
      /\ request = NoRead /\ answers = NoAnswer
  BY DEF BytesInit
<1>3. Total \in Nat /\ Len(given) = Total
  BY <1>1, <1>2 DEF Total
<1>4. BytesTypeOK
  BY <1>1, <1>2, <1>3 DEF BytesTypeOK, NoRead
<1>5. <<>> \in Seq(Nat) /\ given = <<>> \o (head \o body)
  BY <1>1, <1>2
<1>6. taken \o request.got \o inflight = SubSeq(given, 1, (Len(given) - Total) + offset)
  <2>1. taken \o request.got \o inflight = <<>>
    BY <1>2 DEF NoRead
  <2>2. SubSeq(given, 1, 0) = <<>>
    BY <1>1, <1>2
  <2>3. (Len(given) - Total) + offset = 0
    BY <1>2, <1>3
  <2> QED BY <2>1, <2>2, <2>3
<1>7. Len(request.got) <= request.limit /\ ReadsAreExact
  BY <1>2 DEF NoRead, NoAnswer, ReadsAreExact
<1> QED BY <1>4, <1>5, <1>6, <1>7 DEF BytesInv, FlowInv

LEMMA WriterKeeps ==
  ASSUME SocketsHold, BytesInv, SendPart \/ NextResponse \/ ShutdownWrite
  PROVE  BytesInv'
<1>0. BytesTypeOK /\ FlowInv
  BY DEF BytesInv
<1>g. /\ request \in [mode : {"none", "some", "exact", "end"}, limit : Nat, got : Seq(Nat)]
      /\ request.got \in Seq(Nat) /\ taken \in Seq(Nat) /\ inflight \in Seq(Nat)
      /\ given \in Seq(Nat) /\ head \in Seq(Nat) /\ body \in Seq(Nat) /\ offset \in Nat
      /\ taken \o request.got \in Seq(Nat) /\ offset <= Total
      /\ Len(head) \in Nat /\ Len(body) \in Nat /\ Total \in Nat
  BY <1>0 DEF BytesTypeOK, Total
<1>p. PICK p \in Seq(Nat) : given = p \o (head \o body)
  BY <1>0 DEF FlowInv
<1>1. CASE SendPart
  <2> DEFINE z == Piece(First) \o Second
  <2>1. /\ offset < Total /\ ~eof
        /\ UNCHANGED <<head, body, given, eof, request, taken, answers>>
    BY <1>1 DEF SendPart
  <2>2. PICK n \in 1..Len(z) : inflight' = inflight \o SubSeq(z, 1, n) /\ offset' = offset + n
    BY <1>1 DEF SendPart
  <2> DEFINE w == SubSeq(z, 1, n)
             m == (Len(given) - Total) + (offset + n)
  <2>3. /\ w \in Seq(Nat) /\ offset + n <= Total /\ n \in Nat
        /\ SubSeq(given, 1, (Len(given) - Total) + offset) \o w = SubSeq(given, 1, m)
    <3>1. BufMax \in Nat
      BY DEF SocketsHold
    <3>2. n \in Nat
      <4>1. z \in Seq(Nat)
        BY <1>g, <2>1, <3>1, PartFacts
      <4> HIDE DEF z
      <4> QED BY <4>1, <2>2
    <3> QED BY <1>0, <1>p, <2>1, <2>2, <3>1, <3>2, SentFollows
  <2>4. inflight' = inflight \o w
    BY <2>2
  <2> HIDE DEF w, z
  <2>5. Total' = Total /\ (Len(given) - Total + offset)' = m
    BY <2>1, <2>2 DEF Total
  <2>6. inflight \o w \in Seq(Nat)
    BY <1>g, <2>3
  <2>7. BytesTypeOK'
    <3>1. offset' \in Nat /\ offset' <= Total'
      <4>1. offset' = offset + n /\ Total' = Total
        BY <2>2, <2>5
      <4> QED BY <1>g, <2>3, <4>1
    <3>2. ~eof' /\ inflight' \in Seq(Nat)
      BY <2>1, <2>4, <2>6
    <3>3. /\ head' \in Seq(Nat) /\ body' \in Seq(Nat) /\ given' \in Seq(Nat) /\ taken' \in Seq(Nat)
          /\ request' \in [mode : {"none", "some", "exact", "end"}, limit : Nat, got : Seq(Nat)]
      BY <1>g, <2>1
    <3> QED BY <3>1, <3>2, <3>3 DEF BytesTypeOK
  <2>8. taken \o request.got \o (inflight \o w) = (taken \o request.got \o inflight) \o w
    <3> DEFINE y == taken \o request.got
    <3>1. y \in Seq(Nat) /\ inflight \in Seq(Nat) /\ w \in Seq(Nat)
      BY <1>g, <2>3
    <3> HIDE DEF y
    <3>2. (y \o inflight) \o w = y \o (inflight \o w)
      BY <3>1, Associates
    <3> QED BY <3>2 DEF y
  <2>9. taken \o request.got \o (inflight \o w) = SubSeq(given, 1, m)
    BY <1>0, <2>3, <2>8 DEF FlowInv
  <2>10. (taken \o request.got \o inflight = SubSeq(given, 1, (Len(given) - Total) + offset))'
    BY <2>1, <2>4, <2>5, <2>9
  <2>11. (Len(request.got) <= request.limit /\ ReadsAreExact)'
    BY <1>0, <2>1 DEF FlowInv, ReadsAreExact
  <2>12. (\E q \in Seq(Nat) : given = q \o (head \o body))'
    BY <1>p, <2>1
  <2> QED BY <2>7, <2>10, <2>11, <2>12 DEF BytesInv, FlowInv
<1>2. CASE NextResponse
  <2>1. /\ offset = Total /\ ~eof /\ head' \in Seq(Nat) /\ body' \in Seq(Nat) /\ offset' = 0
        /\ UNCHANGED <<inflight, eof, request, taken, answers>>
    BY <1>2 DEF NextResponse, SocketsHold
  <2>2. given' = (given \o head') \o body'
    BY <1>2 DEF NextResponse
  <2> DEFINE h == head'
             b == body'
             s == given
  <2>3. h \in Seq(Nat) /\ b \in Seq(Nat) /\ s \in Seq(Nat)
    BY <1>g, <2>1
  <2>4. given' = s \o (h \o b)
    <3>1. given' = (s \o h) \o b
      BY <2>2
    <3> HIDE DEF s, h, b
    <3> QED BY <2>3, <3>1
  <2>5. Total' = Len(h) + Len(b)
    BY DEF Total
  <2>6. (Len(given) - Total) + offset = Len(s)
    BY <1>g, <2>1, <2>3
  <2> HIDE DEF s, h, b
  <2>7. /\ h \o b \in Seq(Nat) /\ s \o (h \o b) \in Seq(Nat) /\ Len(h) + Len(b) \in Nat
        /\ Len(s \o (h \o b)) - (Len(h) + Len(b)) + 0 = Len(s)
    BY <2>3
  <2>8. SubSeq(s \o (h \o b), 1, Len(s)) = s /\ SubSeq(s, 1, Len(s)) = s
    <3> DEFINE y == h \o b
    <3>1. y \in Seq(Nat)
      BY <2>7
    <3> HIDE DEF y
    <3>2. SubSeq(s \o y, 1, Len(s)) = s
      <4> DEFINE v == SubSeq(s \o y, 1, Len(s))
      <4>1. v \in Seq(Nat) /\ Len(v) = Len(s) /\ \A i \in 1..Len(s) : v[i] = s[i]
        BY <2>3, <3>1
      <4> HIDE DEF v
      <4>2. v = s
        BY <2>3, <4>1, SeqEqual
      <4> QED BY <4>2 DEF v
    <3> QED BY <2>3, <3>2, SubSeqFull DEF y
  <2>9. (Len(given) - Total + offset)' = Len(s)
    BY <2>1, <2>4, <2>5, <2>7
  <2>10. BytesTypeOK'
    BY <1>g, <2>1, <2>4, <2>5, <2>7 DEF BytesTypeOK, h, b
  <2>11. taken \o request.got \o inflight = s
    <3>1. taken \o request.got \o inflight = SubSeq(given, 1, (Len(given) - Total) + offset)
      BY <1>0 DEF FlowInv
    <3>2. taken \o request.got \o inflight = SubSeq(s, 1, Len(s))
      BY <2>6, <3>1 DEF s
    <3> QED BY <2>8, <3>2
  <2>12. (taken \o request.got \o inflight = SubSeq(given, 1, (Len(given) - Total) + offset))'
    BY <2>1, <2>4, <2>8, <2>9, <2>11
  <2>13. (Len(request.got) <= request.limit /\ ReadsAreExact)'
    BY <1>0, <2>1 DEF FlowInv, ReadsAreExact
  <2>14. (\E q \in Seq(Nat) : given = q \o (head \o body))'
    BY <2>3, <2>4 DEF h, b
  <2> QED BY <2>10, <2>12, <2>13, <2>14 DEF BytesInv, FlowInv
<1>3. CASE ShutdownWrite
  <2>1. /\ eof' = TRUE /\ offset = Total
        /\ UNCHANGED <<head, body, offset, inflight, given, request, taken, answers>>
    BY <1>3 DEF ShutdownWrite
  <2>2. BytesTypeOK'
    BY <1>0, <2>1 DEF BytesTypeOK, Total
  <2>3. FlowInv'
    BY <1>0, <2>1 DEF FlowInv, Total, ReadsAreExact
  <2> QED BY <2>2, <2>3 DEF BytesInv
<1> QED BY <1>1, <1>2, <1>3

LEMMA ReaderKeeps ==
  ASSUME SocketsHold, BytesInv,
         \/ \E mode \in {"some", "exact", "end"}, n \in Wanted : StartRead(mode, n)
         \/ Recv \/ ReturnRead \/ ReturnEof
  PROVE  BytesInv'
<1>0. BytesTypeOK /\ FlowInv
  BY DEF BytesInv
<1>g. /\ request \in [mode : {"none", "some", "exact", "end"}, limit : Nat, got : Seq(Nat)]
      /\ request.got \in Seq(Nat) /\ taken \in Seq(Nat) /\ inflight \in Seq(Nat)
      /\ request.limit \in Nat /\ Len(request.got) \in Nat /\ given \in Seq(Nat)
      /\ taken \o request.got \in Seq(Nat)
  BY <1>0 DEF BytesTypeOK
<1>f. /\ taken \o request.got \o inflight = SubSeq(given, 1, (Len(given) - Total) + offset)
      /\ Len(request.got) <= request.limit /\ ReadsAreExact
      /\ \E q \in Seq(Nat) : given = q \o (head \o body)
  BY <1>0 DEF FlowInv
<1>w. ASSUME UNCHANGED <<head, body, offset, given, eof>>, inflight' \in Seq(Nat), taken' \in Seq(Nat),
             request' \in [mode : {"none", "some", "exact", "end"}, limit : Nat, got : Seq(Nat)],
             taken' \o request'.got \o inflight' = taken \o request.got \o inflight,
             Len(request'.got) <= request'.limit, ReadsAreExact'
      PROVE  BytesInv'
  <2>1. BytesTypeOK'
    BY <1>0, <1>w DEF BytesTypeOK, Total
  <2>2. (taken \o request.got \o inflight = SubSeq(given, 1, (Len(given) - Total) + offset))'
    BY <1>f, <1>w DEF Total
  <2>3. FlowInv'
    BY <1>f, <1>w, <2>2 DEF FlowInv
  <2> QED BY <2>1, <2>3 DEF BytesInv
<1>1. ASSUME NEW mode \in {"some", "exact", "end"}, NEW n \in Wanted, StartRead(mode, n) PROVE BytesInv'
  <2>1. /\ request = NoRead /\ request' = [mode |-> mode, limit |-> n, got |-> <<>>]
        /\ answers' = NoAnswer /\ UNCHANGED <<head, body, offset, inflight, given, eof, taken>>
    BY <1>1 DEF StartRead
  <2>2. n \in Nat /\ <<>> \in Seq(Nat)
    BY DEF SocketsHold
  <2>3. request.got = <<>> /\ request'.got = <<>> /\ request'.limit = n
    BY <2>1 DEF NoRead
  <2>4. ReadsAreExact'
    BY <2>1 DEF ReadsAreExact, NoAnswer
  <2> QED BY <1>g, <1>w, <2>1, <2>2, <2>3, <2>4
<1>2. CASE Recv
  <2>1. request # NoRead /\ (request.got = <<>> \/ More) /\ UNCHANGED <<head, body, offset, given, eof, taken, answers>>
    BY <1>2 DEF Recv
  <2>2. PICK n \in 1..Len(inflight) :
          /\ n <= Asks /\ request' = [request EXCEPT !.got = request.got \o SubSeq(inflight, 1, n)]
          /\ inflight' = SubSeq(inflight, n + 1, Len(inflight))
    BY <1>2 DEF Recv
  <2> DEFINE g == request.got
             a == SubSeq(inflight, 1, n)
             b == SubSeq(inflight, n + 1, Len(inflight))
  <2>3. a \in Seq(Nat) /\ Len(a) = n /\ b \in Seq(Nat) /\ a \o b = inflight
    BY <1>g, <2>2, Splits
  <2>4. inflight' = b /\ request' = [request EXCEPT !.got = g \o a] /\ g \in Seq(Nat)
    BY <1>g, <2>2
  <2>5. n \in Nat
    BY <1>g, <2>2
  <2>6. Len(g) + n <= request.limit
    <3>1. CASE request.mode = "some"
      <4>1. Len(g) = 0 /\ Asks = request.limit
        BY <1>g, <2>1, <3>1 DEF More, Asks
      <4> QED BY <1>g, <2>2, <2>5, <4>1
    <3>2. CASE request.mode # "some"
      <4>1. Asks \in Int /\ Asks <= request.limit - Len(g)
        BY <1>g, <3>2 DEF Asks, Room, SocketsHold
      <4> QED BY <1>g, <2>2, <2>5, <4>1
    <3> QED BY <3>1, <3>2
  <2> HIDE DEF g, a, b
  <2>7. g \o a \in Seq(Nat) /\ Len(g \o a) = Len(g) + n
    BY <2>3, <2>4
  <2>8. /\ request' \in [mode : {"none", "some", "exact", "end"}, limit : Nat, got : Seq(Nat)]
        /\ request'.got = g \o a /\ request'.limit = request.limit
    BY <1>g, <2>4, <2>7
  <2>9. (taken \o (g \o a)) \o b = (taken \o g) \o inflight
    <3>1. taken \in Seq(Nat) /\ g \in Seq(Nat) /\ a \in Seq(Nat) /\ b \in Seq(Nat)
      BY <1>g, <2>3, <2>4
    <3> DEFINE y == taken \o g
    <3>2. y \o a = taken \o (g \o a)
      BY <3>1, Associates
    <3>3. y \in Seq(Nat)
      BY <3>1, ConcatAt
    <3> HIDE DEF y
    <3>4. (y \o a) \o b = y \o (a \o b)
      BY <3>1, <3>3, Associates
    <3> QED BY <2>3, <3>2, <3>4 DEF y
  <2>10. taken' \o request'.got \o inflight' = taken \o request.got \o inflight
    BY <2>1, <2>4, <2>8, <2>9 DEF g
  <2>11. ReadsAreExact'
    BY <1>f, <2>1 DEF ReadsAreExact
  <2>12. inflight' \in Seq(Nat) /\ taken' \in Seq(Nat)
    BY <1>g, <2>1, <2>3, <2>4
  <2>13. Len(request'.got) <= request'.limit
    BY <2>6, <2>7, <2>8
  <2> QED BY <1>w, <2>1, <2>8, <2>10, <2>11, <2>12, <2>13
<1>e. NoRead \in [mode : {"none", "some", "exact", "end"}, limit : Nat, got : Seq(Nat)]
      /\ NoRead.got = <<>> /\ NoRead.limit = 0
  BY DEF NoRead
<1>s. ASSUME NEW t \in Seq(Nat) PROVE t \o <<>> = t /\ Len(<<>>) = 0
  OBVIOUS
<1>3. CASE ReturnRead
  <2>1. /\ taken' = taken \o request.got /\ request' = NoRead /\ ~More
        /\ answers' = [mode |-> request.mode, limit |-> request.limit, n |-> Len(request.got), err |-> FALSE]
        /\ UNCHANGED <<head, body, offset, inflight, given, eof>>
    BY <1>3 DEF ReturnRead
  <2>2. taken' \o request'.got \o inflight' = taken \o request.got \o inflight
    <3>1. taken' \o <<>> = taken \o request.got
      BY <1>g, <1>s, <2>1
    <3> QED BY <1>e, <2>1, <3>1
  <2>3. ReadsAreExact'
    <3>1. request.mode = "exact" => Len(request.got) = request.limit
      BY <1>f, <1>g, <2>1 DEF More
    <3> QED BY <1>f, <2>1, <3>1 DEF ReadsAreExact
  <2>4. inflight' \in Seq(Nat) /\ taken' \in Seq(Nat)
    BY <1>g, <2>1
  <2>5. Len(request'.got) <= request'.limit
    BY <1>e, <2>1
  <2> QED BY <1>w, <1>e, <2>1, <2>2, <2>3, <2>4, <2>5
<1>4. CASE ReturnEof
  <2>1. /\ eof /\ inflight = <<>> /\ request' = NoRead
        /\ answers' = [mode |-> request.mode, limit |-> request.limit, n |-> Len(request.got), err |-> ShortIsError]
        /\ taken' = (IF ShortIsError THEN given ELSE taken \o request.got)
        /\ UNCHANGED <<head, body, offset, inflight, given, eof>>
    BY <1>4 DEF ReturnEof
  <2>2. taken \o request.got = given
    <3>1. offset = Total /\ Total \in Nat /\ Len(given) \in Nat
      BY <1>0, <2>1 DEF BytesTypeOK, Total
    <3>2. (Len(given) - Total) + offset = Len(given)
      BY <3>1
    <3>3. SubSeq(given, 1, Len(given)) = given
      BY <1>g, SubSeqFull
    <3>4. taken \o request.got \o <<>> = taken \o request.got
      BY <1>g, <1>s
    <3> QED BY <1>f, <2>1, <3>2, <3>3, <3>4
  <2>3. taken' = taken \o request.got
    BY <2>1, <2>2
  <2>4. taken' \o request'.got \o inflight' = taken \o request.got \o inflight
    <3>1. taken' \o <<>> = taken \o request.got
      BY <1>g, <1>s, <2>3
    <3> QED BY <1>e, <2>1, <3>1
  <2>5. ReadsAreExact'
    BY <1>f, <2>1 DEF ReadsAreExact, ShortIsError
  <2>6. inflight' \in Seq(Nat) /\ taken' \in Seq(Nat)
    BY <1>g, <2>1, <2>3
  <2>7. Len(request'.got) <= request'.limit
    BY <1>e, <2>1
  <2> QED BY <1>w, <1>e, <2>1, <2>4, <2>5, <2>6, <2>7
<1> QED BY <1>1, <1>2, <1>3, <1>4

LEMMA BytesStep == ASSUME SocketsHold, BytesInv, [BytesNext]_bytesVars PROVE BytesInv'
<1>1. CASE UNCHANGED bytesVars
  <2>1. BytesTypeOK'
    BY <1>1 DEF bytesVars, BytesInv, BytesTypeOK, Total
  <2>2. FlowInv'
    BY <1>1 DEF bytesVars, BytesInv, FlowInv, Total, ReadsAreExact
  <2> QED BY <2>1, <2>2 DEF BytesInv
<1>2. CASE BytesNext
  BY <1>2, WriterKeeps, ReaderKeeps DEF BytesNext
<1> QED BY <1>1, <1>2

LEMMA BytesInvExact == ASSUME BytesInv PROVE TransferExact
BY DEF BytesInv, FlowInv, TransferExact, StreamIntact

\* Opening a socket leaves nothing behind and hands out a blocking one; what
\* is read is what was written, in order, however the kernel cuts it; and a
\* socket's mode, whoever used it before, is the one its caller counts on:
\* beans_net_connect and beans_net_listen, the sends and reads of
\* beans_rt_net.c, and the preparation of a socket for each call.
THEOREM SocketsFaithfulCorrect ==
  ASSUME SocketsHold
  PROVE  OpenSpec /\ BytesSpec /\ IoSpec => []SocketsFaithful
<1>1. OpenInit => OpenInv
  BY OpenStarts
<1>2. OpenInv /\ [OpenNext]_openVars => OpenInv'
  BY OpenStep
<1>3. BytesInit => BytesInv
  BY BytesStart
<1>4. BytesInv /\ [BytesNext]_bytesVars => BytesInv'
  BY BytesStep
<1>5. IoInit => IoInv
  BY IoStarts
<1>6. IoInv /\ [IoNext]_sockVars => IoInv'
  BY IoStep
<1>7. OpenInv /\ BytesInv /\ IoInv => SocketsFaithful
  BY OpenInvClean, BytesInvExact, IoInvRight DEF SocketsFaithful
<1> QED BY <1>1, <1>2, <1>3, <1>4, <1>5, <1>6, <1>7, PTL DEF OpenSpec, BytesSpec, IoSpec
=============================================================================
