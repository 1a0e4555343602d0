-------------------------- MODULE FiberCore_proofs --------------------------
(***************************************************************************)
(* Proofs about FiberCore: its safety invariants hold for every set of     *)
(* fibers, every set of foreign threads and all bounds.                    *)
(***************************************************************************)
EXTENDS FiberCore, QueueLemmas

-----------------------------------------------------------------------------
(* The inductive invariant of the scheduler: which fiber runs and which is *)
(* settling, and where the READY fibers are.                               *)

\* The worker thread runs one fiber or settles one; no other is RUNNING or PARKING.
WorkerInv ==
    /\ phase \in {"fiber", "exited"} =>
         current \in Fibers /\ state[current] = "RUNNING" /\ settling = None
    /\ phase \in {"settle", "publish"} =>
         settling \in Fibers /\ state[settling] = "PARKING" /\ current = None
    /\ phase \in {"drain", "pop"} => current = None /\ settling = None
    /\ \A f \in Fibers : state[f] = "RUNNING" => current = f
    /\ \A f \in Fibers : state[f] = "PARKING" => settling = f
    /\ phase = "settle" => disposition \in {"PARK", "YIELD", "FINISH"}
    /\ phase = "publish" => disposition = "PARK"

\* A thread inside a resume has a fiber to resume.
ThreadInv == \A t \in Threads : rpc[t] # "idle" => rtarget[t] \in Fibers

\* Only ended records are pooled.
PoolEnded == \A f \in pool : state[f] = "DONE"

CoreInv == /\ TypeOK
           /\ WorkerInv
           /\ ThreadInv
           /\ PoolEnded
           /\ LinkedOnce
           /\ ReadyIsQueued

\* Bootstrap establishes it.
LEMMA InitCore == Init => CoreInv
<1> SUFFICES ASSUME Init PROVE CoreInv
  OBVIOUS
<1>1. TypeOK
  BY ConstantsAssumption DEF Init, TypeOK, States, Endings, Phases, ResumePC
<1>2. WorkerInv /\ ThreadInv /\ PoolEnded
  BY ConstantsAssumption DEF Init, WorkerInv, ThreadInv, PoolEnded
<1>3. Posting = {}
  BY DEF Init, Posting
<1>4. IsInjective(<<>>) /\ Range(<<>>) = {}
  BY ShortLemma
<1>5. LinkedOnce /\ ReadyIsQueued
  BY <1>3, <1>4 DEF Init, LinkedOnce, ReadyIsQueued
<1> QED BY <1>1, <1>2, <1>5 DEF CoreInv

\* What a resume on the worker's own thread pushes: the fiber, if it is parked.
LEMMA UnparkedLemma ==
    ASSUME TypeOK, NEW f \in Fibers \union {None}
    PROVE  /\ Unparked(f) \in Seq(Fibers)
           /\ IsInjective(Unparked(f))
           /\ Range(Unparked(f)) \subseteq Fibers
           /\ \A g \in Fibers : g \in Range(Unparked(f)) <=> (g = f /\ state[g] = "PARKED")
<1>1. CASE f # None /\ state[f] = "PARKED"
  BY <1>1, ShortLemma, ConstantsAssumption DEF Unparked
<1>2. CASE ~(f # None /\ state[f] = "PARKED")
  BY <1>2, ShortLemma, ConstantsAssumption DEF Unparked
<1> QED BY <1>1, <1>2

\* The worker appends fibers that become READY and were not: the queues stay right.
LEMMA QueueAppend ==
    ASSUME TypeOK, LinkedOnce, ReadyIsQueued,
           NEW s \in Seq(Fibers), IsInjective(s),
           \A f \in Range(s) : state[f] # "READY",
           ready' = ready \o s,
           UNCHANGED <<inbox, rpc, rtarget>>,
           \A f \in Fibers : state'[f] = "READY" <=> (state[f] = "READY" \/ f \in Range(s))
    PROVE  LinkedOnce' /\ ReadyIsQueued' /\ ready' \in Seq(Fibers)
<1>1. ready \in Seq(Fibers) /\ inbox \in Seq(Fibers)
  BY DEF TypeOK
<1>2. Range(ready) \subseteq Fibers /\ Range(inbox) \subseteq Fibers /\ Range(s) \subseteq Fibers
  BY <1>1, RangeOfSeq
<1>3. /\ \A f \in Range(s) : f \notin Range(ready) \union Range(inbox)
      /\ \A f \in Range(s) : \A t \in Posting : rtarget[t] # f
  BY <1>2 DEF ReadyIsQueued
<1>4. /\ ready' \in Seq(Fibers)
      /\ IsInjective(ready')
      /\ Range(ready') = Range(ready) \union Range(s)
  BY <1>1, <1>3, SpliceLemma DEF LinkedOnce
<1>5. Posting' = Posting
  BY DEF Posting
<1>6. LinkedOnce'
  BY <1>3, <1>4, <1>5 DEF LinkedOnce
<1>7. ReadyIsQueued'
  BY <1>4, <1>5 DEF ReadyIsQueued
<1> QED BY <1>4, <1>6, <1>7

\* A step that makes nothing READY and touches no queue.
LEMMA QueueFrame ==
    ASSUME LinkedOnce, ReadyIsQueued,
           UNCHANGED <<ready, inbox, rpc, rtarget>>,
           \A f \in Fibers : state'[f] = "READY" <=> state[f] = "READY"
    PROVE  LinkedOnce' /\ ReadyIsQueued'
BY DEF LinkedOnce, ReadyIsQueued, Posting

\* A push of one fiber.
LEMMA QueuePush ==
    ASSUME TypeOK, LinkedOnce, ReadyIsQueued,
           NEW x \in Fibers, state[x] # "READY",
           ready' = Append(ready, x),
           UNCHANGED <<inbox, rpc, rtarget>>,
           state' = [state EXCEPT ![x] = "READY"]
    PROVE  LinkedOnce' /\ ReadyIsQueued' /\ ready' \in Seq(Fibers)
<1>1. <<x>> \in Seq(Fibers) /\ IsInjective(<<x>>) /\ Range(<<x>>) = {x}
  BY ShortLemma
<1>2. ready' = ready \o <<x>>
  BY AppendIsConcat DEF TypeOK
<1>3. \A f \in Fibers : state'[f] = "READY" <=> (state[f] = "READY" \/ f \in Range(<<x>>))
  BY <1>1 DEF TypeOK
<1> QED BY <1>1, <1>2, <1>3, QueueAppend

-----------------------------------------------------------------------------
(* CoreInv is preserved by what a running fiber does.                      *)

\* A step of the running fiber that changes no state, queue or pool.
LEMMA QuietStep ==
    ASSUME CoreInv, TypeOK',
           UNCHANGED <<state, ready, inbox, rpc, rtarget, current, settling,
                       disposition, pool>>,
           phase = "fiber", phase' \in {"fiber", "exited"}
    PROVE  CoreInv'
<1>1. LinkedOnce' /\ ReadyIsQueued'
  BY QueueFrame DEF CoreInv
<1>2. WorkerInv' /\ ThreadInv' /\ PoolEnded'
  BY DEF CoreInv, WorkerInv, ThreadInv, PoolEnded
<1> QED BY <1>1, <1>2 DEF CoreInv

\* fiber_to_scheduler keeps it: the fiber that leaves is on no queue.
LEMMA SwitchStep ==
    ASSUME CoreInv, TypeOK', NEW f \in Fibers, NEW d \in {"PARK", "YIELD", "FINISH"},
           phase = "fiber", current = f, SwitchAway(f, d),
           UNCHANGED <<ready, inbox, rpc, rtarget, pool>>
    PROVE  CoreInv'
<1>1. state[f] = "RUNNING" /\ \A g \in Fibers : state'[g] = IF g = f THEN "PARKING" ELSE state[g]
  BY DEF CoreInv, TypeOK, WorkerInv, SwitchAway
<1>2. LinkedOnce' /\ ReadyIsQueued'
  <2>1. \A g \in Fibers : state'[g] = "READY" <=> state[g] = "READY"
    BY <1>1
  <2> QED BY <2>1, QueueFrame DEF CoreInv
<1>3. WorkerInv'
  BY <1>1, ConstantsAssumption DEF CoreInv, WorkerInv, SwitchAway, TypeOK
<1>4. ThreadInv' /\ PoolEnded'
  BY <1>1 DEF CoreInv, TypeOK, ThreadInv, PoolEnded
<1> QED BY <1>2, <1>3, <1>4 DEF CoreInv

\* A resume on the worker's own thread keeps it.
LEMMA ResumeHereStep ==
    ASSUME CoreInv, TypeOK', NEW g \in Fibers, ResumeHere(g),
           UNCHANGED <<inbox, rpc, rtarget, current, settling, disposition, pool, phase>>
    PROVE  CoreInv'
<1>1. \A h \in Fibers : state'[h] = IF h = g /\ state[h] = "PARKED" THEN "READY" ELSE state[h]
  BY DEF CoreInv, TypeOK, ResumeHere
<1>2. LinkedOnce' /\ ReadyIsQueued'
  <2>1. /\ Unparked(g) \in Seq(Fibers) /\ IsInjective(Unparked(g))
        /\ Range(Unparked(g)) \subseteq Fibers
        /\ \A h \in Fibers : h \in Range(Unparked(g)) <=> (h = g /\ state[h] = "PARKED")
    BY UnparkedLemma DEF CoreInv
  <2>2. \A h \in Range(Unparked(g)) : state[h] # "READY"
    BY <2>1
  <2>3. \A h \in Fibers :
           state'[h] = "READY" <=> (state[h] = "READY" \/ h \in Range(Unparked(g)))
    BY <1>1, <2>1
  <2>4. ready' = ready \o Unparked(g)
    BY DEF ResumeHere
  <2> QED BY <2>1, <2>2, <2>3, <2>4, QueueAppend DEF CoreInv
<1>3. WorkerInv'
  BY <1>1, ConstantsAssumption DEF CoreInv, WorkerInv, TypeOK
<1>4. ThreadInv' /\ PoolEnded'
  BY <1>1 DEF CoreInv, TypeOK, ThreadInv, PoolEnded
<1> QED BY <1>2, <1>3, <1>4 DEF CoreInv

\* Whatever ResumeHere pushes is typed.
LEMMA ResumeHereType ==
    ASSUME TypeOK, NEW g \in Fibers, ResumeHere(g)
    PROVE  /\ state' \in [Fibers -> States]
           /\ ready' \in Seq(Fibers)
           /\ pending_wake' \in [Fibers -> BOOLEAN]
<1>1. Unparked(g) \in Seq(Fibers)
  BY UnparkedLemma
<1>2. ready \in Seq(Fibers) /\ ready' = ready \o Unparked(g)
  BY DEF TypeOK, ResumeHere
<1>3. ready' \in Seq(Fibers)
  BY <1>1, <1>2, ConcatProperties
<1>4. state' \in [Fibers -> States] /\ pending_wake' \in [Fibers -> BOOLEAN]
  BY DEF TypeOK, ResumeHere, States
<1> QED BY <1>3, <1>4

\* Spawn takes a record that has ended, so it is on no queue yet.
LEMMA SpawnStep ==
    ASSUME CoreInv, NEW f \in Fibers, NEW c \in Fibers, NEW forget \in BOOLEAN,
           Spawn(f, c, forget)
    PROVE  CoreInv'
<1>1. /\ state[c] = "DONE" /\ phase = "fiber" /\ current # c
      /\ \A g \in Fibers : state'[g] = IF g = c THEN "READY" ELSE state[g]
      /\ ready' = Append(ready, c)
      /\ UNCHANGED <<inbox, current, settling, disposition, phase, rpc, rtarget>>
      /\ pool' = pool \ {c}
  BY DEF CoreInv, TypeOK, WorkerInv, PoolEnded, Spawn, InCode, foreign
<1>2. LinkedOnce' /\ ReadyIsQueued' /\ ready' \in Seq(Fibers)
  BY <1>1, QueuePush DEF CoreInv, Spawn
<1>3. TypeOK'
  BY <1>2, ConstantsAssumption
     DEF CoreInv, TypeOK, Spawn, InCode, Count, ResetAtomics, ResetRecord, States,
         Endings, foreign
<1>4. WorkerInv'
  BY <1>1, ConstantsAssumption DEF CoreInv, WorkerInv, TypeOK
<1>5. ThreadInv' /\ PoolEnded'
  BY <1>1 DEF CoreInv, TypeOK, ThreadInv, PoolEnded
<1> QED BY <1>2, <1>3, <1>4, <1>5 DEF CoreInv

\* Every step of a running fiber keeps CoreInv.
LEMMA FiberStepCore ==
    ASSUME CoreInv, NEW f \in Fibers, FiberStep(f)
    PROVE  CoreInv'
<1> USE ConstantsAssumption
<1>1. CASE \E c \in Fibers, forget \in BOOLEAN : Spawn(f, c, forget)
  BY <1>1, SpawnStep
<1>2. ASSUME NEW g \in Fibers, Resume(f, g) PROVE CoreInv'
  <2>1. ResumeHere(g) /\ TypeOK
    BY <1>2 DEF Resume, CoreInv
  <2>2. TypeOK'
    BY <1>2, <2>1, ResumeHereType DEF TypeOK, Resume, Count, records, worker, foreign
  <2> QED BY <1>2, <2>1, <2>2, ResumeHereStep DEF Resume, worker, foreign
<1>3. ASSUME NEW c \in Fibers, Cancel(f, c) PROVE CoreInv'
  <2>1. ResumeHere(c) /\ TypeOK
    BY <1>3 DEF Cancel, CoreInv
  <2>2. TypeOK'
    BY <1>3, <2>1, ResumeHereType DEF TypeOK, Cancel, Count, worker, foreign
  <2> QED BY <1>3, <2>1, <2>2, ResumeHereStep DEF Cancel, worker, foreign
<1>4. ASSUME NEW c \in Fibers, JoinEnter(f, c) PROVE CoreInv'
  <2>1. TypeOK'
    BY <1>4 DEF CoreInv, TypeOK, JoinEnter, records, worker, foreign
  <2> QED BY <1>4, <2>1, QuietStep DEF JoinEnter, InCode, worker, foreign
<1>5. CASE ParkRefused(f)
  <2>1. TypeOK'
    BY <1>5 DEF CoreInv, TypeOK, ParkRefused, ExitCancelled, worker, foreign
  <2> QED BY <1>5, <2>1, QuietStep DEF ParkRefused, InCode, worker, foreign
<1>6. CASE ParkLatched(f)
  <2>1. TypeOK'
    BY <1>6 DEF CoreInv, TypeOK, ParkLatched, records, worker, foreign
  <2> QED BY <1>6, <2>1, QuietStep DEF ParkLatched, InCode, worker, foreign
<1>7. CASE ParkSwitch(f)
  <2>1. TypeOK'
    BY <1>7 DEF CoreInv, TypeOK, ParkSwitch, SwitchAway, records, worker, foreign,
                States, Phases
  <2> QED BY <1>7, <2>1, SwitchStep DEF ParkSwitch, InCode, worker, foreign
<1>8. CASE Yield(f)
  <2>1. TypeOK'
    BY <1>8 DEF CoreInv, TypeOK, Yield, SwitchAway, records, worker, foreign,
                States, Phases
  <2> QED BY <1>8, <2>1, SwitchStep DEF Yield, InCode, worker, foreign
<1>9. CASE ParkReturn(f)
  <2>1. TypeOK'
    BY <1>9 DEF CoreInv, TypeOK, ParkReturn, ExitCancelled, worker, foreign
  <2> QED BY <1>9, <2>1, QuietStep DEF ParkReturn, worker, foreign
<1>10. CASE JoinDeliver(f)
  <2>1. TypeOK'
    BY <1>10 DEF CoreInv, TypeOK, JoinDeliver, Joining, foreign, States
  <2>2. LinkedOnce' /\ ReadyIsQueued'
    BY <1>10, QueueFrame DEF CoreInv, JoinDeliver, foreign
  <2>3. WorkerInv' /\ ThreadInv' /\ PoolEnded'
    BY <1>10 DEF CoreInv, WorkerInv, ThreadInv, PoolEnded, JoinDeliver, foreign
  <2> QED BY <2>1, <2>2, <2>3 DEF CoreInv
<1>11. CASE JoinCancelled(f)
  <2>1. TypeOK'
    BY <1>11 DEF CoreInv, TypeOK, JoinCancelled, ExitCancelled, worker, foreign
  <2> QED BY <1>11, <2>1, QuietStep DEF JoinCancelled, Joining, worker, foreign
<1>12. CASE JoinLatched(f)
  <2>1. TypeOK'
    BY <1>12 DEF CoreInv, TypeOK, JoinLatched, records, worker, foreign
  <2> QED BY <1>12, <2>1, QuietStep DEF JoinLatched, Joining, worker, foreign
<1>13. CASE JoinPark(f)
  <2>1. TypeOK'
    BY <1>13 DEF CoreInv, TypeOK, JoinPark, SwitchAway, records, worker, foreign,
                 States, Phases
  <2> QED BY <1>13, <2>1, SwitchStep DEF JoinPark, Joining, worker, foreign
<1>14. CASE ContainedEnter(f)
  <2>1. TypeOK'
    BY <1>14 DEF CoreInv, TypeOK, ContainedEnter, Count, worker, foreign
  <2> QED BY <1>14, <2>1, QuietStep DEF ContainedEnter, InCode, worker, foreign
<1>15. CASE ContainedLeave(f)
  <2>1. TypeOK'
    BY <1>15 DEF CoreInv, TypeOK, ContainedLeave, worker, foreign
  <2> QED BY <1>15, <2>1, QuietStep DEF ContainedLeave, InCode, worker, foreign
<1>16. CASE Panic(f)
  <2>1. TypeOK'
    BY <1>16 DEF CoreInv, TypeOK, Panic, Count, worker, foreign
  <2> QED BY <1>16, <2>1, QuietStep DEF Panic, InCode, worker, foreign
<1>17. CASE Finish(f)
  <2>1. TypeOK'
    BY <1>17 DEF CoreInv, TypeOK, Finish, SwitchAway, worker, foreign, States,
                 Endings, Phases
  <2> QED BY <1>17, <2>1, SwitchStep DEF Finish, InCode, worker, foreign
<1>18. CASE ExitProcess(f)
  <2>1. TypeOK'
    BY <1>18 DEF CoreInv, TypeOK, ExitProcess, records, worker, foreign, Phases
  <2> QED BY <1>18, <2>1, QuietStep DEF ExitProcess, InCode, worker, foreign
<1> QED
  BY <1>1, <1>2, <1>3, <1>4, <1>5, <1>6, <1>7, <1>8, <1>9, <1>10, <1>11, <1>12,
     <1>13, <1>14, <1>15, <1>16, <1>17, <1>18 DEF FiberStep

-----------------------------------------------------------------------------
(* CoreInv is preserved by the scheduler.                                  *)

\* The settled fiber ends; the hook's fiber and the joiner go on the queue if they
\* were parked.
LEMMA SettleFinishStep ==
    ASSUME CoreInv, NEW h \in Fibers \union {None}, SettleFinish(h)
    PROVE  CoreInv'
<1> DEFINE j == joiner[settling]
           u == IF j = h THEN <<>> ELSE Unparked(j)
<1>1. /\ TypeOK /\ phase = "settle" /\ settling \in Fibers
      /\ state[settling] = "PARKING" /\ j \in Fibers \union {None}
  BY DEF CoreInv, TypeOK, WorkerInv, SettleFinish
<1>2. \A g \in Fibers :
         state'[g] = IF g = settling THEN "DONE"
                     ELSE IF g \in {h, j} /\ state[g] = "PARKED" THEN "READY"
                     ELSE state[g]
  BY <1>1 DEF SettleFinish, EndAndWake
<1>3. /\ Unparked(h) \in Seq(Fibers) /\ IsInjective(Unparked(h))
      /\ Range(Unparked(h)) \subseteq Fibers
      /\ \A g \in Fibers : g \in Range(Unparked(h)) <=> (g = h /\ state[g] = "PARKED")
  BY <1>1, UnparkedLemma
<1>4. /\ u \in Seq(Fibers) /\ IsInjective(u) /\ Range(u) \subseteq Fibers
      /\ \A g \in Fibers : g \in Range(u) <=> (g = j /\ j # h /\ state[g] = "PARKED")
  <2>1. CASE j = h
    BY <2>1, ShortLemma, ConstantsAssumption
  <2>2. CASE j # h
    BY <1>1, <2>2, UnparkedLemma
  <2> QED BY <2>1, <2>2
<1>4a. ready' = (ready \o Unparked(h)) \o u
  BY DEF SettleFinish, EndAndWake
<1> HIDE DEF u
<1> DEFINE s == Unparked(h) \o u
<1>5. s \in Seq(Fibers) /\ IsInjective(s) /\ Range(s) = Range(Unparked(h)) \union Range(u)
  BY <1>3, <1>4, SpliceLemma
<1>6. ready' = ready \o s
  <2>1. ready \in Seq(Fibers)
    BY <1>1 DEF TypeOK
  <2> QED BY <1>3, <1>4, <1>4a, <2>1, ConcatAssociative
<1>7. \A g \in Range(s) : state[g] # "READY"
  BY <1>3, <1>4, <1>5
<1>8. \A g \in Fibers : state'[g] = "READY" <=> (state[g] = "READY" \/ g \in Range(s))
  BY <1>1, <1>2, <1>3, <1>4, <1>5
<1>9. UNCHANGED <<inbox, rpc, rtarget>>
  BY DEF SettleFinish, foreign
<1>10. LinkedOnce' /\ ReadyIsQueued' /\ ready' \in Seq(Fibers)
  <2> HIDE DEF s
  <2> QED BY <1>1, <1>5, <1>6, <1>7, <1>8, <1>9, QueueAppend DEF CoreInv
<1>11. state' \in [Fibers -> States] /\ pending_wake' \in [Fibers -> BOOLEAN]
  BY <1>1 DEF TypeOK, SettleFinish, EndAndWake, States
<1>12. TypeOK'
  BY <1>1, <1>10, <1>11, ConstantsAssumption
     DEF TypeOK, SettleFinish, Count, Uncount, RetireForgotten, records, foreign, Phases
<1>13. WorkerInv'
  BY <1>1, <1>2, ConstantsAssumption DEF CoreInv, WorkerInv, TypeOK, SettleFinish
<1>14. ThreadInv' /\ PoolEnded'
  BY <1>1, <1>2, <1>9
     DEF CoreInv, TypeOK, ThreadInv, PoolEnded, SettleFinish, RetireForgotten
<1> QED BY <1>10, <1>12, <1>13, <1>14 DEF CoreInv

\* Every step of the scheduler keeps CoreInv.
LEMMA SchedulerStepCore ==
    ASSUME CoreInv, SchedulerStep
    PROVE  CoreInv'
<1> USE ConstantsAssumption
<1>0. TypeOK /\ WorkerInv /\ ready \in Seq(Fibers) /\ inbox \in Seq(Fibers)
  BY DEF CoreInv, TypeOK
<1>1. CASE SettlePark
  <2>1. settling \in Fibers /\ state[settling] = "PARKING" /\ phase = "settle"
    BY <1>0, <1>1 DEF WorkerInv, SettlePark
  <2>2. CASE pending_wake[settling]
    <3>0. /\ pending_wake' = [pending_wake EXCEPT ![settling] = FALSE]
          /\ state' = [state EXCEPT ![settling] = "READY"]
          /\ ready' = Append(ready, settling)
          /\ settling' = None
          /\ phase' = "drain"
          /\ UNCHANGED <<records, joiner, at, target, worker, inbox, current,
                         disposition, foreign, ops>>
      BY <1>1, <2>2, Zenon DEF SettlePark
    <3>1. LinkedOnce' /\ ReadyIsQueued' /\ ready' \in Seq(Fibers)
      BY <2>1, <3>0, QueuePush DEF CoreInv, foreign
    <3>2. TypeOK'
      BY <1>0, <2>1, <3>0, <3>1 DEF TypeOK, records, worker, foreign, States, Phases
    <3>3. WorkerInv' /\ ThreadInv' /\ PoolEnded'
      BY <2>1, <3>0
         DEF CoreInv, TypeOK, WorkerInv, ThreadInv, PoolEnded, worker, foreign
    <3> QED BY <3>1, <3>2, <3>3 DEF CoreInv
  <2>3. CASE ~pending_wake[settling]
    <3>1. LinkedOnce' /\ ReadyIsQueued'
      BY <1>1, <2>3, QueueFrame DEF CoreInv, SettlePark, foreign
    <3>2. TypeOK'
      BY <1>0, <1>1, <2>3 DEF TypeOK, SettlePark, records, worker, foreign, Phases
    <3>3. WorkerInv' /\ ThreadInv' /\ PoolEnded'
      BY <1>1, <2>1, <2>3
         DEF CoreInv, TypeOK, WorkerInv, ThreadInv, PoolEnded, SettlePark, worker, foreign
    <3> QED BY <3>1, <3>2, <3>3 DEF CoreInv
  <2> QED BY <2>2, <2>3
<1>2. CASE Publish
  <2>1. settling \in Fibers /\ state[settling] = "PARKING"
    BY <1>0, <1>2 DEF WorkerInv, Publish
  <2>2. /\ state' = [state EXCEPT ![settling] = "PARKED"]
        /\ UNCHANGED <<ready, inbox, rpc, rtarget>>
    BY <1>2, <2>1 DEF Publish, foreign
  <2>3. \A g \in Fibers : state'[g] = "READY" <=> state[g] = "READY"
    BY <1>0, <2>1, <2>2 DEF TypeOK
  <2>4. LinkedOnce' /\ ReadyIsQueued'
    BY <2>2, <2>3, QueueFrame DEF CoreInv
  <2>5. TypeOK'
    BY <1>0, <1>2, <2>2 DEF TypeOK, Publish, records, worker, foreign, States, Phases
  <2>6. WorkerInv' /\ ThreadInv' /\ PoolEnded'
    BY <1>2, <2>1, <2>2
       DEF CoreInv, TypeOK, WorkerInv, ThreadInv, PoolEnded, Publish, worker, foreign
  <2> QED BY <2>4, <2>5, <2>6 DEF CoreInv
<1>3. CASE SettleYield
  <2>1. settling \in Fibers /\ state[settling] = "PARKING"
    BY <1>0, <1>3 DEF WorkerInv, SettleYield
  <2>2. LinkedOnce' /\ ReadyIsQueued' /\ ready' \in Seq(Fibers)
    BY <1>3, <2>1, QueuePush DEF CoreInv, SettleYield, foreign
  <2>3. TypeOK'
    BY <1>0, <1>3, <2>1, <2>2
       DEF TypeOK, SettleYield, records, worker, foreign, States, Phases
  <2>4. WorkerInv' /\ ThreadInv' /\ PoolEnded'
    BY <1>3, <2>1
       DEF CoreInv, TypeOK, WorkerInv, ThreadInv, PoolEnded, SettleYield, worker, foreign
  <2> QED BY <2>2, <2>3, <2>4 DEF CoreInv
<1>4. CASE \E h \in Fibers \union {None} : SettleFinish(h)
  BY <1>4, SettleFinishStep
<1>5. ASSUME UNCHANGED <<state, rpc, rtarget, pool, current, settling, disposition>>,
             ready' = ready \o inbox, inbox' = <<>>,
             phase \in {"drain", "pop"}, phase' \in {"drain", "pop"}, TypeOK'
      PROVE  CoreInv'
  <2>1. IsInjective(<<>>) /\ Range(<<>>) = {} /\ Posting' = Posting
    BY <1>5, ShortLemma DEF Posting
  <2>2. IsInjective(ready') /\ Range(ready') = Range(ready) \union Range(inbox)
    BY <1>0, <1>5, SpliceLemma DEF CoreInv, LinkedOnce
  <2>3. LinkedOnce' /\ ReadyIsQueued'
    BY <1>5, <2>1, <2>2 DEF CoreInv, LinkedOnce, ReadyIsQueued
  <2>4. WorkerInv' /\ ThreadInv' /\ PoolEnded'
    BY <1>5 DEF CoreInv, WorkerInv, ThreadInv, PoolEnded
  <2> QED BY <1>5, <2>3, <2>4 DEF CoreInv
<1>6. <<>> \in Seq(Fibers) /\ ready \o inbox \in Seq(Fibers) /\ <<>> \o inbox = inbox
  BY <1>0, EmptySeq, ConcatProperties, ConcatEmptySeq
<1>7. CASE Drain
  <2>1. TypeOK'
    BY <1>0, <1>6, <1>7 DEF TypeOK, Drain, records, worker, foreign, Phases
  <2> QED BY <1>5, <1>7, <2>1 DEF Drain, worker, foreign
<1>8. CASE IdleWait
  <2>1. ready' = ready \o inbox /\ inbox' = <<>>
    BY <1>6, <1>8 DEF IdleWait
  <2>2. TypeOK'
    BY <1>0, <1>6, <1>8 DEF TypeOK, IdleWait, records, worker, foreign, Phases
  <2> QED BY <1>5, <1>8, <2>1, <2>2 DEF IdleWait, worker, foreign
<1>9. CASE Dispatch
  <2> DEFINE x == Head(ready)
  <2>1. /\ x \in Fibers /\ x \in Range(ready)
        /\ ready' \in Seq(Fibers) /\ IsInjective(ready')
        /\ Range(ready') = Range(ready) \ {x}
    BY <1>0, <1>9, PopLemma DEF CoreInv, LinkedOnce, Dispatch
  <2>2. state[x] = "READY" /\ x \notin Range(inbox) /\ \A t \in Posting : rtarget[t] # x
    BY <2>1 DEF CoreInv, LinkedOnce, ReadyIsQueued
  <2>3. /\ \A g \in Fibers : state'[g] = IF g = x THEN "RUNNING" ELSE state[g]
        /\ Posting' = Posting
        /\ UNCHANGED <<inbox, rpc, rtarget, pool>>
    BY <1>0, <1>9 DEF TypeOK, Dispatch, Posting, worker, foreign
  <2>4. LinkedOnce' /\ ReadyIsQueued'
    BY <2>1, <2>2, <2>3 DEF CoreInv, LinkedOnce, ReadyIsQueued
  <2>5. TypeOK'
    BY <1>0, <1>9, <2>1 DEF TypeOK, Dispatch, records, worker, foreign, States, Phases
  <2>6. WorkerInv' /\ ThreadInv' /\ PoolEnded'
    BY <1>9, <2>1, <2>2, <2>3
       DEF CoreInv, TypeOK, WorkerInv, ThreadInv, PoolEnded, Dispatch
  <2> QED BY <2>4, <2>5, <2>6 DEF CoreInv
<1> QED BY <1>1, <1>2, <1>3, <1>4, <1>7, <1>8, <1>9 DEF SchedulerStep

-----------------------------------------------------------------------------
(* CoreInv is preserved by a resume on a foreign thread.                   *)

\* A step of a thread that is not posting, before or after it.
LEMMA NotPostingStep ==
    ASSUME CoreInv, TypeOK', NEW t \in Threads,
           UNCHANGED <<state, ready, inbox, current, settling, disposition, phase, pool>>,
           rpc[t] # "post", rpc'[t] # "post",
           \A u \in Threads \ {t} : rpc'[u] = rpc[u] /\ rtarget'[u] = rtarget[u],
           rpc'[t] # "idle" => rtarget'[t] \in Fibers
    PROVE  CoreInv'
<1>1. Posting' = Posting /\ \A u \in Posting : rtarget'[u] = rtarget[u]
  BY DEF Posting
<1>2. LinkedOnce' /\ ReadyIsQueued'
  BY <1>1 DEF CoreInv, LinkedOnce, ReadyIsQueued
<1>3. WorkerInv' /\ ThreadInv' /\ PoolEnded'
  BY DEF CoreInv, WorkerInv, ThreadInv, PoolEnded
<1> QED BY <1>2, <1>3 DEF CoreInv

\* The thread that wins the CAS is the only one that posts the fiber.
LEMMA CasStep ==
    ASSUME CoreInv, NEW t \in Threads, ResumeCas(t)
    PROVE  CoreInv'
<1> DEFINE x == rtarget[t]
<1>1. TypeOK /\ x \in Fibers /\ rpc[t] = "cas"
  BY DEF CoreInv, ThreadInv, ResumeCas
<1>2. CASE state[x] # "PARKED"
  <2>1. TypeOK'
    BY <1>1, <1>2
       DEF TypeOK, ResumeCas, At, ForeignOnly, records, worker, ResumePC
  <2> QED BY <1>1, <1>2, <2>1, NotPostingStep
          DEF ResumeCas, At, ForeignOnly, worker, TypeOK
<1>3. CASE state[x] = "PARKED"
  <2>1. /\ \A g \in Fibers : state'[g] = IF g = x THEN "READY" ELSE state[g]
        /\ \A u \in Threads : rpc'[u] = IF u = t THEN "post" ELSE rpc[u]
        /\ UNCHANGED <<ready, inbox, rtarget, current, settling, disposition, phase, pool>>
    BY <1>1, <1>3 DEF TypeOK, ResumeCas, At, ForeignOnly, worker
  <2>2. x \notin Range(ready) \union Range(inbox) /\ \A u \in Posting : rtarget[u] # x
    BY <1>1, <1>3 DEF CoreInv, ReadyIsQueued
  <2>3. Posting' = Posting \union {t}
    BY <2>1 DEF Posting
  <2>4. LinkedOnce' /\ ReadyIsQueued'
    BY <1>1, <2>1, <2>2, <2>3 DEF CoreInv, LinkedOnce, ReadyIsQueued
  <2>5. TypeOK'
    BY <1>1, <1>3
       DEF TypeOK, ResumeCas, At, ForeignOnly, records, worker, ResumePC, States
  <2>6. WorkerInv' /\ ThreadInv' /\ PoolEnded'
    BY <1>1, <1>3, <2>1 DEF CoreInv, TypeOK, WorkerInv, ThreadInv, PoolEnded
  <2> QED BY <2>4, <2>5, <2>6 DEF CoreInv
<1> QED BY <1>2, <1>3

\* inbox_post links a fiber that is on no list.
LEMMA PostStep ==
    ASSUME CoreInv, NEW t \in Threads, ResumePost(t)
    PROVE  CoreInv'
<1> DEFINE x == rtarget[t]
<1>1. TypeOK /\ x \in Fibers /\ rpc[t] = "post" /\ t \in Posting
  BY DEF CoreInv, ThreadInv, ResumePost, Posting
<1>2. /\ \A u \in Threads : rpc'[u] = IF u = t THEN "idle" ELSE rpc[u]
      /\ \A u \in Threads : rtarget'[u] = IF u = t THEN None ELSE rtarget[u]
      /\ inbox' = Append(inbox, x)
      /\ UNCHANGED <<state, ready, current, settling, disposition, phase, pool>>
  BY <1>1 DEF TypeOK, ResumePost, Return, ForeignOnly, worker
<1>3. /\ inbox' \in Seq(Fibers) /\ IsInjective(inbox')
      /\ Range(inbox') = Range(inbox) \union {x}
  BY <1>1, <1>2, PushLemma DEF CoreInv, TypeOK, LinkedOnce
<1>4. Posting' = Posting \ {t} /\ \A u \in Posting' : rtarget'[u] = rtarget[u] /\ rtarget[u] # x
  BY <1>1, <1>2 DEF CoreInv, LinkedOnce, Posting
<1>5. LinkedOnce'
  BY <1>1, <1>2, <1>3, <1>4 DEF CoreInv, LinkedOnce
<1>6. ReadyIsQueued'
  BY <1>1, <1>2, <1>3, <1>4 DEF CoreInv, ReadyIsQueued
<1>7. TypeOK'
  BY <1>1, <1>3 DEF TypeOK, ResumePost, Return, ForeignOnly, records, worker, ResumePC
<1>8. WorkerInv' /\ ThreadInv' /\ PoolEnded'
  BY <1>2 DEF CoreInv, WorkerInv, ThreadInv, PoolEnded
<1> QED BY <1>5, <1>6, <1>7, <1>8 DEF CoreInv

\* Every step of a foreign thread keeps CoreInv.
LEMMA ForeignStepCore ==
    ASSUME CoreInv, NEW t \in Threads,
           ResumeStep(t) \/ \E f \in Fibers : ResumeCall(t, f)
    PROVE  CoreInv'
<1>0. TypeOK /\ ThreadInv
  BY DEF CoreInv
<1>1. ASSUME NEW f \in Fibers, ResumeCall(t, f) PROVE CoreInv'
  <2>1. TypeOK'
    BY <1>0, <1>1, ConstantsAssumption
       DEF TypeOK, ResumeCall, ForeignOnly, records, worker, ResumePC
  <2> QED BY <1>0, <1>1, <2>1, NotPostingStep
          DEF ResumeCall, ForeignOnly, worker, TypeOK
<1>2. CASE ResumeLoad(t)
  <2>1. At(t, "cas") \/ Return(t) \/ At(t, "latch")
    BY <1>2 DEF ResumeLoad
  <2>2. TypeOK'
    BY <1>0, <1>2, <2>1
       DEF TypeOK, ResumeLoad, At, Return, ForeignOnly, records, worker, ResumePC
  <2> QED BY <1>0, <1>2, <2>1, <2>2, NotPostingStep
          DEF ResumeLoad, At, Return, ForeignOnly, worker, TypeOK, ThreadInv
<1>3. CASE ResumeLatch(t)
  <2>1. TypeOK'
    BY <1>0, <1>3 DEF TypeOK, ResumeLatch, At, ForeignOnly, records, worker, ResumePC
  <2> QED BY <1>0, <1>3, <2>1, NotPostingStep
          DEF ResumeLatch, At, ForeignOnly, worker, TypeOK, ThreadInv
<1>4. CASE ResumeRecheck(t)
  <2>1. At(t, "load") \/ Return(t)
    BY <1>4 DEF ResumeRecheck
  <2>2. TypeOK'
    BY <1>0, <1>4, <2>1
       DEF TypeOK, ResumeRecheck, At, Return, ForeignOnly, records, worker, ResumePC
  <2> QED BY <1>0, <1>4, <2>1, <2>2, NotPostingStep
          DEF ResumeRecheck, At, Return, ForeignOnly, worker, TypeOK, ThreadInv
<1> QED BY <1>1, <1>2, <1>3, <1>4, CasStep, PostStep DEF ResumeStep

\* CoreInv holds in every reachable state.
THEOREM CoreCorrect == Spec => []CoreInv
<1>1. CoreInv /\ [Next]_vars => CoreInv'
  <2>1. ASSUME CoreInv, Next PROVE CoreInv'
    BY <2>1, FiberStepCore, SchedulerStepCore, ForeignStepCore DEF Next
  <2>2. ASSUME CoreInv, UNCHANGED vars PROVE CoreInv'
    BY <2>2 DEF vars, records, worker, foreign, CoreInv, TypeOK, WorkerInv, ThreadInv,
                PoolEnded, LinkedOnce, ReadyIsQueued, Posting
  <2> QED BY <2>1, <2>2
<1> QED BY <1>1, InitCore, PTL DEF Spec

\* Type correctness of the scheduler model.
THEOREM TypeCorrect == Spec => []TypeOK
BY CoreCorrect, PTL DEF CoreInv

\* Whatever the number of fibers and of foreign threads and whatever their
\* interleaving, no fiber is linked into two queues or twice into one.
THEOREM LinkedOnceCorrect == Spec => []LinkedOnce
BY CoreCorrect, PTL DEF CoreInv

\* A READY fiber is on a list or about to be put there by the thread that won the
\* CAS, and nothing else is on a list.
THEOREM ReadyIsQueuedCorrect == Spec => []ReadyIsQueued
BY CoreCorrect, PTL DEF CoreInv

\* settle's compare-and-swap cannot fail: the requeue behind it is dead code, and
\* the lost wake it was written against is not caught there.
THEOREM PublishCorrect == Spec => []PublishFindsParking
<1>1. CoreInv => PublishFindsParking
  BY DEF CoreInv, WorkerInv, PublishFindsParking
<1> QED BY <1>1, CoreCorrect, PTL

-----------------------------------------------------------------------------
(* The live count.                                                         *)

\* Only a spawn and a settled finish begin and end fibers.
LEMMA LivesUnchanged ==
    ASSUME CoreInv, Next,
           ~ \E f, c \in Fibers, forget \in BOOLEAN : Spawn(f, c, forget),
           ~ \E h \in Fibers \union {None} : SettleFinish(h)
    PROVE  /\ \A g \in Fibers : state'[g] = "DONE" <=> state[g] = "DONE"
           /\ UNCHANGED <<all, live>>
<1>0. TypeOK /\ WorkerInv /\ ThreadInv /\ ReadyIsQueued
  BY DEF CoreInv
<1>1. ASSUME NEW f \in Fibers, FiberStep(f)
      PROVE  /\ \A g \in Fibers : state'[g] = "DONE" <=> state[g] = "DONE"
             /\ UNCHANGED <<all, live>>
  <2>1. CASE ParkRefused(f) \/ ParkLatched(f) \/ ParkReturn(f) \/ JoinDeliver(f)
             \/ JoinCancelled(f) \/ JoinLatched(f) \/ \E c \in Fibers : JoinEnter(f, c)
    BY <2>1 DEF ParkRefused, ParkLatched, ParkReturn, JoinDeliver, JoinCancelled,
                JoinLatched, JoinEnter, worker
  <2>2. CASE ContainedEnter(f) \/ ContainedLeave(f) \/ Panic(f) \/ ExitProcess(f)
    BY <2>2 DEF ContainedEnter, ContainedLeave, Panic, ExitProcess, worker
  <2>3. CASE ParkSwitch(f) \/ Yield(f) \/ JoinPark(f) \/ Finish(f)
    BY <1>0, <2>3 DEF TypeOK, WorkerInv, ParkSwitch, Yield, JoinPark, Finish,
                      SwitchAway, InCode, Joining, worker
  <2>4. CASE \E g \in Fibers : Resume(f, g) \/ Cancel(f, g)
    BY <1>0, <2>4 DEF TypeOK, Resume, Cancel, ResumeHere, worker
  <2> QED BY <1>1, <2>1, <2>2, <2>3, <2>4 DEF FiberStep
<1>2. ASSUME SchedulerStep
      PROVE  /\ \A g \in Fibers : state'[g] = "DONE" <=> state[g] = "DONE"
             /\ UNCHANGED <<all, live>>
  <2>1. CASE SettlePark \/ Publish \/ SettleYield
    BY <1>0, <2>1 DEF TypeOK, WorkerInv, SettlePark, Publish, SettleYield, worker
  <2>2. CASE Drain \/ IdleWait
    BY <2>2 DEF Drain, IdleWait, worker
  <2>3. CASE Dispatch
    <3>1. Head(ready) \in Fibers /\ state[Head(ready)] = "READY"
      BY <1>0, <2>3, PopLemma DEF CoreInv, LinkedOnce, TypeOK, ReadyIsQueued, Dispatch
    <3> QED BY <1>0, <2>3, <3>1 DEF TypeOK, Dispatch, worker
  <2> QED BY <1>2, <2>1, <2>2, <2>3 DEF SchedulerStep
<1>3. ASSUME NEW t \in Threads, ResumeStep(t) \/ \E f \in Fibers : ResumeCall(t, f)
      PROVE  /\ \A g \in Fibers : state'[g] = "DONE" <=> state[g] = "DONE"
             /\ UNCHANGED <<all, live>>
  BY <1>0, <1>3 DEF TypeOK, ResumeStep, ResumeCall, ResumeLoad, ResumeCas, ResumePost,
                    ResumeLatch, ResumeRecheck, ForeignOnly, worker
<1> QED BY <1>1, <1>2, <1>3 DEF Next

\* The live count and the table of live fibers are right for ever.
THEOREM LiveCountCorrect == Spec => []LiveCount
<1>1. Init => LiveCount
  <2> SUFFICES ASSUME Init PROVE LiveCount
    OBVIOUS
  <2>1. Cardinality({Root}) = 1
    BY FS_Singleton
  <2> QED BY <2>1, ConstantsAssumption DEF Init, LiveCount
<1>2. CoreInv /\ LiveCount /\ [Next]_vars => LiveCount'
  <2> SUFFICES ASSUME CoreInv, LiveCount, [Next]_vars PROVE LiveCount'
    OBVIOUS
  <2>0. IsFiniteSet(all) /\ TypeOK
    BY ConstantsAssumption, FS_Subset DEF CoreInv, TypeOK
  <2>1. ASSUME NEW f \in Fibers, NEW c \in Fibers, NEW forget \in BOOLEAN,
               Spawn(f, c, forget)
        PROVE  LiveCount'
    <3>1. c \notin all /\ all' = all \union {c} /\ live' = live + 1
      BY <2>1 DEF CoreInv, PoolEnded, LiveCount, Spawn
    <3>2. Cardinality(all') = Cardinality(all) + 1
      BY <2>0, <3>1, FS_AddElement
    <3>3. all' = {g \in Fibers : state'[g] # "DONE"}
      BY <2>0, <2>1, <3>1 DEF TypeOK, LiveCount, Spawn
    <3> QED BY <3>1, <3>2, <3>3 DEF LiveCount
  <2>2. ASSUME NEW h \in Fibers \union {None}, SettleFinish(h)
        PROVE  LiveCount'
    <3>1. settling \in all /\ all' = all \ {settling} /\ live' = live - 1
      BY <2>2 DEF CoreInv, WorkerInv, LiveCount, SettleFinish, Uncount
    <3>2. Cardinality(all') = Cardinality(all) - 1
      BY <2>0, <3>1, FS_RemoveElement
    <3>3. all' = {g \in Fibers : state'[g] # "DONE"}
      BY <2>0, <2>2, <3>1 DEF TypeOK, LiveCount, SettleFinish, EndAndWake
    <3> QED BY <3>1, <3>2, <3>3 DEF LiveCount
  <2>3. CASE /\ \A g \in Fibers : state'[g] = "DONE" <=> state[g] = "DONE"
             /\ UNCHANGED <<all, live>>
    BY <2>3 DEF LiveCount
  <2>4. CASE UNCHANGED vars
    BY <2>4 DEF vars, worker, LiveCount
  <2> QED BY <2>1, <2>2, <2>3, <2>4, LivesUnchanged
<1> QED BY <1>1, <1>2, CoreCorrect, PTL DEF Spec

-----------------------------------------------------------------------------
(* Joins and the pool.                                                     *)

\* A fiber in a join holds the child's handle and is alive.
JoinsOwn == \A f \in Fibers : at[f] = "join" => owner[target[f]] = f /\ state[f] # "DONE"

\* A fiber in no join has no target.
NoTarget == \A f \in Fibers : at[f] # "join" => target[f] = None

\* A joiner field names a fiber in that join.
JoinerJoins == \A c \in Fibers : joiner[c] # None =>
                                   at[joiner[c]] = "join" /\ target[joiner[c]] = c

\* Nobody holds the handle of a forgotten or of a pooled record.
Unheld ==
    /\ \A f \in Fibers : forgotten[f] => owner[f] = None
    /\ \A f \in pool : owner[f] = None /\ joiner[f] = None

\* A fiber asleep, or falling asleep, in a join is named by a child that has not
\* ended; a fiber that finishes is in no join.
SleeperNamed ==
    /\ phase = "settle" /\ disposition = "FINISH" => at[settling] = "code"
    /\ \A f \in Fibers :
         at[f] = "join" /\ (state[f] = "PARKED" \/ settling = f) =>
           state[target[f]] # "DONE" /\ joiner[target[f]] = f

HandleInv == JoinsOwn /\ NoTarget /\ JoinerJoins /\ Unheld /\ SleeperNamed

\* A step that moves no handle, ends nobody and puts nobody new to sleep.
LEMMA HandleFrame ==
    ASSUME CoreInv, HandleInv,
           UNCHANGED <<at, target, owner, joiner, forgotten, pool>>,
           \A f \in Fibers : state'[f] = "DONE" <=> state[f] = "DONE",
           \A f \in Fibers : (state'[f] = "PARKED" \/ settling' = f)
                               => (state[f] = "PARKED" \/ settling = f),
           phase' = "settle" /\ disposition' = "FINISH"
             => UNCHANGED <<phase, disposition, settling>>
    PROVE  HandleInv'
<1>1. JoinsOwn' /\ NoTarget' /\ JoinerJoins' /\ Unheld'
  BY DEF HandleInv, JoinsOwn, NoTarget, JoinerJoins, Unheld
<1>2. SleeperNamed'
  BY DEF CoreInv, TypeOK, HandleInv, SleeperNamed
<1> QED BY <1>1, <1>2 DEF HandleInv

\* A spawn resets a record that nobody joins, owns or waits for.
LEMMA SpawnHandle ==
    ASSUME CoreInv, HandleInv, NEW f \in Fibers, NEW c \in Fibers, NEW forget \in BOOLEAN,
           Spawn(f, c, forget)
    PROVE  HandleInv'
<1>1. /\ phase = "fiber" /\ settling = None /\ phase' = phase /\ settling' = settling
      /\ state[c] = "DONE" /\ c \in pool /\ pool' = pool \ {c} /\ target' = target
      /\ \A g \in Fibers : state'[g] = IF g = c THEN "READY" ELSE state[g]
      /\ \A g \in Fibers : joiner'[g] = IF g = c THEN None ELSE joiner[g]
      /\ \A g \in Fibers : forgotten'[g] = IF g = c THEN forget ELSE forgotten[g]
      /\ \A g \in Fibers : owner'[g] = IF g = c THEN (IF forget THEN None ELSE f) ELSE owner[g]
      /\ \A g \in Fibers : at'[g] = IF g = c THEN "code" ELSE at[g]
  BY DEF CoreInv, TypeOK, WorkerInv, PoolEnded, Spawn, InCode, ResetRecord
<1>2. at[c] # "join" /\ owner[c] = None /\ joiner[c] = None
  BY <1>1 DEF HandleInv, JoinsOwn, Unheld
<1>3. \A g \in Fibers : at[g] = "join" => target[g] \in Fibers /\ target[g] # c
  BY <1>2, ConstantsAssumption DEF CoreInv, TypeOK, HandleInv, JoinsOwn
<1>4. \A g \in Fibers : joiner[g] \in Fibers \union {None} /\ joiner[g] # c
  BY <1>2, ConstantsAssumption DEF CoreInv, TypeOK, HandleInv, JoinerJoins
<1>5. JoinsOwn' /\ NoTarget'
  BY <1>1, <1>2, <1>3 DEF HandleInv, JoinsOwn, NoTarget
<1>6. JoinerJoins'
  BY <1>1, <1>2, <1>4 DEF HandleInv, JoinerJoins
<1>7. Unheld'
  BY <1>1 DEF CoreInv, TypeOK, HandleInv, Unheld
<1>8. SleeperNamed'
  BY <1>1, <1>2, <1>3, ConstantsAssumption DEF HandleInv, SleeperNamed
<1> QED BY <1>5, <1>6, <1>7, <1>8 DEF HandleInv

\* The running fiber enters or leaves a park that is not a join, or finishes.
LEMMA OwnStepHandle ==
    ASSUME CoreInv, HandleInv, NEW f \in Fibers,
           ParkSwitch(f) \/ Yield(f) \/ ParkReturn(f) \/ Finish(f)
    PROVE  HandleInv'
<1>1. /\ state[f] = "RUNNING" /\ settling = None /\ phase = "fiber"
      /\ at[f] # "join" /\ at'[f] # "join"
      /\ disposition' = "FINISH" /\ phase' = "settle" => at'[f] = "code"
      /\ settling' \in {f, None} /\ (phase' = "settle" => settling' = f)
      /\ UNCHANGED <<target, owner, joiner, forgotten, pool>>
      /\ \A g \in Fibers \ {f} : at'[g] = at[g] /\ state'[g] = state[g]
      /\ state'[f] \notin {"DONE", "PARKED"}
  BY DEF CoreInv, TypeOK, WorkerInv, ParkSwitch, Yield, ParkReturn, Finish, SwitchAway,
         InCode, records, worker
<1>2. \A c \in Fibers : joiner[c] # f /\ joiner[c] \in Fibers \union {None}
  BY <1>1, ConstantsAssumption DEF CoreInv, TypeOK, HandleInv, JoinerJoins
<1>3. \A g \in Fibers : at[g] = "join" => target[g] \in Fibers
  BY DEF CoreInv, TypeOK
<1>4. JoinsOwn' /\ NoTarget'
  BY <1>1 DEF HandleInv, JoinsOwn, NoTarget
<1>5. JoinerJoins' /\ Unheld'
  BY <1>1, <1>2 DEF HandleInv, JoinerJoins, Unheld
<1>6. SleeperNamed'
  BY <1>1, <1>3, ConstantsAssumption DEF HandleInv, SleeperNamed
<1> QED BY <1>4, <1>5, <1>6 DEF HandleInv

\* A fiber enters the join of a child whose handle it holds.
LEMMA JoinEnterHandle ==
    ASSUME CoreInv, HandleInv, NEW f \in Fibers, NEW c \in Fibers, JoinEnter(f, c)
    PROVE  HandleInv'
<1>1. /\ state[f] = "RUNNING" /\ settling = None /\ at[f] = "code" /\ owner[c] = f
      /\ phase = "fiber"
      /\ UNCHANGED <<state, owner, joiner, forgotten, pool, settling, phase, disposition>>
      /\ \A g \in Fibers : at'[g] = IF g = f THEN "join" ELSE at[g]
      /\ \A g \in Fibers : target'[g] = IF g = f THEN c ELSE target[g]
  BY DEF CoreInv, TypeOK, WorkerInv, JoinEnter, InCode, records, worker
<1>2. \A d \in Fibers : joiner[d] # f /\ joiner[d] \in Fibers \union {None}
  BY <1>1, ConstantsAssumption DEF CoreInv, TypeOK, HandleInv, JoinerJoins
<1>3. JoinsOwn' /\ NoTarget'
  BY <1>1 DEF HandleInv, JoinsOwn, NoTarget
<1>4. JoinerJoins' /\ Unheld'
  BY <1>1, <1>2 DEF HandleInv, JoinerJoins, Unheld
<1>5. SleeperNamed'
  BY <1>1, ConstantsAssumption DEF HandleInv, SleeperNamed
<1> QED BY <1>3, <1>4, <1>5 DEF HandleInv

\* The running fiber clears the joiner field of the child it is joining, and stays
\* in the join, leaves it, or leaves it with the outcome and pools the record.
LEMMA JoinStepHandle ==
    ASSUME CoreInv, HandleInv, NEW f \in Fibers,
           JoinDeliver(f) \/ JoinCancelled(f) \/ JoinLatched(f)
    PROVE  HandleInv'
<1> DEFINE c == target[f]
<1>1. /\ state[f] = "RUNNING" /\ settling = None /\ at[f] = "join" /\ phase = "fiber"
      /\ c \in Fibers /\ owner[c] = f
  BY DEF CoreInv, TypeOK, WorkerInv, HandleInv, JoinsOwn, JoinDeliver, JoinCancelled,
         JoinLatched, Joining
<1>2. /\ UNCHANGED <<state, forgotten, settling, phase, disposition>>
      /\ \A g \in Fibers : joiner'[g] = IF g = c THEN None ELSE joiner[g]
      /\ \A g \in Fibers \ {f} : at'[g] = at[g] /\ target'[g] = target[g]
  BY <1>1 DEF CoreInv, TypeOK, JoinDeliver, JoinCancelled, JoinLatched, records
<1>3. \/ at'[f] = "code" /\ target'[f] = None
      \/ at'[f] = "join" /\ target'[f] = c /\ owner'[c] = f
  BY <1>1 DEF CoreInv, TypeOK, JoinDeliver, JoinCancelled, JoinLatched, records
<1>4. \/ UNCHANGED <<owner, pool>>
      \/ pool' = pool \union {c} /\ \A g \in Fibers : owner'[g] = IF g = c THEN None ELSE owner[g]
  BY <1>1 DEF CoreInv, TypeOK, JoinDeliver, JoinCancelled, JoinLatched, records, worker
<1>5. \A g \in Fibers \ {f} : at[g] = "join" => target[g] \in Fibers /\ target[g] # c
  BY <1>1 DEF CoreInv, TypeOK, HandleInv, JoinsOwn
<1>6. \A d \in Fibers \ {c} : joiner[d] # f /\ joiner[d] \in Fibers \union {None}
  BY <1>1, ConstantsAssumption DEF CoreInv, TypeOK, HandleInv, JoinerJoins
<1>7. pool \subseteq Fibers
  BY DEF CoreInv, TypeOK
<1> HIDE DEF c
<1>8. JoinsOwn' /\ NoTarget'
  BY <1>1, <1>2, <1>3, <1>4, <1>5 DEF HandleInv, JoinsOwn, NoTarget
<1>9. JoinerJoins'
  BY <1>1, <1>2, <1>6 DEF HandleInv, JoinerJoins
<1>10. Unheld'
  BY <1>1, <1>2, <1>4, <1>7 DEF HandleInv, Unheld
<1>11. SleeperNamed'
  BY <1>1, <1>2, <1>5, ConstantsAssumption DEF HandleInv, SleeperNamed
<1> QED BY <1>8, <1>9, <1>10, <1>11 DEF HandleInv

\* The joiner names itself before it falls asleep.
LEMMA JoinParkHandle ==
    ASSUME CoreInv, HandleInv, NEW f \in Fibers, JoinPark(f)
    PROVE  HandleInv'
<1> DEFINE c == target[f]
<1>1. /\ state[f] = "RUNNING" /\ at[f] = "join" /\ c \in Fibers /\ owner[c] = f
      /\ state[c] # "DONE" /\ settling' = f /\ disposition' = "PARK"
      /\ UNCHANGED <<at, target, owner, forgotten, pool>>
      /\ \A g \in Fibers : state'[g] = IF g = f THEN "PARKING" ELSE state[g]
      /\ \A g \in Fibers : joiner'[g] = IF g = c THEN f ELSE joiner[g]
  BY DEF CoreInv, TypeOK, WorkerInv, HandleInv, JoinsOwn, JoinPark, SwitchAway, Joining,
         records, worker
<1>2. \A g \in Fibers : at[g] = "join" => target[g] \in Fibers /\ (g # f => target[g] # c)
  BY <1>1 DEF CoreInv, TypeOK, HandleInv, JoinsOwn
<1>3. c \notin pool /\ pool \subseteq Fibers
  BY <1>1 DEF CoreInv, TypeOK, PoolEnded
<1>4. target[f] = c
  OBVIOUS
<1> HIDE DEF c
<1>5. JoinsOwn' /\ NoTarget'
  BY <1>1, <1>2 DEF HandleInv, JoinsOwn, NoTarget
<1>6. JoinerJoins' /\ Unheld'
  BY <1>1, <1>3, <1>4 DEF HandleInv, JoinerJoins, Unheld
<1>7. SleeperNamed'
  BY <1>1, <1>2, <1>4 DEF HandleInv, SleeperNamed
<1> QED BY <1>5, <1>6, <1>7 DEF HandleInv

\* A child that ends wakes the fiber asleep in its join.
LEMMA SettleFinishHandle ==
    ASSUME CoreInv, HandleInv, NEW h \in Fibers \union {None}, SettleFinish(h)
    PROVE  HandleInv'
<1> DEFINE e == settling
<1>1. /\ e \in Fibers /\ state[e] = "PARKING" /\ at[e] = "code"
      /\ settling' = None /\ phase' = "drain"
      /\ UNCHANGED <<at, target, owner, joiner, forgotten>>
      /\ pool' = IF joiner[e] = None /\ forgotten[e] THEN pool \union {e} ELSE pool
  BY DEF CoreInv, WorkerInv, HandleInv, SleeperNamed, SettleFinish, RetireForgotten, records
<1>2. \A g \in Fibers :
         state'[g] = IF g = e THEN "DONE"
                     ELSE IF g \in {h, joiner[e]} /\ state[g] = "PARKED" THEN "READY"
                     ELSE state[g]
  BY <1>1 DEF SettleFinish, EndAndWake
<1>3. \A g \in Fibers : at[g] = "join" => target[g] \in Fibers
  BY DEF CoreInv, TypeOK
<1>4. \A g \in Fibers : at[g] = "join" /\ state'[g] = "PARKED" =>
         state[g] = "PARKED" /\ target[g] # e
  BY <1>1, <1>2, <1>3 DEF HandleInv, SleeperNamed
<1>5. \A g \in Fibers : settling' # g
  BY <1>1, ConstantsAssumption
<1>6. JoinsOwn' /\ NoTarget' /\ JoinerJoins'
  BY <1>1, <1>2 DEF HandleInv, JoinsOwn, NoTarget, JoinerJoins
<1>7. Unheld'
  BY <1>1 DEF HandleInv, Unheld
<1>8. SleeperNamed'
  BY <1>1, <1>2, <1>3, <1>4, <1>5 DEF HandleInv, SleeperNamed
<1> QED BY <1>6, <1>7, <1>8 DEF HandleInv

\* HandleInv holds in every reachable state.
THEOREM HandleCorrect == Spec => []HandleInv
<1>1. Init => HandleInv
  BY ConstantsAssumption DEF Init, HandleInv, JoinsOwn, NoTarget, JoinerJoins, Unheld,
                             SleeperNamed
<1>2. CoreInv /\ HandleInv /\ [Next]_vars => HandleInv'
  <2> SUFFICES ASSUME CoreInv, HandleInv, [Next]_vars PROVE HandleInv'
    OBVIOUS
  <2>1. CASE UNCHANGED vars
    BY <2>1, HandleFrame DEF vars, records, worker
  <2>2. CASE \E f, c \in Fibers, forget \in BOOLEAN : Spawn(f, c, forget)
    BY <2>2, SpawnHandle
  <2>3. CASE \E h \in Fibers \union {None} : SettleFinish(h)
    BY <2>3, SettleFinishHandle
  <2>4. ASSUME Next, \A g \in Fibers : state'[g] = "DONE" <=> state[g] = "DONE",
               ~ \E f, c \in Fibers, forget \in BOOLEAN : Spawn(f, c, forget),
               ~ \E h \in Fibers \union {None} : SettleFinish(h)
        PROVE  HandleInv'
    <3>0. TypeOK /\ WorkerInv /\ ThreadInv
      BY DEF CoreInv
    <3>1. ASSUME NEW f \in Fibers, FiberStep(f) PROVE HandleInv'
      <4>1. CASE \/ ParkSwitch(f) \/ Yield(f) \/ ParkReturn(f) \/ Finish(f)
                 \/ JoinDeliver(f) \/ JoinCancelled(f) \/ JoinLatched(f) \/ JoinPark(f)
                 \/ \E c \in Fibers : JoinEnter(f, c)
        BY <4>1, OwnStepHandle, JoinStepHandle, JoinParkHandle, JoinEnterHandle
      <4>2. CASE ParkRefused(f) \/ ParkLatched(f) \/ ContainedEnter(f)
                 \/ ContainedLeave(f) \/ Panic(f)
        BY <2>4, <4>2, HandleFrame DEF ParkRefused, ParkLatched, ContainedEnter,
           ContainedLeave, Panic, records, worker
      <4>3. CASE ExitProcess(f)
        BY <2>4, <4>3, HandleFrame DEF ExitProcess, records, worker
      <4>4. CASE \E g \in Fibers : Resume(f, g) \/ Cancel(f, g)
        <5>1. \A g \in Fibers : state'[g] = "PARKED" => state[g] = "PARKED"
          BY <3>0, <4>4 DEF TypeOK, Resume, Cancel, ResumeHere
        <5>2. UNCHANGED <<at, target, owner, joiner, forgotten, pool, settling, phase,
                          disposition>>
          BY <4>4 DEF Resume, Cancel, records, worker
        <5> QED BY <2>4, <5>1, <5>2, HandleFrame
      <4> QED BY <2>4, <3>1, <4>1, <4>2, <4>3, <4>4 DEF FiberStep
    <3>2. ASSUME SchedulerStep PROVE HandleInv'
      <4>1. CASE SettlePark \/ Publish \/ SettleYield
        <5>1. \A g \in Fibers : (state'[g] = "PARKED" \/ settling' = g)
                                 => (state[g] = "PARKED" \/ settling = g)
          BY <3>0, <4>1, ConstantsAssumption
             DEF TypeOK, WorkerInv, SettlePark, Publish, SettleYield
        <5>2. phase' # "settle" /\ UNCHANGED <<at, target, owner, joiner, forgotten, pool>>
          BY <4>1 DEF SettlePark, Publish, SettleYield, records, worker
        <5> QED BY <2>4, <5>1, <5>2, HandleFrame
      <4>2. CASE Drain \/ IdleWait
        BY <2>4, <4>2, HandleFrame DEF Drain, IdleWait, records, worker
      <4>3. CASE Dispatch
        <5>1. \A g \in Fibers : state'[g] = "PARKED" => state[g] = "PARKED"
          BY <3>0, <4>3 DEF TypeOK, Dispatch
        <5> QED BY <2>4, <4>3, <5>1, HandleFrame DEF Dispatch, records, worker
      <4> QED BY <2>4, <3>2, <4>1, <4>2, <4>3 DEF SchedulerStep
    <3>3. ASSUME NEW t \in Threads, ResumeStep(t) \/ \E f \in Fibers : ResumeCall(t, f)
          PROVE  HandleInv'
      <4>1. \A g \in Fibers : state'[g] = "PARKED" => state[g] = "PARKED"
        BY <3>0, <3>3 DEF TypeOK, ThreadInv, ResumeStep, ResumeCall, ResumeLoad, ResumeCas,
                          ResumePost, ResumeLatch, ResumeRecheck
      <4>2. UNCHANGED <<at, target, owner, joiner, forgotten, pool, settling, phase,
                        disposition>>
        BY <3>3 DEF ResumeStep, ResumeCall, ResumeLoad, ResumeCas, ResumePost, ResumeLatch,
                    ResumeRecheck, ForeignOnly, records, worker
      <4> QED BY <2>4, <4>1, <4>2, HandleFrame
    <3> QED BY <2>4, <3>1, <3>2, <3>3 DEF Next
  <2> QED BY <2>1, <2>2, <2>3, <2>4, LivesUnchanged
<1> QED BY <1>1, <1>2, CoreCorrect, PTL DEF Spec

\* No parent sleeps in the join of a child that has ended, however the parks of the
\* parent, the end of the child and stray wakes interleave.
THEOREM JoinerCorrect == Spec => []JoinerNotStranded
<1>1. HandleInv => JoinerNotStranded
  BY DEF HandleInv, SleeperNamed, JoinerNotStranded
<1> QED BY <1>1, HandleCorrect, PTL

\* No list, waiter or handle reaches a pooled record, so a spawn may reuse it.
THEOREM PoolCorrect == Spec => []PooledUnreachable
<1>1. CoreInv /\ HandleInv => PooledUnreachable
  <2> SUFFICES ASSUME CoreInv, HandleInv, NEW f \in pool
               PROVE  /\ state[f] = "DONE"
                      /\ owner[f] = None
                      /\ joiner[f] = None
                      /\ f \notin Range(ready) \union Range(inbox)
                      /\ \A g \in all : target[g] # f
    BY DEF PooledUnreachable
  <2>1. f \in Fibers /\ state[f] = "DONE" /\ owner[f] = None /\ joiner[f] = None
    BY DEF CoreInv, TypeOK, PoolEnded, HandleInv, Unheld
  <2>2. f \notin Range(ready) \union Range(inbox)
    BY <2>1 DEF CoreInv, ReadyIsQueued
  <2>3. \A g \in all : target[g] # f
    <3>1. all \subseteq Fibers /\ \A g \in Fibers : target[g] # None => owner[target[g]] = g
      BY DEF CoreInv, TypeOK, HandleInv, JoinsOwn, NoTarget
    <3> QED BY <2>1, <3>1, ConstantsAssumption
  <2> QED BY <2>1, <2>2, <2>3
<1> QED BY <1>1, CoreCorrect, HandleCorrect, PTL

-----------------------------------------------------------------------------
(* Cancellation.                                                           *)

\* A fiber on its way to sleep has no cancellation it could observe.
FallingAsleep == settling # None /\ disposition = "PARK" => ~Observable(settling)

\* A flag is only up in a life of the record that was cancelled.
FlagAsked == \A f \in Fibers : cancel_flag[f] => asked[f]

CancelInv == CancelNeverSlept /\ FallingAsleep /\ FlagAsked /\ CancelledOnlyIfAsked

\* A step that touches no flag and puts to sleep only the fiber it was settling.
LEMMA CancelFrame ==
    ASSUME CoreInv, CancelInv,
           UNCHANGED <<cancel_flag, cancel_mask, unwind_status, status, asked>>,
           \A g \in Fibers : state'[g] = "PARKED" =>
                              \/ state[g] = "PARKED"
                              \/ settling = g /\ disposition = "PARK",
           settling' # None => UNCHANGED <<settling, disposition>>
    PROVE  CancelInv'
<1>1. CancelNeverSlept'
  BY ConstantsAssumption DEF CancelInv, CancelNeverSlept, FallingAsleep, Observable
<1>2. FallingAsleep'
  BY DEF CancelInv, FallingAsleep, Observable
<1>3. FlagAsked' /\ CancelledOnlyIfAsked'
  BY DEF CancelInv, FlagAsked, CancelledOnlyIfAsked
<1> QED BY <1>1, <1>2, <1>3 DEF CancelInv

\* The running fiber changes its own record: it observes its cancellation, begins or
\* stops an unwind, or records how it ended.
LEMMA OwnCancelStep ==
    ASSUME CoreInv, CancelInv, NEW f \in Fibers,
           phase = "fiber", current = f,
           \A g \in Fibers \ {f} : /\ state'[g] = state[g]
                                    /\ cancel_flag'[g] = cancel_flag[g]
                                    /\ cancel_mask'[g] = cancel_mask[g]
                                    /\ unwind_status'[g] = unwind_status[g]
                                    /\ status'[g] = status[g],
           state'[f] # "PARKED",
           cancel_flag'[f] = cancel_flag[f], asked' = asked,
           cancel_mask'[f] => cancel_mask[f] \/ asked[f],
           unwind_status'[f] = "CANCELLED" => unwind_status[f] = "CANCELLED" \/ asked[f],
           status'[f] = "CANCELLED" => status[f] = "CANCELLED" \/ unwind_status[f] = "CANCELLED",
           settling' # None /\ disposition' = "PARK" => settling' = f /\ ~Observable(f)'
    PROVE  CancelInv'
<1>1. CancelNeverSlept'
  BY DEF CancelInv, CancelNeverSlept, Observable
<1>2. FallingAsleep'
  BY DEF FallingAsleep, Observable
<1>3. FlagAsked'
  BY DEF CancelInv, FlagAsked
<1>4. CancelledOnlyIfAsked'
  BY DEF CancelInv, CancelledOnlyIfAsked
<1> QED BY <1>1, <1>2, <1>3, <1>4 DEF CancelInv

\* A cancelled fiber is not asleep after the wake; a reused record is not cancelled.
LEMMA OtherCancelStep ==
    ASSUME CoreInv, CancelInv, NEW f \in Fibers, NEW c \in Fibers,
           Cancel(f, c) \/ \E forget \in BOOLEAN : Spawn(f, c, forget)
    PROVE  CancelInv'
<1>1. /\ settling' = None
      /\ state'[c] # "PARKED"
      /\ \A g \in Fibers \ {c} : /\ state'[g] = state[g]
                                  /\ cancel_flag'[g] = cancel_flag[g]
                                  /\ cancel_mask'[g] = cancel_mask[g]
                                  /\ unwind_status'[g] = unwind_status[g]
                                  /\ status'[g] = status[g]
                                  /\ asked'[g] = asked[g]
  BY DEF CoreInv, TypeOK, WorkerInv, Cancel, Spawn, InCode, ResumeHere, ResetAtomics,
         ResetRecord
<1>2. \/ asked'[c]
      \/ ~cancel_flag'[c] /\ ~cancel_mask'[c] /\ unwind_status'[c] # "CANCELLED"
           /\ status'[c] # "CANCELLED"
  BY DEF CoreInv, TypeOK, Cancel, Spawn, ResetAtomics, ResetRecord
<1>3. CancelNeverSlept' /\ FallingAsleep'
  BY <1>1 DEF CancelInv, CancelNeverSlept, FallingAsleep, Observable
<1>4. FlagAsked' /\ CancelledOnlyIfAsked'
  BY <1>1, <1>2 DEF CancelInv, FlagAsked, CancelledOnlyIfAsked
<1> QED BY <1>3, <1>4 DEF CancelInv

\* CancelInv holds in every reachable state.
THEOREM CancelCorrect == Spec => []CancelInv
<1>1. Init => CancelInv
  BY DEF Init, CancelInv, CancelNeverSlept, FallingAsleep, FlagAsked, CancelledOnlyIfAsked
<1>2. CoreInv /\ CancelInv /\ [Next]_vars => CancelInv'
  <2> SUFFICES ASSUME CoreInv, CancelInv, [Next]_vars PROVE CancelInv'
    OBVIOUS
  <2>0. TypeOK /\ WorkerInv /\ ThreadInv
    BY DEF CoreInv
  <2>1. CASE UNCHANGED vars
    BY <2>1, CancelFrame DEF vars, records
  <2>2. ASSUME NEW f \in Fibers, FiberStep(f) PROVE CancelInv'
    <3>1. CASE \E c \in Fibers : Cancel(f, c) \/ \E forget \in BOOLEAN : Spawn(f, c, forget)
      BY <3>1, OtherCancelStep
    <3>2. CASE \E g \in Fibers : Resume(f, g)
      BY <2>0, <3>2, CancelFrame DEF TypeOK, Resume, ResumeHere, records
    <3>3. CASE \/ ParkLatched(f) \/ JoinDeliver(f) \/ JoinLatched(f) \/ ContainedEnter(f)
               \/ ExitProcess(f) \/ \E c \in Fibers : JoinEnter(f, c)
      BY <3>3, CancelFrame DEF ParkLatched, JoinDeliver, JoinLatched, ContainedEnter,
         ExitProcess, JoinEnter, records
    <3>4. CASE ParkRefused(f) \/ ParkReturn(f) \/ JoinCancelled(f)
      <4>1. phase = "fiber" /\ current = f /\ settling' = None /\ state'[f] # "PARKED"
        BY <2>0, <3>4 DEF TypeOK, WorkerInv, ParkRefused, ParkReturn, JoinCancelled, InCode,
                          Joining
      <4>2. Observable(f) => asked[f]
        BY DEF CancelInv, FlagAsked, Observable
      <4>3. /\ UNCHANGED <<state, cancel_flag, status, asked>>
            /\ \/ Observable(f) /\ ExitCancelled(f)
               \/ UNCHANGED <<cancel_mask, unwind_status>>
        BY <3>4 DEF ParkRefused, ParkReturn, JoinCancelled
      <4>4. /\ \A g \in Fibers \ {f} : cancel_mask'[g] = cancel_mask[g]
                                        /\ unwind_status'[g] = unwind_status[g]
            /\ cancel_mask'[f] => cancel_mask[f] \/ asked[f]
            /\ unwind_status'[f] = "CANCELLED" => unwind_status[f] = "CANCELLED" \/ asked[f]
        BY <2>0, <4>2, <4>3 DEF TypeOK, ExitCancelled
      <4> QED BY <4>1, <4>3, <4>4, OwnCancelStep
    <3>5. CASE ContainedLeave(f) \/ Panic(f)
      BY <2>0, <3>5, OwnCancelStep DEF TypeOK, WorkerInv, ContainedLeave, Panic, InCode
    <3>6. CASE ParkSwitch(f) \/ Yield(f) \/ JoinPark(f)
      <4>1. phase = "fiber" /\ current = f /\ settling' = f /\ ~Observable(f)
        BY <3>6 DEF ParkSwitch, Yield, JoinPark, SwitchAway, InCode, Joining
      <4>2. UNCHANGED <<cancel_flag, cancel_mask, unwind_status, status, asked>>
        BY <3>6 DEF ParkSwitch, Yield, JoinPark, records
      <4>3. state'[f] # "PARKED" /\ \A g \in Fibers \ {f} : state'[g] = state[g]
        BY <2>0, <3>6 DEF TypeOK, ParkSwitch, Yield, JoinPark, SwitchAway
      <4>4. ~Observable(f)'
        BY <4>1, <4>2 DEF Observable
      <4> QED BY <4>1, <4>2, <4>3, <4>4, OwnCancelStep
    <3>7. CASE Finish(f)
      <4>1. /\ phase = "fiber" /\ current = f /\ disposition' = "FINISH"
            /\ UNCHANGED <<cancel_flag, cancel_mask, unwind_status, asked>>
            /\ state'[f] # "PARKED"
            /\ \A g \in Fibers \ {f} : state'[g] = state[g] /\ status'[g] = status[g]
        BY <2>0, <3>7 DEF TypeOK, Finish, SwitchAway, InCode
      <4>2. status'[f] = "CANCELLED" => unwind_status[f] = "CANCELLED"
        BY <2>0, <3>7 DEF TypeOK, Finish
      <4> QED BY <4>1, <4>2, OwnCancelStep
    <3> QED BY <2>2, <3>1, <3>2, <3>3, <3>4, <3>5, <3>6, <3>7 DEF FiberStep
  <2>3. ASSUME SchedulerStep PROVE CancelInv'
    <3>1. UNCHANGED <<cancel_flag, cancel_mask, unwind_status, status, asked>>
      BY <2>3 DEF SchedulerStep, SettlePark, Publish, SettleYield, SettleFinish, Drain,
                  Dispatch, IdleWait, records
    <3>2. settling' # None => UNCHANGED <<settling, disposition>>
      BY <2>0, <2>3 DEF WorkerInv, SchedulerStep, SettlePark, Publish, SettleYield,
                        SettleFinish, Drain, Dispatch, IdleWait
    <3>3. \A g \in Fibers : state'[g] = "PARKED" =>
                              \/ state[g] = "PARKED"
                              \/ settling = g /\ disposition = "PARK"
      <4>1. CASE SettlePark \/ Publish \/ SettleYield
        BY <2>0, <4>1 DEF TypeOK, WorkerInv, SettlePark, Publish, SettleYield
      <4>2. CASE \E h \in Fibers \union {None} : SettleFinish(h)
        BY <4>2 DEF SettleFinish, EndAndWake
      <4>3. CASE Drain \/ Dispatch \/ IdleWait
        BY <2>0, <4>3 DEF TypeOK, Drain, Dispatch, IdleWait
      <4> QED BY <2>3, <4>1, <4>2, <4>3 DEF SchedulerStep
    <3> QED BY <3>1, <3>2, <3>3, CancelFrame
  <2>4. ASSUME NEW t \in Threads, ResumeStep(t) \/ \E f \in Fibers : ResumeCall(t, f)
        PROVE  CancelInv'
    <3>1. \A g \in Fibers : state'[g] = "PARKED" => state[g] = "PARKED"
      BY <2>0, <2>4 DEF TypeOK, ThreadInv, ResumeStep, ResumeCall, ResumeLoad, ResumeCas,
                        ResumePost, ResumeLatch, ResumeRecheck
    <3>2. UNCHANGED <<cancel_flag, cancel_mask, unwind_status, status, asked, settling,
                      disposition>>
      BY <2>4 DEF ResumeStep, ResumeCall, ResumeLoad, ResumeCas, ResumePost, ResumeLatch,
                  ResumeRecheck, ForeignOnly, records
    <3> QED BY <3>1, <3>2, CancelFrame
  <2> QED BY <2>1, <2>2, <2>3, <2>4 DEF Next
<1> QED BY <1>1, <1>2, CoreCorrect, PTL DEF Spec

\* No fiber sleeps on a cancellation it could observe, for any number of fibers and
\* of foreign threads and although flag, wake and park are separate steps.
THEOREM CancelNeverSleptCorrect == Spec => []CancelNeverSlept
BY CancelCorrect, PTL DEF CancelInv

\* A fiber ends cancelled only if this life of its record was cancelled.
THEOREM CancelledOnlyIfAskedCorrect == Spec => []CancelledOnlyIfAsked
BY CancelCorrect, PTL DEF CancelInv

\* No fiber sleeps over a cancellation, and none ends cancelled without one: what
\* a caller of cancel and a caller of join may both count on.
THEOREM CancelSoundCorrect == Spec => []CancelSound
BY CancelNeverSleptCorrect, CancelledOnlyIfAskedCorrect, PTL DEF CancelSound

\* The run queue, the inbox, the live count and settle's two steps agree, for any
\* number of fibers and foreign threads.
THEOREM QueuesSoundCorrect == Spec => []QueuesSound
BY LinkedOnceCorrect, ReadyIsQueuedCorrect, LiveCountCorrect, PublishCorrect, PTL
   DEF QueuesSound

-----------------------------------------------------------------------------
(* The scheduler implements the wake token, as long as no foreign thread   *)
(* resumes.                                                                *)

\* Until a foreign thread calls resume, none is inside one, and the latch that
\* settle found empty is still empty when it publishes.
TokenInv ==
    resumes = 0 => /\ \A t \in Threads : rpc[t] = "idle"
                   /\ phase = "publish" => ~pending_wake[settling]

LEMMA TokenInvStep ==
    ASSUME CoreInv, TokenInv, [Next]_vars
    PROVE  TokenInv'
<1> SUFFICES ASSUME resumes' = 0
             PROVE  /\ \A t \in Threads : rpc'[t] = "idle"
                    /\ phase' = "publish" => ~pending_wake'[settling']
  BY DEF TokenInv
<1>0. TypeOK /\ WorkerInv
  BY DEF CoreInv
<1>1. CASE UNCHANGED vars
  BY <1>1 DEF TokenInv, vars, foreign
<1>2. ASSUME NEW f \in Fibers, FiberStep(f) PROVE UNCHANGED foreign /\ phase' # "publish"
  BY <1>2 DEF FiberStep, Spawn, Resume, Cancel, JoinEnter, ParkRefused, ParkLatched, ParkSwitch,
     Yield, ParkReturn, JoinDeliver, JoinCancelled, JoinLatched, JoinPark, ContainedEnter,
     ContainedLeave, Panic, Finish, ExitProcess, SwitchAway, InCode, Joining
<1>3. ASSUME SchedulerStep
      PROVE  UNCHANGED foreign /\ (phase' = "publish" => ~pending_wake'[settling'])
  BY <1>3 DEF SchedulerStep, SettlePark, Publish, SettleYield, SettleFinish, Drain, Dispatch,
     IdleWait
<1>4. ASSUME NEW t \in Threads, NEW f \in Fibers, ResumeCall(t, f) PROVE FALSE
  BY <1>0, <1>4 DEF ResumeCall, TypeOK
<1>5. ASSUME NEW t \in Threads, ResumeStep(t) PROVE FALSE
  <2>1. resumes' = resumes /\ rpc[t] # "idle"
    BY <1>5 DEF ResumeStep, ResumeLoad, ResumeCas, ResumePost, ResumeLatch, ResumeRecheck
  <2> QED BY <2>1 DEF TokenInv
<1>6. CASE UNCHANGED foreign /\ (phase' = "publish" => ~pending_wake'[settling'])
  BY <1>6 DEF TokenInv, foreign
<1> QED BY <1>1, <1>2, <1>3, <1>4, <1>5, <1>6 DEF Next

\* The abstract state of every fiber.
View == [f \in Fibers |-> CASE state[f] \in {"RUNNING", "PARKING"} -> "run"
                            [] state[f] = "READY" -> "ready"
                            [] state[f] = "PARKED" -> "blocked"
                            [] OTHER -> "ended"]

\* The steps that are a stutter of the token: nobody's view and no latch changes.
LEMMA TokenStutter == ASSUME View' = View, pending_wake' = pending_wake PROVE TokenStep
BY DEF TokenStep, Token!vars, View

\* A step of the token of any one fiber.
LEMMA TokenOne ==
    ASSUME NEW g \in Fibers,
           \/ Token!Begin(g) \/ Token!Run(g) \/ Token!Wake(g) \/ Token!Take(g)
           \/ Token!Block(g) \/ Token!Yield(g) \/ Token!End(g)
    PROVE  TokenStep
BY DEF TokenStep, Token!Next

\* A resume on the worker's own thread.
LEMMA TokenWake ==
    ASSUME TypeOK, NEW g \in Fibers, ResumeHere(g)
    PROVE  TokenStep
<1>1. CASE state[g] = "PARKED"
  <2>1. state' = [state EXCEPT ![g] = "READY"] /\ pending_wake' = pending_wake
    BY <1>1 DEF ResumeHere
  <2>2. View[g] = "blocked" /\ View' = [View EXCEPT ![g] = "ready"]
    BY <1>1, <2>1 DEF View, TypeOK, States
  <2>3. Token!Wake(g)
    BY <2>1, <2>2 DEF View, Token!Wake
  <2> QED BY <2>3 DEF TokenStep, Token!Next
<1>2. CASE state[g] = "DONE"
  <2>1. state' = state /\ pending_wake' = pending_wake
    BY <1>2 DEF ResumeHere
  <2> QED BY <2>1, TokenStutter DEF View
<1>3. CASE state[g] \notin {"PARKED", "DONE"}
  <2>1. state' = state /\ pending_wake' = [pending_wake EXCEPT ![g] = TRUE]
    BY <1>3 DEF ResumeHere
  <2>2. View[g] \in {"ready", "run"} /\ View' = View
    BY <1>3, <2>1 DEF View, TypeOK, States
  <2>3. Token!Wake(g)
    BY <2>1, <2>2 DEF View, Token!Wake
  <2> QED BY <2>3 DEF TokenStep, Token!Next
<1> QED BY <1>1, <1>2, <1>3

\* What the running fiber does.
LEMMA TokenFiberStep ==
    ASSUME CoreInv, LiveCount, NEW f \in Fibers, FiberStep(f)
    PROVE  TokenStep
<1>0. TypeOK /\ WorkerInv /\ PoolEnded
  BY DEF CoreInv
<1>1. ASSUME NEW c \in Fibers, NEW forget \in BOOLEAN, Spawn(f, c, forget) PROVE TokenStep
  <2>1. /\ state[c] = "DONE" /\ state' = [state EXCEPT ![c] = "READY"]
        /\ pending_wake' = [pending_wake EXCEPT ![c] = FALSE]
    BY <1>0, <1>1 DEF Spawn, ResetAtomics, PoolEnded
  <2>2. View[c] = "ended" /\ View' = [View EXCEPT ![c] = "ready"]
    BY <1>0, <2>1 DEF View, TypeOK, States
  <2>3. Token!Begin(c)
    BY <2>1, <2>2 DEF View, Token!Begin
  <2> QED BY <2>3 DEF TokenStep, Token!Next
<1>2. ASSUME NEW g \in Fibers, Resume(f, g) \/ Cancel(f, g) PROVE TokenStep
  BY <1>0, <1>2, TokenWake DEF Resume, Cancel
<1>3. CASE ParkLatched(f) \/ JoinLatched(f)
  <2>1. /\ state[f] = "RUNNING" /\ pending_wake[f] /\ state' = state
        /\ pending_wake' = [pending_wake EXCEPT ![f] = FALSE]
    BY <1>0, <1>3 DEF ParkLatched, JoinLatched, InCode, Joining, WorkerInv
  <2>2. View[f] = "run" /\ View' = View
    BY <2>1 DEF View
  <2>3. Token!Take(f)
    BY <2>1, <2>2 DEF View, Token!Take
  <2> QED BY <2>3 DEF TokenStep, Token!Next
<1>4. CASE ParkSwitch(f) \/ Yield(f) \/ JoinPark(f) \/ Finish(f)
  <2>1. /\ state[f] = "RUNNING" /\ pending_wake' = pending_wake
        /\ state' = [state EXCEPT ![f] = "PARKING"]
    BY <1>0, <1>4 DEF ParkSwitch, Yield, JoinPark, Finish, SwitchAway, InCode, Joining, WorkerInv
  <2>2. View' = View
    BY <1>0, <2>1 DEF View, TypeOK
  <2> QED BY <2>1, <2>2, TokenStutter
<1>5. CASE \/ ParkRefused(f) \/ ParkReturn(f) \/ JoinDeliver(f) \/ JoinCancelled(f)
           \/ ContainedEnter(f) \/ ContainedLeave(f) \/ Panic(f) \/ ExitProcess(f)
           \/ \E g \in Fibers : JoinEnter(f, g)
  <2>1. state' = state /\ pending_wake' = pending_wake
    BY <1>5 DEF ParkRefused, ParkReturn, JoinDeliver, JoinCancelled, ContainedEnter,
       ContainedLeave, Panic, ExitProcess, JoinEnter
  <2> QED BY <2>1, TokenStutter DEF View
<1> QED BY <1>1, <1>2, <1>3, <1>4, <1>5 DEF FiberStep

\* The end of a fiber wakes its joiner and whoever waits for any child of the
\* group, who are two different fibers.
LEMMA TokenEnd ==
    ASSUME CoreInv, HandleInv, NEW h \in Fibers \union {None}, SettleFinish(h)
    PROVE  TokenStep
<1>0. TypeOK /\ WorkerInv
  BY DEF CoreInv
<1>f. PICK f \in Fibers : f = settling
  BY <1>0 DEF SettleFinish, WorkerInv
<1> DEFINE j == joiner[f]
           W == {h, j} \ {None}
<1>1. f \in Fibers /\ state[f] = "PARKING" /\ at[f] = "code"
  BY <1>0, <1>f DEF SettleFinish, WorkerInv, HandleInv, SleeperNamed
<1>2. h # None => at[h] = "parked"
  BY DEF SettleFinish
<1>3. j # None => at[j] = "join"
  BY <1>1 DEF HandleInv, JoinerJoins
<1>4. W \in SUBSET (Fibers \ {f}) /\ (h = j => h = None)
  BY <1>0, <1>1, <1>2, <1>3 DEF TypeOK
<1>5. EndAndWake(f, h, j)
  BY <1>f DEF SettleFinish
<1>6. View' = [g \in Fibers |-> CASE g = f -> "ended"
                                  [] g \in W /\ View[g] = "blocked" -> "ready"
                                  [] OTHER -> View[g]]
  <2>1. \A g \in Fibers : state'[g] = CASE g = f -> "DONE"
                                        [] g \in W /\ state[g] = "PARKED" -> "READY"
                                        [] OTHER -> state[g]
    BY <1>4, <1>5, ConstantsAssumption DEF EndAndWake
  <2> HIDE DEF W
  <2> QED BY <1>0, <2>1 DEF View, TypeOK, States
<1>7. pending_wake' = [g \in Fibers |-> pending_wake[g] \/ (g \in W /\ View[g] \in {"ready", "run"})]
  <2>1. ASSUME NEW g \in Fibers
        PROVE  (\/ pending_wake[g]
                \/ g \in {h, j} /\ state[g] \notin {"PARKED", "DONE"}
                \/ g = h /\ g = j /\ state[g] = "PARKED")
                 <=> (pending_wake[g] \/ (g \in W /\ View[g] \in {"ready", "run"}))
    <3>1. View[g] \in {"ready", "run"} <=> state[g] \notin {"PARKED", "DONE"}
      BY <1>0 DEF View, TypeOK, States
    <3>2. g \in {h, j} <=> g \in W
      BY ConstantsAssumption
    <3>3. ~(g = h /\ g = j)
      BY <1>4, ConstantsAssumption
    <3> QED BY <3>1, <3>2, <3>3
  <2> HIDE DEF W, j
  <2>2. pending_wake' = [g \in Fibers |->
                           \/ pending_wake[g]
                           \/ g \in {h, j} /\ state[g] \notin {"PARKED", "DONE"}
                           \/ g = h /\ g = j /\ state[g] = "PARKED"]
    BY <1>5 DEF EndAndWake
  <2> QED BY <2>1, <2>2, Zenon
<1>8. View[f] = "run"
  BY <1>1 DEF View
<1> HIDE DEF W
<1>9. Token!End(f)
  BY <1>4, <1>6, <1>7, <1>8 DEF Token!End, View
<1> QED BY <1>1, <1>9, TokenOne

\* What the scheduler does.
LEMMA TokenSchedulerStep ==
    ASSUME CoreInv, HandleInv, TokenInv, resumes = 0, SchedulerStep
    PROVE  TokenStep
<1>0. TypeOK /\ WorkerInv /\ ReadyIsQueued
  BY DEF CoreInv
<1>1. CASE SettlePark
  <2>1. CASE pending_wake[settling]
    <3>1. PICK g \in Fibers : g = settling
      BY <1>0, <1>1 DEF SettlePark, WorkerInv
    <3>2. /\ state[g] = "PARKING" /\ pending_wake[g]
          /\ state' = [state EXCEPT ![g] = "READY"]
          /\ pending_wake' = [pending_wake EXCEPT ![g] = FALSE]
      BY <1>0, <1>1, <2>1, <3>1 DEF SettlePark, WorkerInv
    <3>3. View[g] = "run" /\ View' = [View EXCEPT ![g] = "ready"]
      BY <1>0, <3>2 DEF View, TypeOK, States
    <3>4. Token!Take(g)
      BY <3>2, <3>3 DEF View, Token!Take
    <3> QED BY <3>4, TokenOne
  <2>2. CASE ~pending_wake[settling]
    BY <1>1, <2>2, TokenStutter DEF SettlePark, View
  <2> QED BY <2>1, <2>2
<1>2. CASE Publish
  <2>1. PICK g \in Fibers : g = settling
    BY <1>0, <1>2 DEF Publish, WorkerInv
  <2>2. /\ state[g] = "PARKING" /\ ~pending_wake[g]
        /\ state' = [state EXCEPT ![g] = "PARKED"] /\ pending_wake' = pending_wake
    BY <1>0, <1>2, <2>1 DEF Publish, WorkerInv, TokenInv
  <2>3. View[g] = "run" /\ View' = [View EXCEPT ![g] = "blocked"]
    BY <1>0, <2>2 DEF View, TypeOK, States
  <2>4. Token!Block(g)
    BY <2>2, <2>3 DEF View, Token!Block
  <2> QED BY <2>4, TokenOne
<1>3. CASE SettleYield
  <2>1. PICK g \in Fibers : g = settling
    BY <1>0, <1>3 DEF SettleYield, WorkerInv
  <2>2. /\ state[g] = "PARKING"
        /\ state' = [state EXCEPT ![g] = "READY"] /\ pending_wake' = pending_wake
    BY <1>0, <1>3, <2>1 DEF SettleYield, WorkerInv
  <2>3. View[g] = "run" /\ View' = [View EXCEPT ![g] = "ready"]
    BY <1>0, <2>2 DEF View, TypeOK, States
  <2>4. Token!Yield(g)
    BY <2>2, <2>3 DEF View, Token!Yield
  <2> QED BY <2>4, TokenOne
<1>4. CASE Dispatch
  <2>1. PICK r \in Fibers : r = Head(ready) /\ r \in Range(ready)
    <3>1. ready \in Seq(Fibers) /\ ready # <<>> /\ IsInjective(ready)
      BY <1>0, <1>4 DEF Dispatch, TypeOK, CoreInv, LinkedOnce
    <3> QED BY <3>1, PopLemma
  <2>2. state[r] = "READY" /\ state' = [state EXCEPT ![r] = "RUNNING"] /\ pending_wake' = pending_wake
    BY <1>0, <1>4, <2>1 DEF Dispatch, ReadyIsQueued
  <2>3. View[r] = "ready" /\ View' = [View EXCEPT ![r] = "run"]
    BY <1>0, <2>1, <2>2 DEF View, TypeOK, States
  <2>4. Token!Run(r)
    BY <2>1, <2>2, <2>3 DEF View, Token!Run
  <2> QED BY <2>4, TokenOne
<1>5. CASE Drain \/ IdleWait
  BY <1>5, TokenStutter DEF Drain, IdleWait, View
<1> QED BY <1>1, <1>2, <1>3, <1>4, <1>5, TokenEnd DEF SchedulerStep

\* beans_fiber.h's park and resume: for any number of fibers, every step of the
\* scheduler is a step of the wake token or leaves it alone, as long as no foreign
\* thread has resumed; no wake is lost, none is answered twice.
THEOREM TokenCorrect == Spec => TokenSpec
<1>1. Init => TokenInv
  BY DEF Init, TokenInv
<1>2. Init => Token!Init
  <2> SUFFICES ASSUME Init PROVE Token!Init
    OBVIOUS
  <2>1. View = [f \in Fibers |-> IF f = Root THEN "run" ELSE "ended"]
    BY DEF Init, View
  <2>2. pending_wake = [f \in Fibers |-> FALSE] /\ Root \in Fibers
    BY ConstantsAssumption DEF Init
  <2> QED BY <2>1, <2>2 DEF Token!Init, View
<1>3. CoreInv /\ TokenInv /\ [Next]_vars => TokenInv'
  BY TokenInvStep
<1>4. CoreInv /\ HandleInv /\ LiveCount /\ TokenInv /\ TokenInv' /\ [Next]_vars
        => [resumes' = 0 => TokenStep]_vars
  <2> SUFFICES ASSUME CoreInv, HandleInv, LiveCount, TokenInv, TokenInv', Next, resumes' = 0
               PROVE  TokenStep
    OBVIOUS
  <2>1. ASSUME NEW f \in Fibers, FiberStep(f) PROVE TokenStep
    BY <2>1, TokenFiberStep
  <2>2. ASSUME SchedulerStep PROVE TokenStep
    <3>1. resumes = 0
      BY <2>2 DEF SchedulerStep, SettlePark, Publish, SettleYield, SettleFinish, Drain, Dispatch,
         IdleWait, foreign
    <3> QED BY <2>2, <3>1, TokenSchedulerStep
  <2>3. ASSUME NEW t \in Threads, ResumeStep(t) PROVE FALSE
    <3>1. resumes' = resumes /\ rpc[t] # "idle"
      BY <2>3 DEF ResumeStep, ResumeLoad, ResumeCas, ResumePost, ResumeLatch, ResumeRecheck
    <3> QED BY <3>1 DEF TokenInv
  <2>4. ASSUME NEW t \in Threads, NEW f \in Fibers, ResumeCall(t, f) PROVE FALSE
    BY <2>4 DEF ResumeCall, CoreInv, TypeOK
  <2> QED BY <2>1, <2>2, <2>3, <2>4 DEF Next
<1> QED BY <1>1, <1>2, <1>3, <1>4, CoreCorrect, HandleCorrect, LiveCountCorrect, PTL
        DEF Spec, TokenSpec
=============================================================================
