---------------------------- MODULE Joins_proofs ----------------------------
(***************************************************************************)
(* Proofs about ThreadJoin and TaskGroup: the handle of an OS thread is    *)
(* kept for every set of callers that join it, detach it or are cancelled  *)
(* in a join; a group keeps its children, however many, and their outcomes *)
(* whatever interrupts its owner.                                          *)
(***************************************************************************)
EXTENDS ThreadJoin, TaskGroup, QueueLemmas

-----------------------------------------------------------------------------
(* ThreadJoin.                                                             *)

\* The one thing asked of the constants: the null waiter is no caller.
NobodyIsNoCaller == Nobody \notin Joiners

\* The callers that own the reservation, and those registered as the waiter.
Owns(j)    == pc[j] \notin {"body", "panicked", "unwound"}
Waiting(j) == pc[j] \in {"test", "park", "parked", "ready", "retest", "clear"}

\* The OS thread's place decides done, its count and what the result can be.
ThreadInv ==
    /\ done <=> tpc \notin {"unborn", "run"}
    /\ cc_threads = IF tpc \in {"unborn", "exited"} THEN 0 ELSE 1
    /\ tpc = "unborn" => \A j \in Joiners : pc[j] = "body"
    /\ tpc \in {"unborn", "run"} => result = "none"
    /\ result = "moved" <=> \E j \in Joiners : pc[j] = "got"
    /\ tpc # "exited" => \A j \in Joiners : pc[j] # "got"

\* The references that are held while nobody has dropped the handle.
Full == IF tpc \in {"run", "swap", "resume", "release"} THEN 2 ELSE 1

\* The handle is dropped only when every caller has come out of its call.
RefsInv ==
    /\ refs = Full \/ (refs = Full - 1 /\ tpc # "unborn" /\ \A j \in Joiners : pc[j] \in Ended)
    /\ freed <=> refs = 0

\* The reservation has exactly one owner.
OwnerInv ==
    /\ joined <=> \E j \in Joiners : Owns(j)
    /\ \A i, j \in Joiners : Owns(i) /\ Owns(j) => i = j

\* A waiter is registered until the ending thread takes it out of the handle,
\* which then owes it the wake, and whoever is still on its way into the park
\* when the wake has come holds the token.
WaiterInv ==
    \A j \in Joiners :
      /\ Waiting(j) /\ tpc \in {"run", "swap"} => join_waiter = j
      /\ pc[j] = "parked" => tpc \in {"run", "swap"} \/ (tpc = "resume" /\ held = j)
      /\ pc[j] = "park" => \/ tpc \in {"run", "swap"}
                           \/ tpc = "resume" /\ held = j
                           \/ token[j]

HandleInv == TypeOK /\ ThreadInv /\ RefsInv /\ OwnerInv /\ WaiterInv

LEMMA InitHandle == Init => HandleInv
<1> SUFFICES ASSUME Init PROVE HandleInv
  OBVIOUS
<1>1. TypeOK
  <2>1. /\ pc \in [Joiners -> {"body", "test", "park", "parked", "ready", "retest",
                           "clear", "reap", "pjoin", "got", "detached", "panicked", "unwound"}]
        /\ token \in [Joiners -> BOOLEAN] /\ flag \in [Joiners -> BOOLEAN]
    BY DEF Init
  <2>2. refs \in 0..2 /\ cc_threads \in 0..1
    BY DEF Init
  <2>3. /\ promoted \in BOOLEAN /\ done \in BOOLEAN /\ joined \in BOOLEAN /\ freed \in BOOLEAN
        /\ tpc = "unborn" /\ result = "none" /\ join_waiter = Nobody /\ held = Nobody
    BY DEF Init
  <2> QED BY <2>1, <2>2, <2>3 DEF TypeOK
<1>2. ThreadInv /\ RefsInv
  BY DEF Init, ThreadInv, RefsInv, Full
<1>3. OwnerInv /\ WaiterInv
  BY DEF Init, OwnerInv, WaiterInv, Owns, Waiting
<1> QED BY <1>1, <1>2, <1>3 DEF HandleInv

\* The steps of the OS thread and of whoever drops the handle.
LEMMA ThreadSideStep ==
    ASSUME NobodyIsNoCaller, HandleInv, Spawn \/ ThreadStep \/ DropHandle
    PROVE  HandleInv'
<1> USE DEF HandleInv, NobodyIsNoCaller
<1>1. CASE Spawn
  <2>1. TypeOK'
    BY <1>1 DEF Spawn, SpawnRefs, TypeOK, ThreadInv, RefsInv, Full
  <2>2. ThreadInv'
    BY <1>1 DEF Spawn, SpawnRefs, TypeOK, ThreadInv
  <2>3. RefsInv'
    BY <1>1 DEF Spawn, SpawnRefs, TypeOK, RefsInv, Full, ThreadInv, Ended
  <2>4. OwnerInv'
    BY <1>1 DEF Spawn, SpawnRefs, TypeOK, OwnerInv, Owns, Ended
  <2>5. WaiterInv'
    BY <1>1 DEF Spawn, SpawnRefs, TypeOK, WaiterInv, Waiting, ThreadInv, Ended
  <2> QED BY <2>1, <2>2, <2>3, <2>4, <2>5
<1>2. CASE ThreadDone
  <2>1. TypeOK'
    BY <1>2 DEF ThreadDone, TypeOK, ThreadInv, RefsInv, Full
  <2>2. ThreadInv'
    BY <1>2 DEF ThreadDone, TypeOK, ThreadInv
  <2>3. RefsInv'
    BY <1>2 DEF ThreadDone, TypeOK, RefsInv, Full, ThreadInv, Ended
  <2>4. OwnerInv'
    BY <1>2 DEF ThreadDone, TypeOK, OwnerInv, Owns, Ended
  <2>5. WaiterInv'
    BY <1>2 DEF ThreadDone, TypeOK, WaiterInv, Waiting, ThreadInv, Ended
  <2> QED BY <2>1, <2>2, <2>3, <2>4, <2>5
<1>3. CASE ThreadSwap
  <2>1. TypeOK'
    BY <1>3 DEF ThreadSwap, TypeOK, ThreadInv, RefsInv, Full
  <2>2. ThreadInv'
    BY <1>3 DEF ThreadSwap, TypeOK, ThreadInv
  <2>3. RefsInv'
    BY <1>3 DEF ThreadSwap, TypeOK, RefsInv, Full, ThreadInv, Ended
  <2>4. OwnerInv'
    BY <1>3 DEF ThreadSwap, TypeOK, OwnerInv, Owns, Ended
  <2>5. WaiterInv'
    BY <1>3 DEF ThreadSwap, TypeOK, WaiterInv, Waiting, ThreadInv, Ended
  <2> QED BY <2>1, <2>2, <2>3, <2>4, <2>5
<1>4. CASE ThreadResume
  <2>1. TypeOK'
    BY <1>4 DEF ThreadResume, handle, TypeOK, ThreadInv, RefsInv, Full
  <2>2. ThreadInv'
    BY <1>4 DEF ThreadResume, handle, TypeOK, ThreadInv
  <2>3. RefsInv'
    BY <1>4 DEF ThreadResume, handle, TypeOK, RefsInv, Full, ThreadInv, Ended
  <2>4. OwnerInv'
    BY <1>4 DEF ThreadResume, handle, TypeOK, OwnerInv, Owns, Ended
  <2>5. WaiterInv'
    BY <1>4 DEF ThreadResume, handle, TypeOK, WaiterInv, Waiting, ThreadInv, Ended
  <2> QED BY <2>1, <2>2, <2>3, <2>4, <2>5
<1>5. CASE ThreadRelease
  <2>1. TypeOK'
    BY <1>5 DEF ThreadRelease, Release, Leave, TypeOK, ThreadInv, RefsInv, Full
  <2>2. ThreadInv'
    BY <1>5 DEF ThreadRelease, Release, Leave, TypeOK, ThreadInv
  <2>3. RefsInv'
    <3>1. /\ tpc = "release" /\ tpc' = "end" /\ refs' = refs - 1 /\ freed' = (refs = 1)
          /\ pc' = pc /\ refs \in 0..2
      BY <1>5 DEF ThreadRelease, Release, Leave, TypeOK
    <3>2. refs = 2 \/ (refs = 1 /\ \A j \in Joiners : pc[j] \in Ended)
      BY <3>1 DEF RefsInv, Full
    <3>3. freed' <=> refs' = 0
      <4>1. freed' <=> refs = 1
        BY <3>1, Zenon
      <4>2. refs = 1 <=> refs' = 0
        <5>1. refs' = refs - 1 /\ refs \in 0..2
          BY <3>1
        <5> QED BY <5>1
      <4> QED BY <4>1, <4>2, Zenon
    <3>4. refs' = 1 \/ (refs' = 0 /\ \A j \in Joiners : pc'[j] \in Ended)
      BY <3>1, <3>2
    <3> QED BY <3>1, <3>3, <3>4 DEF RefsInv, Full
  <2>4. OwnerInv'
    BY <1>5 DEF ThreadRelease, Release, Leave, TypeOK, OwnerInv, Owns, Ended
  <2>5. WaiterInv'
    BY <1>5 DEF ThreadRelease, Release, Leave, TypeOK, WaiterInv, Waiting, ThreadInv, Ended
  <2> QED BY <2>1, <2>2, <2>3, <2>4, <2>5
<1>6. CASE ThreadEnd
  <2>1. TypeOK'
    BY <1>6 DEF ThreadEnd, handle, TypeOK, ThreadInv, RefsInv, Full
  <2>2. ThreadInv'
    BY <1>6 DEF ThreadEnd, handle, TypeOK, ThreadInv
  <2>3. RefsInv'
    BY <1>6 DEF ThreadEnd, handle, TypeOK, RefsInv, Full, ThreadInv, Ended
  <2>4. OwnerInv'
    BY <1>6 DEF ThreadEnd, handle, TypeOK, OwnerInv, Owns, Ended
  <2>5. WaiterInv'
    BY <1>6 DEF ThreadEnd, handle, TypeOK, WaiterInv, Waiting, ThreadInv, Ended
  <2> QED BY <2>1, <2>2, <2>3, <2>4, <2>5
<1>7. CASE DropHandle
  <2>1. TypeOK'
    BY <1>7 DEF DropHandle, Release, thread, TypeOK, ThreadInv, RefsInv, Full
  <2>2. ThreadInv'
    BY <1>7 DEF DropHandle, Release, thread, TypeOK, ThreadInv
  <2>3. RefsInv'
    BY <1>7 DEF DropHandle, Release, thread, TypeOK, RefsInv, Full, ThreadInv, Ended
  <2>4. OwnerInv'
    BY <1>7 DEF DropHandle, Release, thread, TypeOK, OwnerInv, Owns, Ended
  <2>5. WaiterInv'
    BY <1>7 DEF DropHandle, Release, thread, TypeOK, WaiterInv, Waiting, ThreadInv, Ended
  <2> QED BY <2>1, <2>2, <2>3, <2>4, <2>5
<1> QED BY <1>1, <1>2, <1>3, <1>4, <1>5, <1>6, <1>7 DEF ThreadStep

\* The steps of one caller.
LEMMA CallerStep ==
    ASSUME NobodyIsNoCaller, HandleInv, NEW j \in Joiners,
           JoinStep(j) \/ Join(j) \/ Detach(j) \/ Cancel(j)
    PROVE  HandleInv'
<1> USE DEF HandleInv, NobodyIsNoCaller, At
<1>1. CASE Test(j)
  <2>1. TypeOK'
    BY <1>1 DEF Test, thread, handle, TypeOK
  <2>2. ThreadInv'
    BY <1>1 DEF Test, thread, handle, TypeOK, ThreadInv, OwnerInv, Owns
  <2>3. RefsInv'
    BY <1>1 DEF Test, thread, handle, TypeOK, RefsInv, Full, Ended
  <2>4. OwnerInv'
    BY <1>1 DEF Test, thread, handle, TypeOK, OwnerInv, Owns
  <2>5. WaiterInv'
    BY <1>1 DEF Test, thread, handle, TypeOK, WaiterInv, Waiting, ThreadInv, OwnerInv, Owns
  <2> QED BY <2>1, <2>2, <2>3, <2>4, <2>5
<1>2. CASE Park(j)
  <2>1. TypeOK'
    BY <1>2 DEF Park, thread, handle, TypeOK
  <2>2. ThreadInv'
    BY <1>2 DEF Park, thread, handle, TypeOK, ThreadInv, OwnerInv, Owns
  <2>3. RefsInv'
    BY <1>2 DEF Park, thread, handle, TypeOK, RefsInv, Full, Ended
  <2>4. OwnerInv'
    BY <1>2 DEF Park, thread, handle, TypeOK, OwnerInv, Owns
  <2>5. WaiterInv'
    BY <1>2 DEF Park, thread, handle, TypeOK, WaiterInv, Waiting, ThreadInv, OwnerInv, Owns
  <2> QED BY <2>1, <2>2, <2>3, <2>4, <2>5
<1>3. CASE Dispatch(j)
  <2>1. TypeOK'
    BY <1>3 DEF Dispatch, thread, handle, TypeOK
  <2>2. ThreadInv'
    BY <1>3 DEF Dispatch, thread, handle, TypeOK, ThreadInv, OwnerInv, Owns
  <2>3. RefsInv'
    BY <1>3 DEF Dispatch, thread, handle, TypeOK, RefsInv, Full, Ended
  <2>4. OwnerInv'
    BY <1>3 DEF Dispatch, thread, handle, TypeOK, OwnerInv, Owns
  <2>5. WaiterInv'
    BY <1>3 DEF Dispatch, thread, handle, TypeOK, WaiterInv, Waiting, ThreadInv, OwnerInv, Owns
  <2> QED BY <2>1, <2>2, <2>3, <2>4, <2>5
<1>4. CASE Retest(j)
  <2>1. TypeOK'
    BY <1>4 DEF Retest, RetestTo, thread, handle, TypeOK
  <2>2. ThreadInv'
    BY <1>4 DEF Retest, RetestTo, thread, handle, TypeOK, ThreadInv, OwnerInv, Owns
  <2>3. RefsInv'
    BY <1>4 DEF Retest, RetestTo, thread, handle, TypeOK, RefsInv, Full, Ended
  <2>4. OwnerInv'
    BY <1>4 DEF Retest, RetestTo, thread, handle, TypeOK, OwnerInv, Owns
  <2>5. WaiterInv'
    BY <1>4 DEF Retest, RetestTo, thread, handle, TypeOK, WaiterInv, Waiting, ThreadInv, OwnerInv, Owns
  <2> QED BY <2>1, <2>2, <2>3, <2>4, <2>5
<1>5. CASE Clear(j)
  <2>1. TypeOK'
    BY <1>5 DEF Clear, ReservationReleased, thread, TypeOK
  <2>2. ThreadInv'
    BY <1>5 DEF Clear, ReservationReleased, thread, TypeOK, ThreadInv, OwnerInv, Owns
  <2>3. RefsInv'
    BY <1>5 DEF Clear, ReservationReleased, thread, TypeOK, RefsInv, Full, Ended
  <2>4. OwnerInv'
    BY <1>5 DEF Clear, ReservationReleased, thread, TypeOK, OwnerInv, Owns
  <2>5. WaiterInv'
    BY <1>5 DEF Clear, ReservationReleased, thread, TypeOK, WaiterInv, Waiting, ThreadInv, OwnerInv, Owns
  <2> QED BY <2>1, <2>2, <2>3, <2>4, <2>5
<1>6. CASE Reap(j)
  <2>1. TypeOK'
    BY <1>6 DEF Reap, thread, TypeOK
  <2>2. ThreadInv'
    BY <1>6 DEF Reap, thread, TypeOK, ThreadInv, OwnerInv, Owns
  <2>3. RefsInv'
    BY <1>6 DEF Reap, thread, TypeOK, RefsInv, Full, Ended
  <2>4. OwnerInv'
    BY <1>6 DEF Reap, thread, TypeOK, OwnerInv, Owns
  <2>5. WaiterInv'
    BY <1>6 DEF Reap, thread, TypeOK, WaiterInv, Waiting, ThreadInv, OwnerInv, Owns
  <2> QED BY <2>1, <2>2, <2>3, <2>4, <2>5
<1>7. CASE Take(j)
  <2>1. TypeOK'
    BY <1>7 DEF Take, thread, TypeOK
  <2>2. ThreadInv'
    BY <1>7 DEF Take, thread, TypeOK, ThreadInv, OwnerInv, Owns
  <2>3. RefsInv'
    BY <1>7 DEF Take, thread, TypeOK, RefsInv, Full, Ended
  <2>4. OwnerInv'
    BY <1>7 DEF Take, thread, TypeOK, OwnerInv, Owns
  <2>5. WaiterInv'
    BY <1>7 DEF Take, thread, TypeOK, WaiterInv, Waiting, ThreadInv, OwnerInv, Owns
  <2> QED BY <2>1, <2>2, <2>3, <2>4, <2>5
<1>8. CASE Join(j)
  <2>1. TypeOK'
    BY <1>8 DEF Join, Register, Reserve, Caller, thread, TypeOK
  <2>2. ThreadInv'
    BY <1>8 DEF Join, Register, Reserve, Caller, thread, TypeOK, ThreadInv, OwnerInv, Owns
  <2>3. RefsInv'
    BY <1>8 DEF Join, Register, Reserve, Caller, thread, TypeOK, RefsInv, Full, Ended
  <2>4. OwnerInv'
    BY <1>8 DEF Join, Register, Reserve, Caller, thread, TypeOK, OwnerInv, Owns
  <2>5. WaiterInv'
    BY <1>8 DEF Join, Register, Reserve, Caller, thread, TypeOK, WaiterInv, Waiting, ThreadInv, OwnerInv, Owns
  <2> QED BY <2>1, <2>2, <2>3, <2>4, <2>5
<1>9. CASE Detach(j)
  <2>1. TypeOK'
    BY <1>9 DEF Detach, Caller, thread, TypeOK
  <2>2. ThreadInv'
    BY <1>9 DEF Detach, Caller, thread, TypeOK, ThreadInv, OwnerInv, Owns
  <2>3. RefsInv'
    BY <1>9 DEF Detach, Caller, thread, TypeOK, RefsInv, Full, Ended
  <2>4. OwnerInv'
    BY <1>9 DEF Detach, Caller, thread, TypeOK, OwnerInv, Owns
  <2>5. WaiterInv'
    BY <1>9 DEF Detach, Caller, thread, TypeOK, WaiterInv, Waiting, ThreadInv, OwnerInv, Owns
  <2> QED BY <2>1, <2>2, <2>3, <2>4, <2>5
<1>10. CASE Cancel(j)
  <2>1. TypeOK'
    BY <1>10 DEF Cancel, thread, handle, TypeOK
  <2>2. ThreadInv'
    BY <1>10 DEF Cancel, thread, handle, TypeOK, ThreadInv, OwnerInv, Owns
  <2>3. RefsInv'
    BY <1>10 DEF Cancel, thread, handle, TypeOK, RefsInv, Full, Ended
  <2>4. OwnerInv'
    BY <1>10 DEF Cancel, thread, handle, TypeOK, OwnerInv, Owns
  <2>5. WaiterInv'
    BY <1>10 DEF Cancel, thread, handle, TypeOK, WaiterInv, Waiting, ThreadInv, OwnerInv, Owns
  <2> QED BY <2>1, <2>2, <2>3, <2>4, <2>5
<1> QED BY <1>1, <1>2, <1>3, <1>4, <1>5, <1>6, <1>7, <1>8, <1>9, <1>10 DEF JoinStep

LEMMA HandleStep == ASSUME NobodyIsNoCaller PROVE HandleInv /\ [Next]_vars => HandleInv'
<1> SUFFICES ASSUME HandleInv, [Next]_vars PROVE HandleInv'
  OBVIOUS
<1>1. CASE UNCHANGED vars
  BY <1>1 DEF vars, thread, handle, HandleInv, TypeOK, ThreadInv, RefsInv, Full, OwnerInv, Owns,
              WaiterInv, Waiting
<1> QED BY <1>1, ThreadSideStep, CallerStep DEF Next

\* What the reader cares about follows from the inductive invariant.
LEMMA HandleImplies == HandleInv => HandleKept
<1> SUFFICES ASSUME HandleInv PROVE HandleKept
  OBVIOUS
<1>1. HandleAlive
  BY DEF HandleInv, TypeOK, RefsInv, Full, HandleAlive, Ended
<1>2. JoinerNotStranded
  BY DEF HandleInv, WaiterInv, JoinerNotStranded
<1>3. ResultTakenOnce
  <2>1. Cardinality({j \in Joiners : pc[j] = "got"}) <= 1
    <3>1. CASE \E j \in Joiners : pc[j] = "got"
      <4>1. PICK j \in Joiners : pc[j] = "got"
        BY <3>1
      <4>2. {i \in Joiners : pc[i] = "got"} = {j}
        BY <4>1 DEF HandleInv, OwnerInv, Owns
      <4> QED BY <4>2, FS_Singleton
    <3>2. CASE ~\E j \in Joiners : pc[j] = "got"
      <4>1. {i \in Joiners : pc[i] = "got"} = {}
        BY <3>2
      <4> QED BY <4>1, FS_EmptySet
    <3> QED BY <3>1, <3>2
  <2> QED BY <2>1 DEF HandleInv, ThreadInv, ResultTakenOnce
<1>4. ReservationHasOwner
  BY DEF HandleInv, OwnerInv, Owns, ReservationHasOwner
<1>5. CollectorHeldOff
  BY DEF HandleInv, ThreadInv, CollectorHeldOff
<1> QED BY <1>1, <1>2, <1>3, <1>4, <1>5 DEF HandleKept, HandleInv

\* thread_main, beans_thread_join and beans_thread_detach keep the handle, however
\* many callers share it: nobody touches it freed, nobody is left parked once the
\* thread is done, the result has one taker, the reservation one owner and the
\* collector waits for the thread.
THEOREM HandleCorrect == ASSUME NobodyIsNoCaller PROVE Spec => []HandleKept
<1>1. Init => HandleInv
  BY InitHandle
<1>2. HandleInv /\ [Next]_vars => HandleInv'
  BY HandleStep
<1>3. HandleInv => HandleKept
  BY HandleImplies
<1> QED BY <1>1, <1>2, <1>3, PTL DEF Spec

\* A cancelled joiner whose thread was done at the second look never gives up:
\* it goes on to take the result (thread_join_park).
THEOREM DoneBeatsCancelCorrect == ASSUME NobodyIsNoCaller PROVE Spec => DoneBeatsCancel
<1>1. HandleInv /\ [Next]_vars => [DoneWins]_vars
  <2> SUFFICES ASSUME TypeOK, Next, NEW j \in Joiners, pc[j] = "retest", done
               PROVE  pc'[j] \in {"retest", "reap"}
    BY DEF HandleInv, DoneWins
  <2>1. CASE Spawn \/ ThreadStep \/ DropHandle
    BY <2>1 DEF TypeOK, Spawn, ThreadStep, ThreadDone, ThreadSwap, ThreadResume, ThreadRelease,
                ThreadEnd, DropHandle
  <2>2. ASSUME NEW i \in Joiners, JoinStep(i) PROVE pc'[j] \in {"retest", "reap"}
    BY <2>2 DEF TypeOK, JoinStep, Test, Park, Dispatch, Retest, RetestTo, Clear, Reap, Take, At
  <2>3. ASSUME NEW i \in Joiners, Join(i) \/ Detach(i) \/ Cancel(i)
        PROVE  pc'[j] \in {"retest", "reap"}
    BY <2>3 DEF TypeOK, Join, Register, Detach, Cancel, At
  <2> QED BY <2>1, <2>2, <2>3 DEF Next
<1>2. Init => HandleInv
  BY InitHandle
<1>3. HandleInv /\ [Next]_vars => HandleInv'
  BY HandleStep
<1> QED BY <1>1, <1>2, <1>3, PTL DEF Spec, DoneBeatsCancel

-----------------------------------------------------------------------------
(* TaskGroup.                                                              *)

\* The children that ended, and the empty slots of the list.
Over == {k \in Kids : ending[k] \in Endings}
Holes == {i \in DOMAIN children : children[i] = NoKid}

\* The clock counts the children that ended, and no two have one stamp.
ClockInv ==
    /\ clock = Cardinality(Over)
    /\ \A k \in Kids : stamp[k] # 0 <=> k \in Over
    /\ \A j, k \in Over : stamp[j] = stamp[k] => j = k

\* A child has one row at most, and every other slot was delivered.
ListInv ==
    /\ \A i, j \in DOMAIN children : children[i] = children[j] /\ children[i] # NoKid => i = j
    /\ delivered = Cardinality(Holes)

\* A child has its row from brew on until its outcome has left the group.
RowInv ==
    \A k \in Kids :
      /\ ending[k] = "fresh" => k \notin Rows /\ ~kidJoined[k] /\ outcome[k] = "none"
      /\ ending[k] = "running" => k \in Rows /\ ~kidJoined[k]
      /\ k \in Over => k \in Rows \/ outcome[k] # "none"

\* What was handed out ended before anything that is still there.
OrderInv ==
    \A i \in DOMAIN got :
      /\ stamp[got[i]] # 0
      /\ \A k \in Done : stamp[got[i]] < stamp[k]

\* Where the owner stands: how it sleeps, and which rows it may have joined.
PlaceInv ==
    /\ opc \in {"gone", "dead"} => st = "running"
    /\ opc \notin {"scope", "gone", "dead"} => unwind = "NONE"
    /\ opc \notin {"cancel", "scope", "gone", "dead"} => \A k \in Rows : ~kidJoined[k]
    /\ opc = "cancel" => \A k \in Rows : asked[k]
    /\ st = "parked" => \/ opc \in {"next", "waitall"} /\ waiter
                        \/ opc \in {"cancel", "scope"} /\ Unjoined # {} /\ joiner = NextJoin

\* Only scope exit drops, and it meets no joined panic that no cancellation
\* explains.
PanicInv ==
    /\ opc # "gone" => \A k \in Kids : outcome[k] # "dropped"
    /\ opc = "scope" => \A k \in Rows : kidJoined[k] /\ ending[k] = "PANICKED" /\ outcome[k] = "none"
                           => unwind = "CANCELLED" /\ asked[k]

RowsInv == ClockInv /\ ListInv /\ RowInv /\ OrderInv /\ CompletionOrder

GroupInv == /\ GroupTypeOK /\ RowsInv /\ PlaceInv /\ PanicInv
            /\ GroupOutlivesChildren /\ NotAsleepOverDone /\ PanicNotSwallowed

-----------------------------------------------------------------------------
(* Rows and stamps.                                                        *)

LEMMA RowsLemma ==
    ASSUME GroupTypeOK
    PROVE  /\ Rows \subseteq Kids /\ Done \subseteq Rows
           /\ \A k \in Kids : k \in Rows <=> \E i \in DOMAIN children : children[i] = k
           /\ DOMAIN children = 1..Len(children) /\ Len(children) \in Nat
           /\ \A i \in DOMAIN children : children[i] \in Kids \union {NoKid}
           /\ \A i \in DOMAIN children : children[i] \in Rows <=> children[i] # NoKid
<1>1. DOMAIN children = 1..Len(children) /\ Len(children) \in Nat
  BY DEF GroupTypeOK
<1>2. \A i \in DOMAIN children : children[i] \in Kids \union {NoKid}
  BY <1>1 DEF GroupTypeOK
<1>3. \A k : k \in Range(children) <=> \E i \in DOMAIN children : children[i] = k
  BY DEF Range
<1> QED BY <1>1, <1>2, <1>3, KidsAssumption DEF Rows, Done

LEMMA LeastOf ==
    ASSUME NEW T \in SUBSET Nat, T # {}
    PROVE  Min(T) \in T /\ \A y \in T : Min(T) <= y
<1>1. PICK x \in T : \A y \in T : x <= y
  BY LeastLemma
<1> QED BY <1>1 DEF Min

\* taskgroup_pick_done finds a row, and it is the one that ended first.
LEMMA PickLemma ==
    ASSUME GroupTypeOK, ClockInv, Done # {}
    PROVE  /\ PickDone \in Done
           /\ \A k \in Done \ {PickDone} : stamp[PickDone] < stamp[k]
<1> DEFINE T == {stamp[k] : k \in Done}
<1>0. Done \subseteq Kids /\ \A k \in Done : stamp[k] \in Nat /\ k \in Over
  BY RowsLemma DEF GroupTypeOK, ClockInv, Done
<1>1. T \in SUBSET Nat /\ T # {}
  BY <1>0
<1>2. PICK x \in T : \A y \in T : x <= y
  BY <1>1, LeastLemma, Zenon
<1>3. PICK k \in Done : \A j \in Done : stamp[k] <= stamp[j]
  BY <1>2
<1>4. PickDone \in Done /\ \A j \in Done : stamp[PickDone] <= stamp[j]
  BY <1>3, Zenon DEF PickDone
<1> QED BY <1>0, <1>4 DEF ClockInv

\* The next row to join is one.
LEMMA NextJoinLemma ==
    ASSUME GroupTypeOK, Unjoined # {}
    PROVE  NextJoin \in Rows /\ ~kidJoined[NextJoin]
<1>1. Unjoined \in SUBSET Nat
  BY RowsLemma DEF Unjoined
<1>2. Min(Unjoined) \in Unjoined
  BY <1>1, LeastOf
<1> QED BY <1>2 DEF NextJoin, Unjoined

LEMMA OverFacts ==
    /\ IsFiniteSet(Over) /\ Cardinality(Over) \in Nat
    /\ Cardinality(Over) <= Cardinality(Kids)
    /\ \A k \in Kids \ Over : Cardinality(Over \union {k}) = Cardinality(Over) + 1
                              /\ Cardinality(Over) + 1 <= Cardinality(Kids)
<1>1. Over \subseteq Kids /\ \A k \in Kids : Over \union {k} \subseteq Kids
  BY DEF Over
<1>2. IsFiniteSet(Over) /\ Cardinality(Over) \in Nat /\ Cardinality(Over) <= Cardinality(Kids)
  BY <1>1, KidsAssumption, FS_Subset, FS_CardinalityType
<1>3. ASSUME NEW k \in Kids \ Over
      PROVE  Cardinality(Over \union {k}) = Cardinality(Over) + 1
             /\ Cardinality(Over) + 1 <= Cardinality(Kids)
  <2>1. Cardinality(Over \union {k}) = Cardinality(Over) + 1
    BY <1>2, <1>3, FS_AddElement
  <2>2. Cardinality(Over \union {k}) <= Cardinality(Kids)
    BY <1>1, KidsAssumption, FS_Subset
  <2> QED BY <2>1, <2>2
<1> QED BY <1>2, <1>3

LEMMA SlotsFacts ==
    ASSUME GroupTypeOK
    PROVE  IsFiniteSet(1..Len(children)) /\ Cardinality(1..Len(children)) = Len(children)
<1>1. Len(children) \in Nat
  BY RowsLemma
<1>2. ASSUME NEW n \in Nat
      PROVE  IsFiniteSet(1..n) /\ Cardinality(1..n) = n
  BY FS_Interval
<1> QED BY <1>1, <1>2

LEMMA HolesFacts ==
    ASSUME GroupTypeOK
    PROVE  IsFiniteSet(Holes) /\ Cardinality(Holes) \in Nat /\ Cardinality(Holes) <= Len(children)
<1>1. Holes \subseteq 1..Len(children) /\ Len(children) \in Nat
  BY RowsLemma DEF Holes
<1>2. IsFiniteSet(1..Len(children)) /\ Cardinality(1..Len(children)) = Len(children)
  BY <1>1, FS_Interval
<1> QED BY <1>1, <1>2, FS_Subset, FS_CardinalityType

-----------------------------------------------------------------------------
(* What each kind of step does to the rows.                                *)

RowVars == <<children, delivered, clock, ending, stamp, kidJoined, outcome, got>>

LEMMA RowsFrame ==
    ASSUME RowsInv, UNCHANGED RowVars
    PROVE  RowsInv' /\ Rows' = Rows /\ Done' = Done /\ Unjoined' = Unjoined /\ NextJoin' = NextJoin
<1>1. Rows' = Rows /\ Done' = Done /\ Over' = Over /\ Holes' = Holes /\ Unjoined' = Unjoined
      /\ NextJoin' = NextJoin
  BY DEF RowVars, Rows, Done, Over, Holes, Unjoined, NextJoin
<1> QED BY <1>1 DEF RowVars, RowsInv, ClockInv, ListInv, RowInv, OrderInv, CompletionOrder

LEMMA BrewRows ==
    ASSUME GroupTypeOK, RowsInv, NEW k \in Kids, Brew(k)
    PROVE  /\ RowsInv' /\ GroupTypeOK'
           /\ Rows' = Rows \union {k} /\ Done' = Done
<1>0. k \notin Rows /\ ~kidJoined[k] /\ outcome[k] = "none" /\ k \notin Over /\ k # NoKid /\ stamp[k] = 0
  BY KidsAssumption DEF RowsInv, RowInv, ClockInv, Over, Brew, Endings
<1>1. /\ children' = Append(children, k) /\ Len(children') = Len(children) + 1
      /\ children' \in Seq(Kids \union {NoKid})
      /\ DOMAIN children' = DOMAIN children \union {Len(children) + 1}
      /\ Len(children) + 1 \notin DOMAIN children
      /\ \A i \in DOMAIN children : children'[i] = children[i]
      /\ children'[Len(children) + 1] = k
  BY RowsLemma DEF Brew, GroupTypeOK
<1>2. GroupTypeOK'
  BY <1>1, RowsLemma DEF GroupTypeOK, Brew, ownerState
<1>3. Rows' = Rows \union {k}
  <2>1. Range(children') = Range(children) \union {k}
    BY <1>1 DEF Range
  <2> QED BY <2>1, <1>0 DEF Rows
<1>4. Over' = Over /\ Done' = Done
  BY <1>0, <1>3 DEF Brew, Over, Endings, GroupTypeOK, Done
<1>5. Holes' = Holes
  BY <1>0, <1>1 DEF Holes
<1>6. ListInv'
  <2>1. \A i \in DOMAIN children : children[i] # k
    BY <1>0, RowsLemma
  <2> QED BY <1>1, <1>5, <2>1 DEF RowsInv, ListInv, Brew
<1>7. RowInv' /\ ClockInv'
  BY <1>0, <1>3, <1>4 DEF RowsInv, RowInv, ClockInv, Brew, GroupTypeOK, Endings
<1>8. OrderInv' /\ CompletionOrder'
  BY <1>4 DEF RowsInv, OrderInv, CompletionOrder, Brew
<1> QED BY <1>2, <1>3, <1>4, <1>6, <1>7, <1>8 DEF RowsInv

LEMMA DeliverRows ==
    ASSUME GroupTypeOK, RowsInv, Done # {}, Deliver(PickDone)
    PROVE  /\ RowsInv' /\ Rows' = Rows \ {PickDone}
           /\ children' \in Seq(Kids \union {NoKid}) /\ delivered' \in 0..Len(children')
           /\ got' \in Seq(Kids)
           /\ kidJoined' = [kidJoined EXCEPT ![PickDone] = TRUE]
           /\ outcome' = [outcome EXCEPT ![PickDone] = "given"]
<1> DEFINE k == PickDone
           cleared == [i \in DOMAIN children |-> IF children[i] = k THEN NoKid ELSE children[i]]
           drained == delivered + 1 = Len(children)
<1>0. /\ k \in Done /\ k \in Rows /\ k \in Kids /\ k # NoKid /\ k \in Over
      /\ \A j \in Done \ {k} : stamp[k] < stamp[j]
  BY PickLemma, RowsLemma, KidsAssumption DEF RowsInv, ClockInv, Done
<1> HIDE DEF k
<1>1. /\ children' = IF drained THEN <<>> ELSE cleared
      /\ delivered' = IF drained THEN 0 ELSE delivered + 1
      /\ kidJoined' = [kidJoined EXCEPT ![k] = TRUE]
      /\ outcome' = [outcome EXCEPT ![k] = "given"]
      /\ got' = Append(got, k)
      /\ UNCHANGED <<clock, ending, stamp>>
  BY DEF Deliver, RowDetach, k
<1>2. PICK p \in DOMAIN children : children[p] = k
  BY <1>0, RowsLemma
<1>3. /\ cleared \in Seq(Kids \union {NoKid}) /\ Len(cleared) = Len(children)
      /\ DOMAIN cleared = DOMAIN children
  <2>1. cleared \in [1..Len(children) -> Kids \union {NoKid}] /\ Len(children) \in Nat
    BY RowsLemma
  <2> QED BY <2>1, RowsLemma
<1>4. {i \in DOMAIN cleared : cleared[i] = NoKid} = Holes \union {p} /\ p \notin Holes
  BY <1>0, <1>2, <1>3 DEF Holes, RowsInv, ListInv
<1>5. /\ Cardinality(Holes \union {p}) = delivered + 1
      /\ Holes \union {p} \subseteq 1..Len(children)
      /\ IsFiniteSet(Holes \union {p})
      /\ delivered + 1 <= Len(children) /\ delivered \in Nat /\ Len(children) \in Nat
  <2>1. Cardinality(Holes \union {p}) = Cardinality(Holes) + 1 /\ IsFiniteSet(Holes \union {p})
    BY <1>4, HolesFacts, FS_AddElement
  <2>2. Holes \union {p} \subseteq 1..Len(children) /\ Len(children) \in Nat
    BY <1>2, RowsLemma DEF Holes
  <2>3. IsFiniteSet(1..Len(children)) /\ Cardinality(1..Len(children)) = Len(children)
    BY SlotsFacts
  <2>4. Cardinality(Holes \union {p}) <= Len(children)
    BY <2>2, <2>3, FS_Subset
  <2> QED BY <2>1, <2>2, <2>4, HolesFacts DEF RowsInv, ListInv
<1>6. Range(cleared) \ {NoKid} = Rows \ {k}
  BY <1>3, <1>0 DEF Rows, Range
<1>7. drained => Rows = {k}
  <2>1. SUFFICES ASSUME drained PROVE Rows = {k}
    OBVIOUS
  <2>2. IsFiniteSet(1..Len(children)) /\ Cardinality(1..Len(children)) = Len(children)
    BY SlotsFacts
  <2>3. Holes \union {p} = 1..Len(children)
    BY <2>1, <2>2, <1>5, FS_Subset
  <2>4. \A i \in DOMAIN children : children[i] = NoKid \/ children[i] = k
    BY <2>3, <1>2, RowsLemma DEF Holes
  <2> QED BY <2>4, <1>0, RowsLemma DEF Rows, Range
<1>8. Rows' = Rows \ {k}
  <2>1. CASE drained
    <3>1. children' = <<>> /\ DOMAIN <<>> = {}
      BY <2>1, <1>1
    <3>2. Rows' = {}
      BY <3>1 DEF Rows, Range
    <3> QED BY <2>1, <3>2, <1>7
  <2>2. CASE ~drained
    BY <2>2, <1>1, <1>6 DEF Rows
  <2> QED BY <2>1, <2>2
<1>9. ListInv'
  <2>1. CASE drained
    <3>1. children' = <<>> /\ delivered' = 0 /\ DOMAIN children' = {}
      BY <2>1, <1>1
    <3>2. Holes' = {}
      BY <3>1 DEF Holes
    <3> QED BY <3>1, <3>2, FS_EmptySet DEF ListInv
  <2>2. CASE ~drained
    <3>1. children' = cleared /\ delivered' = delivered + 1
      BY <2>2, <1>1
    <3>2. Holes' = Holes \union {p}
      BY <3>1, <1>4 DEF Holes
    <3>3. \A i, j \in DOMAIN cleared : cleared[i] = cleared[j] /\ cleared[i] # NoKid => i = j
      BY <1>3 DEF RowsInv, ListInv
    <3> QED BY <3>1, <3>2, <3>3, <1>5 DEF ListInv
  <2> QED BY <2>1, <2>2
<1>10. Over' = Over
  BY <1>1 DEF Over
<1>11. ClockInv' /\ RowInv'
  BY <1>0, <1>1, <1>8, <1>10 DEF ClockInv, RowInv, RowsInv, GroupTypeOK, Over, Endings
<1>12. /\ Done' = Done \ {k} /\ got' \in Seq(Kids)
       /\ DOMAIN got' = DOMAIN got \union {Len(got) + 1} /\ Len(got) \in Nat
       /\ DOMAIN got = 1..Len(got)
       /\ \A i \in DOMAIN got : got'[i] = got[i] /\ got[i] \in Kids
       /\ got'[Len(got) + 1] = k
  BY <1>0, <1>1, <1>8 DEF Done, GroupTypeOK
<1>13. OrderInv' /\ CompletionOrder'
  <2>1. stamp[k] # 0 /\ \A i \in DOMAIN got : stamp[got[i]] < stamp[k]
    BY <1>0 DEF RowsInv, OrderInv, Done
  <2>2. OrderInv'
    BY <1>0, <1>1, <1>12, <2>1 DEF RowsInv, OrderInv
  <2>3. CompletionOrder'
    <3> SUFFICES ASSUME NEW i \in DOMAIN got', NEW j \in DOMAIN got', i < j
                 PROVE  stamp'[got'[i]] < stamp'[got'[j]]
      BY DEF CompletionOrder
    <3>1. i \in DOMAIN got /\ (j \in DOMAIN got \/ j = Len(got) + 1)
      BY <1>12
    <3> QED BY <3>1, <1>1, <1>12, <2>1 DEF RowsInv, CompletionOrder
  <2> QED BY <2>2, <2>3
<1>14. children' \in Seq(Kids \union {NoKid}) /\ delivered' \in 0..Len(children')
  <2>1. CASE drained
    BY <2>1, <1>1
  <2>2. CASE ~drained
    <3>1. children' = cleared /\ delivered' = delivered + 1
      BY <2>2, <1>1
    <3>2. children' \in Seq(Kids \union {NoKid}) /\ Len(children') = Len(children)
      BY <3>1, <1>3
    <3> QED BY <3>1, <3>2, <1>5
  <2> QED BY <2>1, <2>2
<1> QED BY <1>1, <1>8, <1>9, <1>11, <1>12, <1>13, <1>14 DEF RowsInv, k

\* wait_all, cancel_all and scope exit let every row go at once.
LEMMA EmptyRows ==
    ASSUME GroupTypeOK, RowsInv, Emptied, Rows \subseteq Over, UNCHANGED <<clock, ending, stamp, got>>,
           \A k \in Kids : k \in Rows => outcome'[k] # "none",
           \A k \in Kids \ Rows : outcome'[k] = outcome[k] /\ kidJoined'[k] = kidJoined[k]
    PROVE  RowsInv' /\ Rows' = {} /\ Done' = {}
<1>0. children' = <<>> /\ delivered' = 0 /\ DOMAIN <<>> = {}
  BY DEF Emptied
<1>1. Rows' = {} /\ Done' = {} /\ Holes' = {}
  BY <1>0 DEF Rows, Done, Range, Holes
<1>2. Over' = Over
  BY DEF Over
<1>3. ListInv'
  BY <1>0, <1>1, FS_EmptySet DEF ListInv
<1>4. ClockInv'
  BY <1>2 DEF RowsInv, ClockInv
<1>5. RowInv'
  <2> SUFFICES ASSUME NEW k \in Kids
               PROVE  /\ ending'[k] = "fresh" => k \notin Rows' /\ ~kidJoined'[k] /\ outcome'[k] = "none"
                      /\ ending'[k] = "running" => k \in Rows' /\ ~kidJoined'[k]
                      /\ k \in Over' => k \in Rows' \/ outcome'[k] # "none"
    BY DEF RowInv
  <2>1. CASE k \in Rows
    BY <1>1, <1>2, <2>1 DEF Over, Endings
  <2>2. CASE k \notin Rows
    BY <1>1, <1>2, <2>2 DEF RowsInv, RowInv, Over
  <2> QED BY <2>1, <2>2
<1>6. OrderInv' /\ CompletionOrder'
  BY <1>1 DEF RowsInv, OrderInv, CompletionOrder
<1> QED BY <1>1, <1>3, <1>4, <1>5, <1>6 DEF RowsInv

\* The row that is joined next: its child ended, and the row stays for now.
LEMMA JoinRows ==
    ASSUME GroupTypeOK, RowsInv, Unjoined # {}, ending[NextJoin] \in Endings, JoinRow,
           outcome' = outcome \/ outcome' = [outcome EXCEPT ![NextJoin] = "escalated"]
    PROVE  RowsInv' /\ Rows' = Rows
<1>0. NextJoin \in Rows /\ NextJoin \in Kids /\ NextJoin \in Over
  BY NextJoinLemma, RowsLemma DEF Over
<1>1. UNCHANGED <<children, delivered, clock, ending, stamp, got>>
      /\ kidJoined' = [kidJoined EXCEPT ![NextJoin] = TRUE]
  BY DEF JoinRow, groupState
<1>2. Rows' = Rows /\ Done' = Done /\ Over' = Over /\ Holes' = Holes
  BY <1>1 DEF Rows, Done, Over, Holes
<1>3. RowInv'
  BY <1>0, <1>1, <1>2 DEF RowsInv, RowInv, GroupTypeOK, Over, Endings
<1>4. ClockInv' /\ ListInv' /\ OrderInv' /\ CompletionOrder'
  BY <1>1, <1>2 DEF RowsInv, ClockInv, ListInv, OrderInv, CompletionOrder
<1> QED BY <1>2, <1>3, <1>4 DEF RowsInv

\* taskgroup_child_done stamps the row.
LEMMA EndRows ==
    ASSUME GroupTypeOK, RowsInv, NEW k \in Kids, ChildEnd(k)
    PROVE  /\ RowsInv' /\ Rows' = Rows
           /\ ending' \in [Kids -> Endings \union {"fresh", "running"}]
           /\ clock' \in 0..Cardinality(Kids) /\ stamp' \in [Kids -> 0..clock']
           /\ \A j \in Kids \ {k} : ending'[j] = ending[j]
           /\ k \in Rows /\ k \in Kids \ Over
<1>0. PICK e \in Endings : ending' = [ending EXCEPT ![k] = e]
  BY DEF ChildEnd, Endings
<1>1. /\ clock' = clock + 1 /\ stamp' = [stamp EXCEPT ![k] = clock + 1]
      /\ UNCHANGED <<children, delivered, kidJoined, outcome, got>>
      /\ ending[k] = "running"
  BY DEF ChildEnd
<1>2. k \in Rows /\ k \in Kids \ Over /\ stamp[k] = 0 /\ clock \in Nat
  <2>1. k \in Rows /\ k \in Kids \ Over
    BY <1>1 DEF RowsInv, RowInv, Over, Endings
  <2>2. stamp[k] = 0
    BY <2>1 DEF RowsInv, ClockInv
  <2> QED BY <2>1, <2>2, OverFacts DEF RowsInv, ClockInv
<1>3. Rows' = Rows /\ Holes' = Holes
  BY <1>1 DEF Rows, Holes
<1>4. Over' = Over \union {k}
  BY <1>0, <1>2 DEF Over, GroupTypeOK
<1>5. /\ clock' \in 0..Cardinality(Kids)
      /\ clock' = Cardinality(Over')
  BY <1>1, <1>2, <1>4, OverFacts DEF RowsInv, ClockInv
<1>6. \A j \in Kids : stamp[j] \in Nat /\ stamp[j] <= clock
  BY <1>2 DEF GroupTypeOK
<1>7. stamp' \in [Kids -> 0..clock'] /\ stamp'[k] = clock + 1 /\ \A j \in Kids \ {k} : stamp'[j] = stamp[j]
  BY <1>1, <1>2, <1>6 DEF GroupTypeOK
<1>8. ClockInv'
  BY <1>2, <1>4, <1>5, <1>6, <1>7 DEF RowsInv, ClockInv, Over
<1>9. ListInv'
  BY <1>1, <1>3 DEF RowsInv, ListInv
<1>10. RowInv'
  BY <1>0, <1>1, <1>2, <1>3, <1>4 DEF RowsInv, RowInv, GroupTypeOK, Endings
<1>11. Done' = Done \union {k}
  BY <1>1, <1>2, <1>3, <1>7, RowsLemma DEF Done
<1>12. \A i \in DOMAIN got : got[i] \in Kids \ {k}
  BY <1>2, RowsLemma DEF GroupTypeOK, RowsInv, OrderInv
<1>13. OrderInv' /\ CompletionOrder'
  BY <1>1, <1>2, <1>6, <1>7, <1>11, <1>12, RowsLemma DEF RowsInv, OrderInv, CompletionOrder
<1>14. ending' \in [Kids -> Endings \union {"fresh", "running"}]
       /\ \A j \in Kids \ {k} : ending'[j] = ending[j]
  BY <1>0 DEF GroupTypeOK
<1> QED BY <1>2, <1>3, <1>5, <1>7, <1>8, <1>9, <1>10, <1>13, <1>14 DEF RowsInv

-----------------------------------------------------------------------------
(* The owner's steps that leave the rows alone.                            *)

\* What a step that leaves rows and outcomes alone has to keep.
OwnerTypes ==
    /\ st \in {"running", "ready", "parked"}
    /\ opc \in {"body", "next", "try", "drain", "draintry", "waitall", "cancel",
                "scope", "gone", "dead"}
    /\ otoken \in BOOLEAN /\ oflag \in BOOLEAN /\ waiter \in BOOLEAN
    /\ unwind \in {"NONE", "PANICKED", "CANCELLED"}
    /\ joiner \in Kids \union {NoKid}
    /\ asked \in [Kids -> BOOLEAN]
    /\ strays \in 0..MaxStrays

LEMMA QuietStep ==
    ASSUME GroupInv, UNCHANGED RowVars, OwnerTypes', PlaceInv', NotAsleepOverDone',
           opc \notin {"gone", "dead"}, opc' \notin {"gone", "dead"},
           opc' = "scope" => \A k \in Rows : kidJoined[k] /\ ending[k] = "PANICKED" /\ outcome[k] = "none"
                                => unwind' = "CANCELLED" /\ asked'[k]
    PROVE  GroupInv'
<1>1. GroupTypeOK'
  BY DEF GroupInv, GroupTypeOK, OwnerTypes, RowVars
<1>2. RowsInv' /\ Rows' = Rows
  BY RowsFrame DEF GroupInv
<1>3. PanicInv' /\ PanicNotSwallowed' /\ GroupOutlivesChildren'
  BY <1>2 DEF GroupInv, PanicInv, PanicNotSwallowed, GroupOutlivesChildren, RowVars
<1> QED BY <1>1, <1>2, <1>3 DEF GroupInv

LEMMA ExitStep ==
    ASSUME GroupInv, opc \notin {"gone", "dead"}, Observable, ExitCancelled
    PROVE  GroupInv'
<1>1. UNCHANGED RowVars /\ asked' = Asked /\ opc' = "scope" /\ unwind' = "CANCELLED" /\ st' = "running"
      /\ unwind = "NONE" /\ joiner' = NoKid /\ waiter' = FALSE /\ UNCHANGED <<otoken, oflag, strays>>
  BY DEF ExitCancelled, RowVars, Observable
<1>2. Asked \in [Kids -> BOOLEAN]
  BY DEF Asked, GroupInv, GroupTypeOK
<1>3. OwnerTypes'
  BY <1>1, <1>2 DEF OwnerTypes, GroupInv, GroupTypeOK
<1>4. PlaceInv' /\ NotAsleepOverDone'
  BY <1>1 DEF PlaceInv, NotAsleepOverDone
<1>5. ASSUME NEW k \in Rows, kidJoined[k], ending[k] = "PANICKED", outcome[k] = "none" PROVE asked'[k]
  <2>1. k \in Kids
    BY RowsLemma DEF GroupInv
  <2>2. asked[k]
    BY <1>1, <1>5 DEF GroupInv, PlaceInv, PanicInv
  <2> QED BY <1>1, <2>1, <2>2 DEF Asked
<1> QED BY <1>1, <1>3, <1>4, <1>5, QuietStep

LEMMA ParkStep ==
    ASSUME GroupInv, st = "running", NEW p, NEW w \in BOOLEAN, NEW j \in Kids \union {NoKid},
           OwnerPark(p, w, j),
           \/ p \in {"next", "waitall"} /\ opc \in {"body", p} /\ w
           \/ p \in {"cancel", "scope"} /\ opc = p /\ Unjoined # {} /\ j = NextJoin,
           p = "next" => Done = {},
           p = "waitall" => Rows # Done,
           p \in {"cancel", "scope"} => ending[NextJoin] \notin Endings
    PROVE  GroupInv'
<1>1. CASE Observable /\ ExitCancelled
  BY <1>1, ExitStep
<1>2. CASE ~(Observable /\ ExitCancelled)
  <2>1. /\ opc' = p /\ UNCHANGED <<oflag, unwind, children, delivered, clock, rowState, got, strays>>
        /\ \/ otoken' = FALSE /\ UNCHANGED <<st, waiter, joiner>>
           \/ st' = "parked" /\ waiter' = w /\ joiner' = j /\ UNCHANGED otoken
    BY <1>2 DEF OwnerPark
  <2>2. UNCHANGED RowVars /\ UNCHANGED asked
    BY <2>1 DEF RowVars, rowState
  <2>3. Rows' = Rows /\ Done' = Done /\ Unjoined' = Unjoined /\ NextJoin' = NextJoin
    BY <2>2, RowsFrame DEF GroupInv
  <2>4. OwnerTypes'
    BY <2>1, <2>2 DEF OwnerTypes, GroupInv, GroupTypeOK
  <2>5. PlaceInv' /\ NotAsleepOverDone'
    BY <2>1, <2>2, <2>3 DEF GroupInv, PlaceInv, NotAsleepOverDone, RowVars
  <2> QED BY <2>1, <2>2, <2>4, <2>5, QuietStep DEF GroupInv, PanicInv
<1> QED BY <1>1, <1>2

LEMMA QuietOwnerStep ==
    ASSUME GroupInv,
           \/ OwnerDispatch \/ BodyYield \/ NextPark \/ WaitAllPark \/ JoinPark
           \/ StartDrain \/ CancelAll \/ ScopeExit \/ CancelOwner \/ Stray
    PROVE  GroupInv'
<1>1. CASE OwnerDispatch
  <2>1. CASE Observable /\ ExitCancelled
    BY <2>1, <1>1, ExitStep DEF OwnerDispatch, GroupInv, PlaceInv
  <2>2. CASE ~(Observable /\ ExitCancelled)
    <3>1. /\ st = "ready" /\ st' = "running" /\ waiter' = FALSE /\ joiner' = NoKid
          /\ UNCHANGED <<opc, otoken, oflag, unwind, asked, strays>> /\ UNCHANGED RowVars
      BY <1>1, <2>2 DEF OwnerDispatch, RowVars, rowState
    <3>2. OwnerTypes' /\ opc \notin {"gone", "dead"}
      BY <3>1 DEF OwnerTypes, GroupInv, GroupTypeOK, PlaceInv
    <3>3. PlaceInv' /\ NotAsleepOverDone'
      BY <3>1, RowsFrame DEF GroupInv, PlaceInv, NotAsleepOverDone, RowVars
    <3> QED BY <3>1, <3>2, <3>3, QuietStep DEF GroupInv, PanicInv
  <2> QED BY <2>1, <2>2
<1>2. CASE BodyYield
  <2>1. CASE Observable /\ ExitCancelled
    BY <2>1, <1>2, ExitStep DEF BodyYield
  <2>2. CASE ~(Observable /\ ExitCancelled)
    <3>1. /\ opc = "body" /\ st' = "ready"
          /\ UNCHANGED <<opc, otoken, oflag, unwind, waiter, joiner, asked, strays>> /\ UNCHANGED RowVars
      BY <1>2, <2>2 DEF BodyYield, RowVars, rowState, groupState
    <3>2. OwnerTypes'
      BY <3>1 DEF OwnerTypes, GroupInv, GroupTypeOK
    <3>3. PlaceInv' /\ NotAsleepOverDone'
      BY <3>1, RowsFrame DEF GroupInv, PlaceInv, NotAsleepOverDone, RowVars
    <3> QED BY <3>1, <3>2, <3>3, QuietStep
  <2> QED BY <2>1, <2>2
<1>3. CASE NextPark
  BY <1>3, ParkStep DEF NextPark, In
<1>4. CASE WaitAllPark
  BY <1>4, ParkStep DEF WaitAllPark, In
<1>5. CASE JoinPark
  <2>1. NextJoin \in Kids
    BY <1>5, NextJoinLemma, RowsLemma DEF JoinPark, GroupInv
  <2> QED BY <1>5, <2>1, ParkStep DEF JoinPark
<1>6. CASE StartDrain \/ CancelAll \/ ScopeExit
  <2>1. /\ st = "running" /\ opc = "body" /\ st' = st
        /\ opc' \in {"drain", "cancel", "scope"}
        /\ unwind' \in {"NONE", "PANICKED"} /\ (opc' # "scope" => unwind' = unwind)
        /\ asked' = asked \/ asked' = Asked
        /\ opc' = "cancel" => asked' = Asked
        /\ UNCHANGED <<otoken, oflag, waiter, joiner, strays>> /\ UNCHANGED RowVars
    BY <1>6 DEF StartDrain, CancelAll, ScopeExit, RowVars, rowState, groupState, GroupInv, PlaceInv
  <2>2. Asked \in [Kids -> BOOLEAN] /\ \A k \in Rows : ~kidJoined[k] => Asked[k]
    BY RowsLemma DEF Asked, GroupInv, GroupTypeOK
  <2>3. OwnerTypes'
    BY <2>1, <2>2 DEF OwnerTypes, GroupInv, GroupTypeOK
  <2>4. PlaceInv' /\ NotAsleepOverDone'
    BY <2>1, <2>2, RowsFrame DEF GroupInv, PlaceInv, NotAsleepOverDone, RowVars
  <2>5. \A k \in Rows : ~kidJoined[k]
    BY <2>1 DEF GroupInv, PlaceInv
  <2> QED BY <2>1, <2>3, <2>4, <2>5, QuietStep
<1>7. CASE CancelOwner \/ Stray
  <2>1. /\ st # "running" /\ opc \notin {"gone", "dead"}
        /\ st' \in {st, "ready"} /\ otoken' \in BOOLEAN /\ oflag' \in BOOLEAN /\ strays' \in 0..MaxStrays
        /\ UNCHANGED <<opc, unwind, waiter, joiner, asked>> /\ UNCHANGED RowVars
    <3>1. /\ st' \in {st, "ready"} /\ otoken' \in BOOLEAN
          /\ st # "running" /\ opc \notin {"gone", "dead"}
      BY <1>7 DEF CancelOwner, Stray, Away, WakeOwner, GroupInv, GroupTypeOK
    <3>2. oflag' \in BOOLEAN /\ strays' \in 0..MaxStrays
      <4>1. strays \in 0..MaxStrays /\ oflag \in BOOLEAN
        BY DEF GroupInv, GroupTypeOK
      <4>2. CASE CancelOwner
        BY <4>1, <4>2 DEF CancelOwner
      <4>3. CASE Stray
        BY <4>1, <4>3, KidsAssumption DEF Stray
      <4> QED BY <1>7, <4>2, <4>3
    <3>3. UNCHANGED <<opc, unwind, waiter, joiner, asked>> /\ UNCHANGED RowVars
      BY <1>7 DEF CancelOwner, Stray, RowVars, rowState, groupState
    <3> QED BY <3>1, <3>2, <3>3
  <2>2. OwnerTypes'
    BY <2>1 DEF OwnerTypes, GroupInv, GroupTypeOK
  <2>3. PlaceInv' /\ NotAsleepOverDone'
    BY <2>1, RowsFrame DEF GroupInv, PlaceInv, NotAsleepOverDone, RowVars
  <2> QED BY <2>1, <2>2, <2>3, QuietStep DEF GroupInv, PanicInv
<1> QED BY <1>1, <1>2, <1>3, <1>4, <1>5, <1>6, <1>7

-----------------------------------------------------------------------------
(* The steps that change rows and outcomes.                                *)

\* next and try_next hand out a row.
LEMMA DeliverStep ==
    ASSUME GroupInv, st = "running", Done # {}, Deliver(PickDone),
           opc \in {"body", "next", "try", "drain", "draintry"},
           opc' \in {"body", "drain"}, UNCHANGED <<st, otoken, oflag, unwind>>
    PROVE  GroupInv'
<1>0. GroupTypeOK /\ RowsInv /\ PickDone \in Kids
  BY PickLemma, RowsLemma DEF GroupInv, RowsInv
<1>1. /\ RowsInv' /\ Rows' = Rows \ {PickDone}
      /\ children' \in Seq(Kids \union {NoKid}) /\ delivered' \in 0..Len(children')
      /\ got' \in Seq(Kids)
      /\ kidJoined' = [kidJoined EXCEPT ![PickDone] = TRUE]
      /\ outcome' = [outcome EXCEPT ![PickDone] = "given"]
  BY <1>0, DeliverRows
<1>2. UNCHANGED <<clock, waiter, joiner, ending, stamp, asked, strays>>
  BY DEF Deliver
<1>3. GroupTypeOK'
  BY <1>0, <1>1, <1>2 DEF GroupTypeOK
<1>4. PlaceInv'
  BY <1>0, <1>1, <1>2, RowsLemma DEF GroupInv, PlaceInv, GroupTypeOK
<1>5. PanicInv' /\ PanicNotSwallowed' /\ GroupOutlivesChildren' /\ NotAsleepOverDone'
  BY <1>0, <1>1, <1>2
     DEF GroupInv, PanicInv, PanicNotSwallowed, GroupOutlivesChildren, NotAsleepOverDone, GroupTypeOK
<1> QED BY <1>1, <1>3, <1>4, <1>5 DEF GroupInv

LEMMA NextTryStep ==
    ASSUME GroupInv, NextDeliver \/ TryNext \/ TryAgain
    PROVE  GroupInv'
<1>1. CASE Done # {} /\ Deliver(PickDone)
  <2>1. /\ st = "running" /\ opc \in {"body", "next", "try", "drain", "draintry"}
        /\ opc' \in {"body", "drain"} /\ UNCHANGED <<st, otoken, oflag, unwind>>
    BY <1>1 DEF NextDeliver, TryNext, TryAgain, In, Return, ownerState
  <2> QED BY <1>1, <2>1, DeliverStep
<1>2. CASE ~(Done # {} /\ Deliver(PickDone))
  <2>1. /\ st = "running" /\ opc \in {"body", "try", "drain", "draintry"}
        /\ opc' \in {"body", "try", "drain", "draintry"} /\ st' \in {"running", "ready"}
        /\ UNCHANGED <<otoken, oflag, unwind, waiter, joiner, asked, strays>> /\ UNCHANGED RowVars
    BY <1>2 DEF NextDeliver, TryNext, TryAgain, TryYield, Return, RowVars, rowState, groupState
  <2>2. OwnerTypes'
    BY <2>1 DEF OwnerTypes, GroupInv, GroupTypeOK
  <2>3. PlaceInv' /\ NotAsleepOverDone'
    BY <2>1, RowsFrame DEF GroupInv, PlaceInv, NotAsleepOverDone, RowVars
  <2> QED BY <2>1, <2>2, <2>3, QuietStep
<1> QED BY <1>1, <1>2

LEMMA BrewStep ==
    ASSUME GroupInv, NEW k \in Kids, Brew(k)
    PROVE  GroupInv'
<1>1. RowsInv' /\ GroupTypeOK' /\ Rows' = Rows \union {k} /\ Done' = Done
  BY BrewRows DEF GroupInv
<1>2. /\ st = "running" /\ opc = "body"
      /\ ending[k] = "fresh" /\ ending' = [ending EXCEPT ![k] = "running"]
      /\ UNCHANGED <<st, opc, unwind, waiter, joiner, kidJoined, asked, outcome>>
  BY DEF Brew, ownerState
<1>3. ~kidJoined[k] /\ outcome[k] = "none"
  BY <1>2 DEF GroupInv, RowsInv, RowInv
<1>4. PlaceInv'
  BY <1>1, <1>2, <1>3 DEF GroupInv, PlaceInv
<1>5. PanicInv' /\ PanicNotSwallowed' /\ GroupOutlivesChildren' /\ NotAsleepOverDone'
  BY <1>2, <1>3
     DEF GroupInv, PanicInv, PanicNotSwallowed, GroupOutlivesChildren, NotAsleepOverDone, GroupTypeOK
<1> QED BY <1>1, <1>4, <1>5 DEF GroupInv

\* The rows go at once, and the owner's code goes on.
LEMMA EmptyStep ==
    ASSUME GroupInv, st = "running", Emptied, Rows \subseteq Over,
           UNCHANGED <<st, otoken, oflag, unwind, clock, waiter, joiner, ending, stamp, asked, got, strays>>,
           kidJoined' \in [Kids -> BOOLEAN],
           outcome' \in [Kids -> {"none", "given", "discarded", "dropped", "escalated"}],
           \A k \in Kids : k \in Rows => outcome'[k] # "none",
           \A k \in Kids \ Rows : outcome'[k] = outcome[k] /\ kidJoined'[k] = kidJoined[k],
           opc \notin {"gone", "dead"},
           \/ opc' = "body" /\ unwind = "NONE" /\ \A k \in Rows : outcome'[k] # "dropped"
           \/ /\ opc' = "gone" /\ opc = "scope"
              /\ \A k \in Rows : outcome'[k] = "dropped" => outcome[k] = "none" /\ kidJoined[k]
    PROVE  GroupInv'
<1>0. GroupTypeOK /\ RowsInv
  BY DEF GroupInv
<1>1. RowsInv' /\ Rows' = {} /\ Done' = {}
  BY <1>0, EmptyRows
<1>2. children' = <<>> /\ delivered' = 0
  BY DEF Emptied
<1>3. GroupTypeOK'
  BY <1>0, <1>2 DEF GroupTypeOK
<1>4. PlaceInv' /\ NotAsleepOverDone'
  BY <1>1 DEF GroupInv, PlaceInv, NotAsleepOverDone
<1>5. PanicInv'
  BY <1>1 DEF GroupInv, PanicInv
<1>6. GroupOutlivesChildren'
  <2> SUFFICES ASSUME opc' = "gone", NEW k \in Kids, ending'[k] # "fresh"
               PROVE  ending'[k] \in Endings /\ outcome'[k] # "none"
    BY DEF GroupOutlivesChildren
  <2>1. CASE k \in Rows
    BY <2>1 DEF Over
  <2>2. CASE k \notin Rows
    <3>1. ending[k] \in Endings
      BY <1>0, <2>2 DEF RowsInv, RowInv, GroupTypeOK
    <3> QED BY <1>0, <2>2, <3>1 DEF RowsInv, RowInv, Over
  <2> QED BY <2>1, <2>2
<1>7. PanicNotSwallowed'
  <2> SUFFICES ASSUME NEW k \in Kids, ending'[k] = "PANICKED", outcome'[k] = "dropped"
               PROVE  unwind' = "CANCELLED" /\ asked'[k]
    BY DEF PanicNotSwallowed
  <2>1. k \in Rows /\ opc = "scope" /\ outcome[k] = "none" /\ kidJoined[k]
    BY DEF GroupInv, PanicInv
  <2> QED BY <2>1 DEF GroupInv, PanicInv
<1> QED BY <1>1, <1>3, <1>4, <1>5, <1>6, <1>7 DEF GroupInv

\* Once nothing is left to join, every child with a row has ended.
LEMMA AllJoined ==
    ASSUME GroupTypeOK, RowsInv, Unjoined = {}
    PROVE  Rows \subseteq Over /\ \A k \in Rows : kidJoined[k]
<1>1. ASSUME NEW k \in Rows PROVE kidJoined[k]
  BY <1>1, RowsLemma DEF Unjoined
<1>2. ASSUME NEW k \in Rows PROVE ending[k] \in Endings
  BY <1>1, <1>2, RowsLemma DEF RowsInv, RowInv, GroupTypeOK
<1> QED BY <1>1, <1>2, RowsLemma DEF Over

LEMMA EmptyingStep ==
    ASSUME GroupInv, WaitAllJoin \/ CancelDrop \/ ScopeDrop
    PROVE  GroupInv'
<1>0. GroupTypeOK /\ RowsInv /\ Rows \subseteq Kids
  BY RowsLemma DEF GroupInv
<1>1. CASE WaitAllJoin
  <2>1. Rows \subseteq Over
    BY <1>0, <1>1 DEF WaitAllJoin, Done, RowsInv, ClockInv
  <2>2. /\ st = "running" /\ opc \in {"body", "waitall"} /\ opc' = "body" /\ Emptied
        /\ UNCHANGED <<st, otoken, oflag, unwind, clock, waiter, joiner, ending, stamp, asked, got, strays>>
        /\ kidJoined' = [k \in Kids |-> kidJoined[k] \/ k \in Rows]
    BY <1>1 DEF WaitAllJoin, In, Return
  <2>3. PICK given \in SUBSET Kids :
           outcome' = [k \in Kids |-> CASE k \in given -> "given"
                                        [] k \in Rows \ given -> "discarded"
                                        [] OTHER -> outcome[k]]
           /\ given \subseteq Rows
    <3>1. Failed # {} => children[Min(Failed)] \in Rows
      <4>1. Failed \in SUBSET Nat
        BY <1>0, RowsLemma DEF Failed
      <4>2. Failed # {} => Min(Failed) \in Failed
        BY <4>1, LeastOf
      <4> QED BY <4>2 DEF Failed
    <3> DEFINE given == IF Failed = {} THEN Rows ELSE {children[Min(Failed)]}
    <3>2. given \subseteq Rows
      BY <3>1
    <3>3. outcome' = [k \in Kids |-> CASE k \in given -> "given"
                                       [] k \in Rows \ given -> "discarded"
                                       [] OTHER -> outcome[k]]
      BY <1>1 DEF WaitAllJoin
    <3> QED BY <1>0, <3>2, <3>3
  <2>4. /\ kidJoined' \in [Kids -> BOOLEAN]
        /\ \A k \in Kids \ Rows : kidJoined'[k] = kidJoined[k]
    BY <1>0, <2>2 DEF GroupTypeOK
  <2>5. /\ outcome' \in [Kids -> {"none", "given", "discarded", "dropped", "escalated"}]
        /\ \A k \in Rows : outcome'[k] \in {"given", "discarded"}
        /\ \A k \in Kids \ Rows : outcome'[k] = outcome[k]
    BY <1>0, <2>3 DEF GroupTypeOK
  <2>6. unwind = "NONE"
    BY <2>2 DEF GroupInv, PlaceInv
  <2> QED BY <2>1, <2>2, <2>4, <2>5, <2>6, EmptyStep
<1>2. CASE CancelDrop \/ ScopeDrop
  <2>1. Rows \subseteq Over /\ \A k \in Rows : kidJoined[k]
    BY <1>0, <1>2, AllJoined DEF CancelDrop, ScopeDrop
  <2> DEFINE Left(how) == [k \in Kids |-> IF k \in Rows /\ outcome[k] = "none" THEN how ELSE outcome[k]]
  <2>2. \/ outcome' = Left("discarded") /\ opc = "cancel" /\ opc' = "body"
        \/ outcome' = Left("dropped") /\ opc = "scope" /\ opc' = "gone"
    BY <1>2 DEF CancelDrop, ScopeDrop, Drop, Return
  <2>3. /\ st = "running" /\ Emptied
        /\ UNCHANGED <<st, otoken, oflag, unwind, clock, waiter, joiner, ending, stamp, kidJoined, asked, got, strays>>
    BY <1>2 DEF CancelDrop, ScopeDrop, Return
  <2>4. /\ outcome' \in [Kids -> {"none", "given", "discarded", "dropped", "escalated"}]
        /\ \A k \in Kids : k \in Rows => outcome'[k] # "none"
        /\ \A k \in Kids \ Rows : outcome'[k] = outcome[k]
        /\ kidJoined' \in [Kids -> BOOLEAN]
    BY <1>0, <2>2, <2>3 DEF GroupTypeOK
  <2>5. opc # "gone" => \A k \in Kids : outcome[k] # "dropped"
    BY DEF GroupInv, PanicInv
  <2>6. \/ opc' = "body" /\ unwind = "NONE" /\ \A k \in Rows : outcome'[k] # "dropped"
        \/ /\ opc' = "gone" /\ opc = "scope"
           /\ \A k \in Rows : outcome'[k] = "dropped" => outcome[k] = "none" /\ kidJoined[k]
    BY <1>0, <2>1, <2>2, <2>5 DEF GroupInv, PlaceInv
  <2> QED BY <2>1, <2>2, <2>3, <2>4, <2>6, EmptyStep
<1> QED BY <1>1, <1>2

\* cancel_all and the scope join take the next row that ended.
LEMMA JoinRowStep ==
    ASSUME GroupInv, CancelJoin \/ ScopeJoin
    PROVE  GroupInv'
<1>0. /\ GroupTypeOK /\ RowsInv /\ Unjoined # {} /\ ending[NextJoin] \in Endings /\ JoinRow
      /\ st = "running" /\ opc \in {"cancel", "scope"}
  BY DEF CancelJoin, ScopeJoin, GroupInv
<1>1. NextJoin \in Rows /\ NextJoin \in Kids
  BY <1>0, NextJoinLemma, RowsLemma
<1>2. /\ UNCHANGED <<children, delivered, clock, waiter, joiner, ending, stamp, asked, got, strays>>
      /\ kidJoined' = [kidJoined EXCEPT ![NextJoin] = TRUE]
  BY <1>0 DEF JoinRow, groupState
<1>3. UNCHANGED <<st, otoken, oflag>>
  BY DEF CancelJoin, ScopeJoin, ownerState
<1>4. \/ UNCHANGED <<opc, unwind, outcome>> /\ (opc = "scope" => ending[NextJoin] # "PANICKED")
      \/ /\ opc = "scope" /\ unwind' = "PANICKED"
         /\ opc' = IF unwind = "NONE" THEN "scope" ELSE "dead"
         /\ outcome' = [outcome EXCEPT ![NextJoin] = "escalated"]
  BY DEF CancelJoin, ScopeJoin, ScopePanic, ownerState
<1>5. RowsInv' /\ Rows' = Rows
  BY <1>0, <1>4, JoinRows
<1>6. GroupTypeOK'
  BY <1>0, <1>1, <1>2, <1>3, <1>4 DEF GroupTypeOK
<1>7. PlaceInv' /\ NotAsleepOverDone'
  BY <1>0, <1>2, <1>3, <1>4, <1>5 DEF GroupInv, PlaceInv, NotAsleepOverDone
<1>8. opc' # "gone" /\ opc # "gone" /\ \A k \in Kids : outcome'[k] # "dropped"
  BY <1>0, <1>1, <1>4 DEF GroupInv, PanicInv, GroupTypeOK
<1>9. PanicInv'
  <2> SUFFICES ASSUME opc' = "scope", NEW k \in Rows, kidJoined'[k], ending[k] = "PANICKED",
                      outcome'[k] = "none"
               PROVE  unwind' = "CANCELLED" /\ asked[k]
    BY <1>2, <1>5, <1>8 DEF PanicInv
  <2>1. k \in Kids /\ opc = "scope"
    BY <1>0, <1>4, RowsLemma
  <2>2. k # NextJoin
    BY <1>0, <1>1, <1>4, <2>1 DEF GroupTypeOK
  <2>3. kidJoined[k] /\ outcome[k] = "none"
    BY <1>0, <1>1, <1>2, <1>4, <2>1, <2>2 DEF GroupTypeOK
  <2>4. unwind = "CANCELLED" /\ asked[k]
    BY <2>1, <2>3 DEF GroupInv, PanicInv
  <2> QED BY <1>4, <2>4
<1>10. PanicNotSwallowed' /\ GroupOutlivesChildren'
  BY <1>8 DEF PanicNotSwallowed, GroupOutlivesChildren
<1> QED BY <1>5, <1>6, <1>7, <1>9, <1>10 DEF GroupInv

LEMMA EndStep ==
    ASSUME GroupInv, NEW k \in Kids, ChildEnd(k)
    PROVE  GroupInv'
<1>0. GroupTypeOK /\ RowsInv
  BY DEF GroupInv
<1>1. /\ RowsInv' /\ Rows' = Rows
      /\ ending' \in [Kids -> Endings \union {"fresh", "running"}]
      /\ clock' \in 0..Cardinality(Kids) /\ stamp' \in [Kids -> 0..clock']
      /\ \A j \in Kids \ {k} : ending'[j] = ending[j]
      /\ k \in Rows /\ k \in Kids \ Over
  BY <1>0, EndRows
<1>2. /\ st # "running" /\ opc \notin {"gone", "dead"} /\ waiter' = FALSE
      /\ ending[k] = "running"
      /\ UNCHANGED <<opc, oflag, unwind, children, delivered, joiner, kidJoined, asked,
                     outcome, got, strays>>
  BY DEF ChildEnd, Away
<1>3. /\ st' \in {st, "ready"} /\ otoken' \in BOOLEAN
      /\ st' = "parked" => st = "parked" /\ ~waiter /\ joiner # k
  BY <1>0 DEF ChildEnd, WakeAtEnd, WakeOwner, GroupTypeOK
<1>4. GroupTypeOK'
  BY <1>0, <1>1, <1>2, <1>3 DEF GroupTypeOK
<1>5. Unjoined' = Unjoined /\ NextJoin' = NextJoin
  BY <1>1, <1>2 DEF Unjoined, NextJoin
<1>6. PlaceInv'
  BY <1>1, <1>2, <1>3, <1>5 DEF GroupInv, PlaceInv
<1>7. NotAsleepOverDone'
  <2> SUFFICES ASSUME st' = "parked"
               PROVE  opc \in {"cancel", "scope"} /\ ending'[NextJoin] \notin Endings
    BY <1>2, <1>5 DEF NotAsleepOverDone
  <2>1. opc \in {"cancel", "scope"} /\ Unjoined # {} /\ joiner = NextJoin /\ NextJoin # k
    BY <1>3 DEF GroupInv, PlaceInv
  <2>2. NextJoin \in Kids
    BY <1>0, <2>1, NextJoinLemma, RowsLemma
  <2> QED BY <1>1, <1>3, <2>1, <2>2 DEF GroupInv, NotAsleepOverDone
<1>8. ~kidJoined[k]
  BY <1>0, <1>2 DEF RowsInv, RowInv
<1>9. PanicInv'
  BY <1>0, <1>1, <1>2, <1>8, RowsLemma DEF GroupInv, PanicInv
<1>10. PanicNotSwallowed' /\ GroupOutlivesChildren'
  BY <1>0, <1>2 DEF GroupInv, PanicInv, PanicNotSwallowed, GroupOutlivesChildren
<1> QED BY <1>1, <1>4, <1>6, <1>7, <1>9, <1>10 DEF GroupInv

LEMMA InitGroup == GroupInit => GroupInv
<1> SUFFICES ASSUME GroupInit PROVE GroupInv
  OBVIOUS
<1>1. Rows = {} /\ Done = {} /\ Over = {} /\ Holes = {}
  BY DEF GroupInit, Rows, Done, Over, Holes, Range, Endings
<1>2. GroupTypeOK
  <2>1. Cardinality(Kids) \in Nat
    BY KidsAssumption, FS_CardinalityType
  <2>2. children = <<>> /\ Len(children) = 0 /\ children \in Seq(Kids \union {NoKid})
        /\ got \in Seq(Kids)
    BY DEF GroupInit
  <2>3. clock = 0 /\ stamp \in [Kids -> 0..0] /\ delivered \in 0..0 /\ clock \in 0..Cardinality(Kids)
    BY <2>1 DEF GroupInit
  <2>4. strays \in 0..MaxStrays
    BY KidsAssumption DEF GroupInit
  <2> QED BY <2>2, <2>3, <2>4 DEF GroupInit, GroupTypeOK
<1>3. RowsInv
  BY <1>1, FS_EmptySet
     DEF GroupInit, RowsInv, ClockInv, ListInv, RowInv, OrderInv, CompletionOrder
<1>4. PlaceInv /\ PanicInv /\ GroupOutlivesChildren /\ NotAsleepOverDone /\ PanicNotSwallowed
  BY <1>1 DEF GroupInit, PlaceInv, PanicInv, GroupOutlivesChildren, NotAsleepOverDone, PanicNotSwallowed
<1> QED BY <1>2, <1>3, <1>4 DEF GroupInv

LEMMA GroupInvStep == GroupInv /\ [GroupNext]_groupVars => GroupInv'
<1> SUFFICES ASSUME GroupInv, [GroupNext]_groupVars PROVE GroupInv'
  OBVIOUS
<1>1. CASE UNCHANGED groupVars
  <2>1. UNCHANGED RowVars /\ UNCHANGED <<st, opc, otoken, oflag, unwind, waiter, joiner, asked, strays>>
    BY <1>1 DEF groupVars, ownerState, groupState, rowState, RowVars
  <2>2. RowsInv' /\ Rows' = Rows /\ Done' = Done /\ Unjoined' = Unjoined /\ NextJoin' = NextJoin
    BY <2>1, RowsFrame DEF GroupInv
  <2>3. GroupTypeOK'
    BY <2>1 DEF GroupInv, GroupTypeOK, RowVars
  <2>4. PlaceInv' /\ PanicInv' /\ NotAsleepOverDone'
    BY <2>1, <2>2 DEF GroupInv, PlaceInv, PanicInv, NotAsleepOverDone, RowVars
  <2>5. GroupOutlivesChildren' /\ PanicNotSwallowed'
    BY <2>1 DEF GroupInv, GroupOutlivesChildren, PanicNotSwallowed, RowVars
  <2> QED BY <2>2, <2>3, <2>4, <2>5 DEF GroupInv
<1>2. CASE \E k \in Kids : Brew(k) \/ ChildEnd(k)
  BY <1>2, BrewStep, EndStep
<1>3. CASE NextDeliver \/ TryNext \/ TryAgain
  BY <1>3, NextTryStep
<1>4. CASE WaitAllJoin \/ CancelDrop \/ ScopeDrop
  BY <1>4, EmptyingStep
<1>5. CASE CancelJoin \/ ScopeJoin
  BY <1>5, JoinRowStep
<1>6. CASE \/ OwnerDispatch \/ BodyYield \/ NextPark \/ WaitAllPark \/ JoinPark
           \/ StartDrain \/ CancelAll \/ ScopeExit \/ CancelOwner \/ Stray
  BY <1>6, QuietOwnerStep
<1> QED BY <1>1, <1>2, <1>3, <1>4, <1>5, <1>6 DEF GroupNext, OwnerStep

\* Whatever number of children a group has and however its owner leaves it: next
\* and try_next hand out outcomes in completion order, the group outlives its
\* children, its owner sleeps over none that ended, and no panic disappears.
THEOREM GroupCorrect == GroupSpec => []GroupKeepsChildren
<1>1. GroupInv => GroupKeepsChildren
  BY DEF GroupInv, RowsInv, GroupKeepsChildren
<1> QED BY InitGroup, GroupInvStep, <1>1, PTL DEF GroupSpec
=============================================================================
