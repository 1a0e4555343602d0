---------------------------- MODULE Waits_proofs ----------------------------
(***************************************************************************)
(* Proofs about waiting for somebody else.  AtomicWait: nobody sleeps      *)
(* through a change, for every set of waiters, writers and cells and any   *)
(* number of stores.  Signals: whatever sources two threads open, read and *)
(* close, for every set of signals and any number of them raised.          *)
(* PollWake: any number of pollers opened, woken and closed, while slots   *)
(* and descriptor numbers are used again.  TlsSession: what two sessions   *)
(* read, report and agree on, whatever backends, hellos and protocols meet *)
(* and in whatever pieces the ciphertext comes.                            *)
(***************************************************************************)
EXTENDS AtomicWait, Signals, PollWake, TlsSession, TLAPS, FiniteSetTheorems, QueueLemmas

-----------------------------------------------------------------------------
(* AtomicWait.                                                             *)

\* What is asked of the constants: the width of a cell decides whether it uses
\* the parking lot or the futex, and no cell is the null cell.
CellsApart == LotCells \intersect FutexCells = {} /\ NoCell \notin LotCells \union FutexCells

\* The types the proof needs; the number of stores is left open.
WaitTypeOK ==
    /\ pc \in [Waiters -> {"idle", "compared", "asleep", "futex", "returned"}]
    /\ val \in [Cells -> 0..1]
    /\ cell \in [Waiters -> Cells \union {NoCell}]
    /\ expected \in [Waiters -> 0..1]
    /\ signalled \in [Waiters -> BOOLEAN] /\ awake \in [Waiters -> BOOLEAN]
    /\ nodes \in Seq(Waiters)
    /\ kernel \subseteq Waiters
    /\ owing \in [Writers -> Cells \union {NoCell}]

\* Each kind of sleep goes with its kind of cell, and only a waiter that went to
\* sleep was ever picked.
PlaceInv ==
    \A w \in Waiters :
      /\ pc[w] = "asleep" => cell[w] \in LotCells
      /\ pc[w] = "futex" => cell[w] \in FutexCells
      /\ pc[w] = "compared" => cell[w] \in Cells
      /\ w \in kernel => pc[w] = "futex"
      /\ signalled[w] => pc[w] \in {"asleep", "returned"}

WaitInv == WaitTypeOK /\ PlaceInv /\ NobodySleepsThrough

-----------------------------------------------------------------------------
LEMMA InitWait == Init => WaitInv
<1> SUFFICES ASSUME Init PROVE WaitInv
  OBVIOUS
<1>1. WaitTypeOK
  BY DEF Init, WaitTypeOK
<1>2. PlaceInv
  BY DEF Init, PlaceInv
<1>3. IsInjective(nodes) /\ Range(nodes) = {}
  <2>1. nodes = <<>> /\ DOMAIN <<>> = {}
    BY EmptySeq DEF Init
  <2> QED BY <2>1 DEF IsInjective, Range
<1>4. NodesAreWaiters
  BY <1>3 DEF Init, NodesAreWaiters
<1>5. PickedIsLetGo /\ NotAsleepThroughChange
  BY DEF Init, PickedIsLetGo, NotAsleepThroughChange
<1> QED BY <1>1, <1>2, <1>4, <1>5 DEF WaitInv, NobodySleepsThrough

\* Whoever a notify picks sleeps on the cell; and it picks somebody whenever a
\* sleeper of the cell has not been picked before.
LEMMA PickedLemma ==
    ASSUME WaitTypeOK, NodesAreWaiters, NEW c, NEW all \in BOOLEAN
    PROVE  /\ \A w \in Picked(c, all) : w \in Waiters /\ pc[w] = "asleep" /\ cell[w] = c
           /\ \A w \in Waiters : pc[w] = "asleep" /\ cell[w] = c /\ ~signalled[w]
                => Picked(c, all) # {}
<1>1. DOMAIN nodes = 1..Len(nodes) /\ Len(nodes) \in Nat
  BY LenProperties DEF WaitTypeOK
<1>2. ASSUME NEW w \in Picked(c, all) PROVE w \in Waiters /\ pc[w] = "asleep" /\ cell[w] = c
  <2>1. PICK i \in DOMAIN nodes : w = nodes[i] /\ cell[nodes[i]] = c
    BY <1>2 DEF Picked, Waiting
  <2>2. w \in Range(nodes)
    BY <2>1 DEF Range
  <2> QED BY <2>1, <2>2 DEF NodesAreWaiters
<1>3. ASSUME NEW w \in Waiters, pc[w] = "asleep", cell[w] = c, ~signalled[w]
      PROVE  Picked(c, all) # {}
  <2>1. w \in Range(nodes)
    BY <1>3 DEF NodesAreWaiters
  <2>2. PICK i \in DOMAIN nodes : nodes[i] = w
    BY <2>1 DEF Range
  <2>3. i \in Waiting(c) /\ Waiting(c) \subseteq Nat
    BY <1>1, <1>3, <2>2 DEF Waiting
  <2>4. PICK k \in Waiting(c) : \A j \in Waiting(c) : k <= j
    BY <2>3, LeastLemma
  <2> QED BY <2>4 DEF Picked
<1> QED BY <1>2, <1>3

\* The steps of a waiter.
LEMMA WaiterStep ==
    ASSUME CellsApart, WaitInv, NEW w \in Waiters,
           \/ \E c \in Cells, e \in 0..1, limit \in {"none", "some", "zero"} :
                 Compare(w, c, e, limit)
           \/ Enqueue(w) \/ Recheck(w) \/ TimeOut(w) \/ FutexWait(w) \/ FutexReturn(w)
    PROVE  WaitInv'
<1> USE DEF WaitInv, NobodySleepsThrough, CellsApart, Return, Holds, waiter, Cells
<1>1. ASSUME NEW c \in Cells, NEW e \in 0..1, NEW limit \in {"none", "some", "zero"},
             Compare(w, c, e, limit)
      PROVE  WaitInv'
  <2>1. WaitTypeOK'
    BY <1>1 DEF Compare, WaitTypeOK
  <2>2. PlaceInv'
    BY <1>1 DEF Compare, WaitTypeOK, PlaceInv
  <2>3. NodesAreWaiters'
    BY <1>1 DEF Compare, WaitTypeOK, NodesAreWaiters
  <2>4. PickedIsLetGo'
    BY <1>1 DEF Compare, WaitTypeOK, PlaceInv, PickedIsLetGo
  <2>5. NotAsleepThroughChange'
    BY <1>1 DEF Compare, WaitTypeOK, PlaceInv, NotAsleepThroughChange
  <2> QED BY <2>1, <2>2, <2>3, <2>4, <2>5
<1>2. CASE Enqueue(w)
  <2>1. WaitTypeOK'
    <3>0. nodes \in Seq(Waiters) /\ <<w>> \in Seq(Waiters)
      BY DEF WaitTypeOK
    <3>1. nodes' \in Seq(Waiters)
      <4> DEFINE one == <<w>>
      <4>1. one \in Seq(Waiters)
        BY <3>0
      <4> HIDE DEF one
      <4>2. one \o nodes \in Seq(Waiters)
        BY <3>0, <4>1, ConcatProperties
      <4> QED BY <1>2, <3>0, <4>2 DEF Enqueue, one
    <3> QED BY <1>2, <3>1 DEF Enqueue, WaitTypeOK
  <2>2. PlaceInv'
    BY <1>2 DEF Enqueue, WaitTypeOK, PlaceInv
  <2>3. NodesAreWaiters'
    <3>1. CASE StillHolds(w)
      <4>1. <<w>> \in Seq(Waiters) /\ IsInjective(<<w>>) /\ Range(<<w>>) = {w}
        BY ShortLemma
      <4>2. Range(<<w>>) \intersect Range(nodes) = {}
        BY <1>2, <4>1 DEF Enqueue, NodesAreWaiters
      <4>3. nodes \in Seq(Waiters) /\ IsInjective(nodes)
        BY DEF WaitTypeOK, NodesAreWaiters
      <4>4. IsInjective(<<w>> \o nodes) /\ Range(<<w>> \o nodes) = {w} \union Range(nodes)
        <5> DEFINE one == <<w>>
        <5>1. one \in Seq(Waiters) /\ IsInjective(one) /\ Range(one) \intersect Range(nodes) = {}
          BY <4>1, <4>2
        <5> HIDE DEF one
        <5>2. IsInjective(one \o nodes) /\ Range(one \o nodes) = Range(one) \union Range(nodes)
          BY <4>3, <5>1, SpliceLemma
        <5> QED BY <4>1, <5>2 DEF one
      <4>5. nodes' = <<w>> \o nodes /\ pc' = [pc EXCEPT ![w] = "asleep"]
        BY <1>2, <3>1 DEF Enqueue
      <4>6. {u \in Waiters : pc'[u] = "asleep"} = {w} \union {u \in Waiters : pc[u] = "asleep"}
        BY <4>5 DEF WaitTypeOK
      <4> QED BY <4>4, <4>5, <4>6 DEF NodesAreWaiters
    <3>2. CASE ~StillHolds(w)
      BY <1>2, <3>2 DEF Enqueue, WaitTypeOK, NodesAreWaiters
    <3> QED BY <3>1, <3>2
  <2>4. PickedIsLetGo'
    BY <1>2 DEF Enqueue, WaitTypeOK, PlaceInv, PickedIsLetGo
  <2>5. NotAsleepThroughChange'
    BY <1>2 DEF Enqueue, StillHolds, WaitTypeOK, PlaceInv, NotAsleepThroughChange
  <2> QED BY <2>1, <2>2, <2>3, <2>4, <2>5
<1>3. ASSUME pc[w] = "asleep", pc' = [pc EXCEPT ![w] = "returned"], Unlink(w)
      PROVE  NodesAreWaiters' /\ nodes' \in Seq(Waiters)
  <2>1. nodes \in Seq(Waiters) /\ IsInjective(nodes)
    BY DEF WaitTypeOK, NodesAreWaiters
  <2>2. /\ nodes' \in Seq(Waiters) /\ IsInjective(nodes')
        /\ Range(nodes') = Range(nodes) \ {w}
    BY <1>3, <2>1, RemoveLemma DEF Unlink
  <2>3. {u \in Waiters : pc'[u] = "asleep"} = {u \in Waiters : pc[u] = "asleep"} \ {w}
    BY <1>3 DEF WaitTypeOK
  <2> QED BY <2>2, <2>3 DEF NodesAreWaiters
<1>4. CASE Recheck(w)
  <2>1. WaitTypeOK' /\ NodesAreWaiters'
    <3>1. CASE signalled[w] \/ ~Holds(w)
      <4>1. nodes' \in Seq(Waiters) /\ NodesAreWaiters'
        BY <1>3, <1>4, <3>1 DEF Recheck
      <4> QED BY <1>4, <3>1, <4>1 DEF Recheck, WaitTypeOK
    <3>2. CASE ~(signalled[w] \/ ~Holds(w))
      BY <1>4, <3>2 DEF Recheck, WaitTypeOK, NodesAreWaiters
    <3> QED BY <3>1, <3>2
  <2>2. PlaceInv'
    BY <1>4 DEF Recheck, WaitTypeOK, PlaceInv
  <2>3. PickedIsLetGo'
    BY <1>4 DEF Recheck, WaitTypeOK, PlaceInv, PickedIsLetGo
  <2>4. NotAsleepThroughChange'
    BY <1>4 DEF Recheck, WaitTypeOK, PlaceInv, NotAsleepThroughChange
  <2> QED BY <2>1, <2>2, <2>3, <2>4
<1>5. CASE TimeOut(w)
  <2>1. WaitTypeOK' /\ NodesAreWaiters'
    <3>1. nodes' \in Seq(Waiters) /\ NodesAreWaiters'
      BY <1>3, <1>5 DEF TimeOut
    <3> QED BY <1>5, <3>1 DEF TimeOut, WaitTypeOK
  <2>2. PlaceInv'
    BY <1>5 DEF TimeOut, WaitTypeOK, PlaceInv
  <2>3. PickedIsLetGo'
    BY <1>5 DEF TimeOut, WaitTypeOK, PlaceInv, PickedIsLetGo
  <2>4. NotAsleepThroughChange'
    BY <1>5 DEF TimeOut, WaitTypeOK, PlaceInv, NotAsleepThroughChange
  <2> QED BY <2>1, <2>2, <2>3, <2>4
<1>6. CASE FutexWait(w)
  <2>1. WaitTypeOK'
    BY <1>6 DEF FutexWait, WaitTypeOK
  <2>2. PlaceInv'
    BY <1>6 DEF FutexWait, WaitTypeOK, PlaceInv
  <2>3. NodesAreWaiters'
    BY <1>6 DEF FutexWait, WaitTypeOK, NodesAreWaiters
  <2>4. PickedIsLetGo'
    BY <1>6 DEF FutexWait, WaitTypeOK, PlaceInv, PickedIsLetGo
  <2>5. NotAsleepThroughChange'
    BY <1>6 DEF FutexWait, WaitTypeOK, PlaceInv, NotAsleepThroughChange
  <2> QED BY <2>1, <2>2, <2>3, <2>4, <2>5
<1>7. CASE FutexReturn(w)
  <2>0. /\ pc[w] = "futex" /\ pc' = [pc EXCEPT ![w] = "returned"] /\ kernel' = kernel \ {w}
        /\ UNCHANGED <<val, cell, expected, signalled, awake, nodes, owing>>
    BY <1>7 DEF FutexReturn
  <2>1. WaitTypeOK'
    BY <2>0 DEF WaitTypeOK
  <2>2. PlaceInv'
    BY <2>0 DEF WaitTypeOK, PlaceInv
  <2>3. NodesAreWaiters'
    BY <2>0 DEF WaitTypeOK, NodesAreWaiters
  <2>4. PickedIsLetGo'
    BY <2>0 DEF WaitTypeOK, PlaceInv, PickedIsLetGo
  <2>5. NotAsleepThroughChange'
    BY <2>0 DEF WaitTypeOK, PlaceInv, NotAsleepThroughChange
  <2> QED BY <2>1, <2>2, <2>3, <2>4, <2>5
<1> QED BY <1>1, <1>2, <1>4, <1>5, <1>6, <1>7

\* The steps of a writer.
LEMMA WriterStep ==
    ASSUME CellsApart, WaitInv, NEW t \in Writers,
           \/ \E c \in Cells, v \in 0..1 : Store(t, c, v)
           \/ \E all \in BOOLEAN : Notify(t, all) \/ FutexWake(t, all)
    PROVE  WaitInv'
<1> USE DEF WaitInv, NobodySleepsThrough, CellsApart, Holds, waiter, Cells
<1>1. ASSUME NEW c \in Cells, NEW v \in 0..1, Store(t, c, v) PROVE WaitInv'
  <2>1. WaitTypeOK' /\ PlaceInv' /\ NodesAreWaiters' /\ PickedIsLetGo'
    BY <1>1 DEF Store, WaitTypeOK, PlaceInv, NodesAreWaiters, PickedIsLetGo
  <2>2. NotAsleepThroughChange'
    BY <1>1 DEF Store, WaitTypeOK, PlaceInv, NotAsleepThroughChange
  <2> QED BY <2>1, <2>2
<1>2. ASSUME NEW all \in BOOLEAN, Notify(t, all) PROVE WaitInv'
  <2> DEFINE W == Picked(owing[t], all)
  <2>1. /\ \A u \in W : u \in Waiters /\ pc[u] = "asleep" /\ cell[u] = owing[t]
        /\ \A u \in Waiters : pc[u] = "asleep" /\ cell[u] = owing[t] /\ ~signalled[u] => W # {}
    BY PickedLemma
  <2>2. /\ owing[t] \in LotCells
        /\ signalled' = [u \in Waiters |-> signalled[u] \/ u \in W]
        /\ awake' = [u \in Waiters |-> awake[u] \/ (W # {} /\ pc[u] = "asleep")]
        /\ owing' = [owing EXCEPT ![t] = NoCell]
        /\ UNCHANGED <<val, pc, cell, expected, nodes, kernel>>
    BY <1>2 DEF Notify, LetGo
  <2> HIDE DEF W
  <2>3. WaitTypeOK' /\ NodesAreWaiters'
    BY <2>2 DEF WaitTypeOK, NodesAreWaiters
  <2>4. PlaceInv'
    BY <2>1, <2>2 DEF WaitTypeOK, PlaceInv
  <2>5. PickedIsLetGo'
    BY <2>1, <2>2 DEF WaitTypeOK, PickedIsLetGo
  <2>6. NotAsleepThroughChange'
    <3>1. ASSUME NEW w \in Waiters, pc[w] = "asleep" \/ w \in kernel, ~Holds(w), ~awake'[w]
          PROVE  \/ \E i \in Writers : owing'[i] = cell[w]
                 \/ \E u \in Waiters \ {w} :
                       cell[u] = cell[w] /\ (signalled'[u] \/ pc[u] = "returned" \/ pc[u] = "futex")
      <4>1. ~awake[w] /\ (W = {} \/ pc[w] # "asleep")
        BY <2>2, <3>1 DEF WaitTypeOK
      <4>2. \A u \in Waiters : signalled[u] => signalled'[u]
        BY <2>2 DEF WaitTypeOK
      <4>3. CASE cell[w] = owing[t]
        <5>1. pc[w] = "asleep"
          BY <2>2, <3>1, <4>3 DEF PlaceInv
        <5> QED BY <2>1, <4>1, <4>3, <5>1 DEF PickedIsLetGo
      <4>4. CASE cell[w] # owing[t]
        <5>1. \A i \in Writers : owing[i] = cell[w] => owing'[i] = cell[w]
          BY <2>2, <4>4 DEF WaitTypeOK
        <5> QED BY <3>1, <4>1, <4>2, <5>1 DEF NotAsleepThroughChange
      <4> QED BY <4>3, <4>4
    <3>2. pc' = pc /\ kernel' = kernel /\ cell' = cell /\ \A w \in Waiters : Holds(w)' = Holds(w)
      BY <2>2
    <3> QED BY <3>1, <3>2, Zenon DEF NotAsleepThroughChange
  <2> QED BY <2>3, <2>4, <2>5, <2>6
<1>3. ASSUME NEW all \in BOOLEAN, FutexWake(t, all) PROVE WaitInv'
  <2> DEFINE Q == {u \in kernel : cell[u] = owing[t]}
  <2>1. PICK W \in SUBSET Q :
          /\ all => W = Q
          /\ ~all => Cardinality(W) = IF \E u \in kernel : cell[u] = owing[t] THEN 1 ELSE 0
          /\ kernel' = kernel \ W
    BY <1>3 DEF FutexWake
  <2>2. Q # {} => W # {}
    BY <2>1, FS_EmptySet
  <2>3. /\ owing[t] \in FutexCells /\ owing' = [owing EXCEPT ![t] = NoCell]
        /\ UNCHANGED <<val, pc, cell, expected, signalled, awake, nodes>>
    BY <1>3 DEF FutexWake
  <2>4. WaitTypeOK' /\ PlaceInv' /\ NodesAreWaiters' /\ PickedIsLetGo'
    BY <2>1, <2>3 DEF WaitTypeOK, PlaceInv, NodesAreWaiters, PickedIsLetGo
  <2>5. NotAsleepThroughChange'
    BY <2>1, <2>2, <2>3 DEF WaitTypeOK, PlaceInv, NotAsleepThroughChange
  <2> QED BY <2>4, <2>5
<1> QED BY <1>1, <1>2, <1>3

LEMMA WaitInvStep == ASSUME CellsApart, WaitInv, [Next]_vars PROVE WaitInv'
<1>1. CASE Next
  BY <1>1, WaiterStep, WriterStep DEF Next
<1>2. CASE UNCHANGED vars
  BY <1>2 DEF vars, WaitInv, WaitTypeOK, PlaceInv, NobodySleepsThrough, NodesAreWaiters,
              PickedIsLetGo, NotAsleepThroughChange, Holds
<1> QED BY <1>1, <1>2

\* beans_atomic_wait and beans_atomic_notify, for any number of waiters, writers,
\* cells and stores: the bucket lists its sleepers, whoever a notify picked was
\* let go, and nobody sleeps through a change.
THEOREM NobodySleepsThroughCorrect == ASSUME CellsApart PROVE Spec => []NobodySleepsThrough
<1>1. Init => WaitInv
  BY InitWait
<1>2. WaitInv /\ [Next]_vars => WaitInv'
  BY WaitInvStep
<1>3. WaitInv => NobodySleepsThrough
  BY DEF WaitInv
<1> QED BY <1>1, <1>2, <1>3, PTL DEF Spec

-----------------------------------------------------------------------------
(* Signals.                                                                *)

Fields == [pc : {"new", "failed", "open", "taking", "took", "draining", "drained", "closed"},
           thread : SignalThreads, want : SUBSET Sigs, told : SUBSET Sigs,
           todo : SUBSET Sigs, rel : SUBSET Sigs]

SigTypeOK ==
    /\ mask \in [SignalThreads -> SUBSET Sigs]
    /\ counts \in [SignalThreads -> [Sigs -> Nat]]
    /\ source \in [Sources -> Fields]
    /\ Main \in alive /\ alive \subseteq SignalThreads
    /\ pending \subseteq Sigs /\ inherited \subseteq Sigs

\* A source that counts as an owner of what it watches, one inside a call, one
\* that is being closed, and one that gave back what it had.
Owning(s)  == source[s].pc \in {"open", "taking", "took"}
Ending(s) == source[s].pc \in {"draining", "drained"}
Busy(s)    == Ending(s) \/ source[s].pc \in {"taking", "took"}
Spent(s)   == source[s].pc \in {"closed", "failed"}
Owners(t, n) == {s \in Sources : Owning(s) /\ source[s].thread = t /\ n \in source[s].want}

\* The counts of a thread are those of its sources.
CountInv ==
    \A t \in SignalThreads, n \in Sigs :
        IsFiniteSet(Owners(t, n)) /\ counts[t][n] = Cardinality(Owners(t, n))

\* A thread is in one call at a time, and opens sources only once it runs.
CallInv ==
    /\ \A s \in Sources : source[s].pc # "new" => source[s].thread \in alive
    /\ \A s, u \in Sources : Busy(s) /\ Busy(u) /\ source[s].thread = source[u].thread => s = u

GivesBack(s) ==
    /\ source[s].rel \subseteq source[s].want
    /\ \A n \in source[s].want : n \in source[s].rel <=> Owners(source[s].thread, n) = {}

\* What a look showed is there to wait for, or another thread's source has seen
\* it too; a close gives back exactly what no other source of its thread watches,
\* and leaves pending only what came after its look.
DrainOK(s) ==
    /\ source[s].told \subseteq source[s].want
    /\ Busy(s) => source[s].todo \subseteq source[s].want
    /\ source[s].pc \in {"took", "drained"} =>
          \A n \in source[s].todo : n \in pending \/ Shared(source[s].thread, n)
    /\ source[s].pc = "draining" => source[s].todo = source[s].rel
    /\ Ending(s) => GivesBack(s)
    /\ source[s].pc = "drained" =>
          pending \intersect source[s].rel \subseteq source[s].told \union source[s].todo
DrainInv == \A s \in Sources : DrainOK(s)

\* A signal is blocked on a thread exactly when a source of it watches it or is
\* giving it back, or when it was inherited and no source of it gave it back.
Blocks(t, n) ==
    \/ \E s \in Sources : Owning(s) /\ source[s].thread = t /\ n \in source[s].want
    \/ \E s \in Sources : Ending(s) /\ source[s].thread = t /\ n \in source[s].rel
    \/ n \in Passed(t) /\ \A s \in Sources :
                                Spent(s) /\ source[s].thread = t => n \notin source[s].want
MaskInv == \A t \in SignalThreads, n \in Sigs : n \in mask[t] <=> Blocks(t, n)

\* Who was hit by a signal did not block it.
KilledInv == \A k \in killed : k[1] \in Sigs /\ k[2] \in SignalThreads /\ k[1] \notin mask[k[2]]

SigInv == SigTypeOK /\ CountInv /\ CallInv /\ DrainInv /\ MaskInv /\ KilledInv /\ AloneNeverHangs

-----------------------------------------------------------------------------
LEMMA InitSignals == ASSUME SignalInit PROVE SigInv
<1>1. SigTypeOK
  <2>1. NoSource \in Fields
    BY DEF NoSource, Fields, SignalThreads
  <2> QED BY <2>1 DEF SignalInit, SigTypeOK, SignalThreads
<1>2. \A s \in Sources : source[s].pc = "new" /\ source[s].told = {}
  BY DEF SignalInit, NoSource
<1>3. \A t \in SignalThreads, n \in Sigs : Owners(t, n) = {}
  BY <1>2 DEF Owners, Owning
<1>4. CountInv
  BY <1>3, FS_EmptySet DEF SignalInit, CountInv
<1>5. CallInv /\ DrainInv /\ KilledInv /\ AloneNeverHangs
  BY <1>2 DEF SignalInit, CallInv, DrainInv, DrainOK, KilledInv, AloneNeverHangs, Busy, Ending
<1>6. MaskInv
  BY <1>2 DEF SignalInit, MaskInv, Blocks, Passed, Owning, Ending
<1> QED BY <1>1, <1>4, <1>5, <1>6 DEF SigInv

\* A step that leaves the sources' owners and the counts alone.
LEMMA SameCounts ==
    ASSUME CountInv, counts' = counts,
           \A t \in SignalThreads, n \in Sigs : Owners(t, n)' = Owners(t, n)
    PROVE  CountInv'
BY DEF CountInv

\* A caller at rest: no source of the thread is inside a call.
LEMMA RestLemma ==
    ASSUME NEW t \in SignalThreads, SigInv, Running(t)
    PROVE  killed = {} /\ \A s \in Sources : Busy(s) => source[s].thread # t
BY DEF Running, Calling, Of, At, Busy, Ending

\* A source stays what another thread shares a signal with.
LEMMA SharedStays ==
    ASSUME \A s \in Sources : source[s].pc \notin {"new", "failed"} =>
              /\ source'[s].pc \notin {"new", "failed"}
              /\ source'[s].thread = source[s].thread /\ source'[s].want = source[s].want,
           NEW t, NEW n, Shared(t, n)
    PROVE  Shared(t, n)'
BY DEF Shared

\* The typed fields of a source, one at a time.
LEMMA FieldLemma ==
    ASSUME SigTypeOK, NEW s \in Sources
    PROVE  /\ source[s].thread \in SignalThreads /\ source[s].want \subseteq Sigs
           /\ source[s].told \subseteq Sigs /\ source[s].todo \subseteq Sigs
           /\ source[s].rel \subseteq Sigs /\ source[s] \in Fields
BY DEF SigTypeOK, Fields

\* What a closing source gives back, while no owner of its thread changes.
LEMMA GivesBackStays ==
    ASSUME SigTypeOK, NEW u \in Sources, GivesBack(u),
           source'[u].thread = source[u].thread, source'[u].want = source[u].want,
           source'[u].rel = source[u].rel,
           \A n \in Sigs : Owners(source[u].thread, n)' = Owners(source[u].thread, n)
    PROVE  GivesBack(u)'
<1>1. source[u].want \subseteq Sigs
  BY FieldLemma
<1> DEFINE t == source[u].thread
<1>2. source'[u].thread = t
  OBVIOUS
<1> QED BY <1>1, <1>2 DEF GivesBack

\* A step that changes one source inside a call of its thread, and no mask: it
\* keeps its owners, what it wants and what it gives back.
LEMMA SameMasks ==
    ASSUME SigInv, NEW s \in Sources, source[s].pc \notin {"new", "failed"},
           source' \in [Sources -> Fields], \A u \in Sources : u # s => source'[u] = source[u],
           source'[s].thread = source[s].thread, source'[s].want = source[s].want,
           source'[s].rel = source[s].rel,
           Owning(s)' <=> Owning(s), Ending(s)' <=> Ending(s), ~Spent(s)', ~Spent(s),
           source'[s].pc # "new",
           UNCHANGED <<mask, counts, alive, inherited, killed>>
    PROVE  /\ CountInv' /\ MaskInv' /\ KilledInv'
           /\ \A t \in SignalThreads, n \in Sigs : Owners(t, n)' = Owners(t, n)
           /\ \A t, n : Shared(t, n) => Shared(t, n)'
<1>1. \A u \in Sources : /\ Owning(u)' <=> Owning(u)
                         /\ Ending(u)' <=> Ending(u)
                         /\ Spent(u)' <=> Spent(u)
                         /\ source'[u].thread = source[u].thread
                         /\ source'[u].want = source[u].want /\ source'[u].rel = source[u].rel
  BY DEF Owning, Ending, Spent
<1>2. \A t \in SignalThreads, n \in Sigs : Owners(t, n)' = Owners(t, n)
  BY <1>1 DEF Owners
<1>3. CountInv'
  BY <1>2, SameCounts DEF SigInv
<1>4. \A t \in SignalThreads, n \in Sigs : Blocks(t, n)' <=> Blocks(t, n)
  BY <1>1 DEF Blocks, Passed
<1>5. MaskInv'
  BY <1>4 DEF MaskInv, SigInv
<1>6. KilledInv'
  BY DEF KilledInv, SigInv
<1>7. \A t, n : Shared(t, n) => Shared(t, n)'
  BY <1>1 DEF Shared, Spent
<1> QED BY <1>2, <1>3, <1>5, <1>6, <1>7

-----------------------------------------------------------------------------
LEMMA SpawnStep == ASSUME SigInv, Spawn PROVE SigInv'
<1> USE DEF SigInv
<1>0. killed = {} /\ Worker \notin alive /\ Worker # Main
  BY DEF Spawn, Running, SigTypeOK
<1>1. /\ alive' = {Main, Worker} /\ mask' = [mask EXCEPT ![Worker] = mask[Main]]
      /\ inherited' = mask[Main]
      /\ UNCHANGED <<counts, source, pending, killed, hung>>
  BY DEF Spawn
<1>2. SigTypeOK'
  BY <1>1 DEF SigTypeOK, SignalThreads
<1>3. CountInv'
  BY <1>1, SameCounts DEF Owners, Owning
<1>4. CallInv' /\ KilledInv' /\ AloneNeverHangs'
  BY <1>0, <1>1 DEF CallInv, KilledInv, AloneNeverHangs, Shared, Busy, Ending, SigTypeOK, SignalThreads
<1>5. DrainInv'
  BY <1>1 DEF DrainInv, DrainOK, Busy, Ending, Shared, Owners, Owning, GivesBack
<1>6. \A s \in Sources : source[s].pc # "new" => source[s].thread = Main
  BY <1>0 DEF CallInv, SigTypeOK, SignalThreads
<1>7. MaskInv'
  <2> SUFFICES ASSUME NEW t \in SignalThreads, NEW n \in Sigs
               PROVE  n \in mask'[t] <=> Blocks(t, n)'
    BY DEF MaskInv
  <2>1. CASE t = Main
    BY <1>0, <1>1, <2>1 DEF MaskInv, Blocks, Passed, Owning, Ending, Spent, SigTypeOK
  <2>2. CASE t = Worker
    <3>1. Blocks(t, n)' <=> n \in inherited'
      BY <1>0, <1>1, <1>6, <2>2 DEF Blocks, Passed, Owning, Ending, Spent
    <3> QED BY <1>1, <2>2, <3>1 DEF SigTypeOK
  <2> QED BY <2>1, <2>2 DEF SignalThreads
<1> QED BY <1>2, <1>3, <1>4, <1>5, <1>7

LEMMA RaiseStep == ASSUME SigInv, NEW n \in Sigs, Raise(n) PROVE SigInv'
<1> USE DEF SigInv
<1>1. killed = {} /\ UNCHANGED <<backend, mask, counts, alive, inherited, hung>>
  BY DEF Raise
<1>2. CASE /\ pending' = pending \cup {n} /\ killed' = killed
           /\ source' = [s \in Sources |-> IF source[s].pc \in Told /\ n \in source[s].want
                             THEN [source[s] EXCEPT !.told = @ \cup {n}] ELSE source[s]]
  <2>2. \A s \in Sources :
           /\ source'[s] \in Fields
           /\ source'[s].pc = source[s].pc /\ source'[s].thread = source[s].thread
           /\ source'[s].want = source[s].want /\ source'[s].rel = source[s].rel
           /\ source'[s].todo = source[s].todo
           /\ source[s].told \subseteq source'[s].told
           /\ source'[s].told \subseteq source[s].told \union source[s].want
           /\ source[s].pc = "drained" /\ n \in source[s].want => n \in source'[s].told
    BY <1>2 DEF SigTypeOK, Fields, Told
  <2>3. SigTypeOK'
    <3>1. source' \in [Sources -> Fields]
      BY <1>2, <2>2
    <3> QED BY <1>1, <1>2, <3>1 DEF SigTypeOK
  <2>4. \A u \in Sources : /\ Owning(u)' <=> Owning(u)
                           /\ Ending(u)' <=> Ending(u)
                           /\ Spent(u)' <=> Spent(u)
                           /\ Busy(u)' <=> Busy(u)
    BY <2>2 DEF Owning, Ending, Spent, Busy
  <2>5. \A t \in SignalThreads, m \in Sigs : Owners(t, m)' = Owners(t, m)
    BY <2>2, <2>4 DEF Owners
  <2>6. CountInv'
    BY <1>1, <2>5, SameCounts
  <2>7. \A t, m : Shared(t, m) => Shared(t, m)'
    BY <2>2 DEF Shared
  <2>8. CallInv' /\ KilledInv' /\ AloneNeverHangs'
    BY <1>1, <1>2, <2>2, <2>4, <2>7 DEF CallInv, KilledInv, AloneNeverHangs
  <2>9. MaskInv'
    <3>1. \A t \in SignalThreads, m \in Sigs : Blocks(t, m)' <=> Blocks(t, m)
      BY <1>1, <2>2, <2>4 DEF Blocks, Passed
    <3> QED BY <1>1, <3>1 DEF MaskInv
  <2>10. DrainInv'
    <3> SUFFICES ASSUME NEW s \in Sources PROVE DrainOK(s)'
      BY DEF DrainInv
    <3>0. DrainOK(s)
      BY DEF DrainInv
    <3>1. /\ source'[s].told \subseteq source'[s].want
          /\ Busy(s)' => source'[s].todo \subseteq source'[s].want
          /\ source'[s].pc = "draining" => source'[s].todo = source'[s].rel
      BY <2>2, <2>4, <3>0 DEF DrainOK
    <3>2. (source[s].pc \in {"took", "drained"} =>
             \A m \in source[s].todo : m \in pending \/ Shared(source[s].thread, m))'
      <4>1. \A m : Shared(source[s].thread, m) => Shared(source[s].thread, m)'
        BY <2>2 DEF Shared
      <4> QED BY <1>2, <2>2, <3>0, <4>1 DEF DrainOK
    <3>3. Ending(s)' => GivesBack(s)'
      BY <2>2, <2>4, <2>5, <3>0, GivesBackStays, FieldLemma DEF DrainOK
    <3>4. source'[s].pc = "drained" =>
             pending' \intersect source'[s].rel \subseteq source'[s].told \union source'[s].todo
      <4> SUFFICES ASSUME source[s].pc = "drained", NEW m \in pending', m \in source[s].rel
                   PROVE  m \in source'[s].told \union source[s].todo
        BY <2>2
      <4>1. m \in source[s].want
        BY <3>0 DEF DrainOK, Ending, GivesBack
      <4>2. CASE m = n
        BY <2>2, <4>1, <4>2
      <4>3. CASE m # n
        BY <1>2, <2>2, <3>0, <4>3 DEF DrainOK
      <4> QED BY <4>2, <4>3
    <3> QED BY <2>2, <3>1, <3>2, <3>3, <3>4 DEF DrainOK
  <2> QED BY <2>3, <2>6, <2>8, <2>9, <2>10
<1>3. ASSUME NEW t \in Takers(n), killed' = {<<n, t>>}, UNCHANGED <<pending, source>>
      PROVE  SigInv'
  <2>1. SigTypeOK' /\ CallInv' /\ AloneNeverHangs' /\ DrainInv'
    BY <1>1, <1>3 DEF SigTypeOK, CallInv, DrainInv, DrainOK, AloneNeverHangs, Shared, Busy, Ending, Owners, Owning, GivesBack
  <2>2. CountInv'
    BY <1>1, <1>3, SameCounts DEF Owners, Owning
  <2>3. MaskInv'
    BY <1>1, <1>3 DEF MaskInv, Blocks, Passed, Owning, Ending, Spent
  <2>4. KilledInv'
    BY <1>1, <1>3 DEF KilledInv, Takers, SigTypeOK
  <2> QED BY <2>1, <2>2, <2>3, <2>4
<1> QED BY <1>2, <1>3 DEF Raise

\* beans_signal_watch.
LEMMA WatchStep ==
    ASSUME SigInv, NEW t \in SignalThreads, NEW s \in Sources, NEW want \in SUBSET Sigs,
           Watch(t, s, want)
    PROVE  SigInv'
<1> USE DEF SigInv
<1> DEFINE new == [NoSource EXCEPT !.pc = "open", !.thread = t, !.want = want]
<1>0. killed = {} /\ t \in alive /\ \A u \in Sources : Busy(u) => source[u].thread # t
  BY RestLemma DEF Watch, Running
<1>1. /\ source[s].pc = "new" /\ source' = [source EXCEPT ![s] = new]
      /\ mask' = [mask EXCEPT ![t] = @ \cup want]
      /\ counts' = [counts EXCEPT ![t] = AddOwners(@, want)]
      /\ UNCHANGED <<alive, inherited, pending, killed, hung>>
  BY DEF Watch, At
<1>2. /\ new \in Fields /\ new.pc = "open" /\ new.thread = t /\ new.want = want /\ new.told = {}
  BY DEF NoSource, Fields, SignalThreads
<1> HIDE DEF new
<1>3. /\ source'[s] = new /\ \A u \in Sources : u # s => source'[u] = source[u]
      /\ source' \in [Sources -> Fields]
  BY <1>1, <1>2 DEF SigTypeOK
<1>4. SigTypeOK'
  <2>1. AddOwners(counts[t], want) \in [Sigs -> Nat]
    BY <1>2 DEF AddOwners, SigTypeOK
  <2>2. counts' \in [SignalThreads -> [Sigs -> Nat]] /\ mask' \in [SignalThreads -> SUBSET Sigs]
    BY <1>1, <2>1 DEF SigTypeOK
  <2> QED BY <1>1, <1>3, <2>2 DEF SigTypeOK
<1>5. \A x \in SignalThreads, n \in Sigs :
         Owners(x, n)' = IF x = t /\ n \in want THEN Owners(x, n) \union {s} ELSE Owners(x, n)
  BY <1>1, <1>2, <1>3 DEF Owners, Owning
<1>6. CountInv'
  <2> SUFFICES ASSUME NEW x \in SignalThreads, NEW n \in Sigs
               PROVE  IsFiniteSet(Owners(x, n)') /\ counts'[x][n] = Cardinality(Owners(x, n)')
    BY DEF CountInv
  <2>0. IsFiniteSet(Owners(x, n)) /\ counts[x][n] = Cardinality(Owners(x, n))
    BY DEF CountInv
  <2>1. CASE x = t /\ n \in want
    <3>1. Owners(x, n)' = Owners(x, n) \union {s} /\ s \notin Owners(x, n)
      BY <1>1, <1>5, <2>1 DEF Owners, Owning
    <3>2. counts'[x][n] = counts[x][n] + 1
      BY <1>1, <2>1 DEF AddOwners, SigTypeOK
    <3> QED BY <2>0, <3>1, <3>2, FS_AddElement
  <2>2. CASE ~(x = t /\ n \in want)
    <3>1. counts'[x][n] = counts[x][n]
      BY <1>1, <2>2 DEF AddOwners, SigTypeOK
    <3> QED BY <1>5, <2>0, <2>2, <3>1
  <2> QED BY <2>1, <2>2
<1>7. \A x, n : Shared(x, n) => Shared(x, n)'
  BY <1>1, <1>3 DEF Shared
<1>8. CallInv' /\ KilledInv' /\ AloneNeverHangs'
  BY <1>0, <1>1, <1>2, <1>3, <1>7 DEF CallInv, KilledInv, AloneNeverHangs, Busy, Ending
<1>9. DrainInv'
  <2>1. \A u \in Sources : u # s /\ Ending(u) => source[u].thread # t
    BY <1>0 DEF Busy
  <2>2. \A u \in Sources : u # s /\ Ending(u) => GivesBack(u)'
    BY <1>3, <1>5, <2>1, GivesBackStays, FieldLemma DEF DrainInv, DrainOK
  <2>3. source'[s].told \subseteq source'[s].want /\ source'[s].pc = "open"
    BY <1>2, <1>3
  <2> QED BY <1>1, <1>3, <1>7, <2>2, <2>3 DEF DrainInv, DrainOK, Busy, Ending
<1>10. MaskInv'
  <2> SUFFICES ASSUME NEW x \in SignalThreads, NEW n \in Sigs
               PROVE  n \in mask'[x] <=> Blocks(x, n)'
    BY DEF MaskInv
  <2>1. n \in mask'[x] <=> n \in mask[x] \/ (x = t /\ n \in want)
    BY <1>1 DEF SigTypeOK
  <2>2. Blocks(x, n)' <=> Blocks(x, n) \/ (x = t /\ n \in want)
    BY <1>1, <1>2, <1>3 DEF Blocks, Passed, Owning, Ending, Spent
  <2> QED BY <2>1, <2>2 DEF MaskInv
<1> QED BY <1>4, <1>6, <1>8, <1>9, <1>10

\* A watch that found no descriptor.
LEMMA WatchFailsStep ==
    ASSUME SigInv, NEW t \in SignalThreads, NEW s \in Sources, NEW want \in SUBSET Sigs,
           WatchFails(t, s, want)
    PROVE  SigInv'
<1> USE DEF SigInv
<1> DEFINE new == [NoSource EXCEPT !.pc = "failed", !.thread = t, !.want = want]
           back == Unowned(t, want)
<1>0. killed = {} /\ t \in alive /\ \A u \in Sources : Busy(u) => source[u].thread # t
  BY RestLemma DEF WatchFails, Running
<1>1. /\ source[s].pc = "new" /\ source' = [source EXCEPT ![s] = new]
      /\ mask' = [mask EXCEPT ![t] = (@ \cup want) \ back]
      /\ killed' = killed \cup {<<n, t>> : n \in pending \cap back}
      /\ UNCHANGED <<counts, alive, inherited, pending, hung>>
  BY DEF WatchFails, At, NewlyBlocked
<1>2. /\ new \in Fields /\ new.pc = "failed" /\ new.thread = t /\ new.want = want /\ new.told = {}
  BY DEF NoSource, Fields, SignalThreads
<1>a. \A n \in Sigs : n \in back <=> n \in want /\ Owners(t, n) = {}
  <2> SUFFICES ASSUME NEW n \in Sigs PROVE counts[t][n] = 0 <=> Owners(t, n) = {}
    BY DEF Unowned
  <2> QED BY FS_EmptySet DEF CountInv
<1> HIDE DEF new, back
<1>3. /\ source'[s] = new /\ \A u \in Sources : u # s => source'[u] = source[u]
      /\ source' \in [Sources -> Fields]
  BY <1>1, <1>2 DEF SigTypeOK
<1>4. SigTypeOK'
  BY <1>1, <1>3 DEF SigTypeOK
<1>5. \A x \in SignalThreads, n \in Sigs : Owners(x, n)' = Owners(x, n)
  BY <1>1, <1>2, <1>3 DEF Owners, Owning
<1>6. CountInv'
  BY <1>1, <1>5, SameCounts
<1>7. \A x, n : Shared(x, n) => Shared(x, n)'
  BY <1>1, <1>3 DEF Shared
<1>8. CallInv' /\ AloneNeverHangs'
  BY <1>0, <1>1, <1>2, <1>3, <1>7 DEF CallInv, AloneNeverHangs, Busy, Ending
<1>9. KilledInv'
  BY <1>0, <1>1 DEF KilledInv, SigTypeOK
<1>10. DrainInv'
  <2>1. \A u \in Sources : u # s /\ Ending(u) => GivesBack(u)'
    BY <1>3, <1>5, GivesBackStays, FieldLemma DEF DrainInv, DrainOK
  <2>2. source'[s].told \subseteq source'[s].want /\ source'[s].pc = "failed"
    BY <1>2, <1>3
  <2> QED BY <1>1, <1>3, <1>7, <2>1, <2>2 DEF DrainInv, DrainOK, Busy, Ending
<1>11. MaskInv'
  <2> SUFFICES ASSUME NEW x \in SignalThreads, NEW n \in Sigs
               PROVE  n \in mask'[x] <=> Blocks(x, n)'
    BY DEF MaskInv
  <2>1. CASE x # t \/ n \notin want
    <3>1. n \in mask'[x] <=> n \in mask[x]
      BY <1>1, <1>a, <2>1 DEF SigTypeOK
    <3>2. Blocks(x, n)' <=> Blocks(x, n)
      BY <1>1, <1>2, <1>3, <2>1 DEF Blocks, Passed, Owning, Ending, Spent
    <3> QED BY <3>1, <3>2 DEF MaskInv
  <2>2. CASE x = t /\ n \in want
    <3>1. n \in mask'[x] <=> Owners(t, n) # {}
      BY <1>1, <1>a, <2>2 DEF SigTypeOK
    <3>2. \A u \in Sources : Ending(u)' => source'[u].thread # t
      BY <1>0, <1>2, <1>3 DEF Ending, Busy
    <3>3. Spent(s)' /\ source'[s].thread = t /\ n \in source'[s].want
      BY <1>2, <1>3, <2>2 DEF Spent
    <3>4. Blocks(x, n)' <=> Owners(t, n)' # {}
      BY <2>2, <3>2, <3>3 DEF Blocks, Owners
    <3> QED BY <1>5, <3>1, <3>4
  <2> QED BY <2>1, <2>2
<1> QED BY <1>4, <1>6, <1>8, <1>9, <1>10, <1>11

\* beans_signal_take: the signalfd's read, the kqueue's first step, its last.
LEMMA TakeFdStep ==
    ASSUME SigInv, NEW t \in SignalThreads, NEW s \in Sources, TakeFd(t, s)
    PROVE  SigInv'
<1> USE DEF SigInv
<1>0. killed = {} /\ \A u \in Sources : Busy(u) => source[u].thread # t
  BY RestLemma DEF TakeFd
<1>1. /\ pending' = pending \ source[s].want /\ source[s].thread = t /\ source[s].pc = "open"
      /\ UNCHANGED <<mask, counts, source, alive, inherited, killed, hung>>
  BY DEF TakeFd, At
<1>2. SigTypeOK' /\ CallInv' /\ KilledInv' /\ AloneNeverHangs'
  BY <1>1 DEF SigTypeOK, CallInv, KilledInv, AloneNeverHangs, Shared, Busy, Ending
<1>3. CountInv'
  BY <1>1, SameCounts DEF Owners, Owning
<1>4. MaskInv'
  BY <1>1 DEF MaskInv, Blocks, Passed, Owning, Ending, Spent
<1>5. \A x, n : Shared(x, n)' <=> Shared(x, n)
  BY <1>1 DEF Shared
<1>6. \A x \in SignalThreads, n \in source[s].want : x # t => Shared(x, n)
  BY <1>1 DEF Shared
<1>7. \A u \in Sources : source[u].pc \in {"took", "drained"} =>
         \A n \in source[u].todo : n \in pending' \/ Shared(source[u].thread, n)
  BY <1>0, <1>1, <1>6, FieldLemma DEF DrainInv, DrainOK, Busy, Ending
<1>8. DrainInv'
  BY <1>1, <1>5, <1>7 DEF DrainInv, DrainOK, Busy, Ending, Owners, Owning, GivesBack
<1> QED BY <1>2, <1>3, <1>4, <1>8

LEMMA TakeKqueueStep ==
    ASSUME SigInv, NEW t \in SignalThreads, NEW s \in Sources, TakeKqueue(t, s) \/ TakeEnds(s)
    PROVE  SigInv'
<1> USE DEF SigInv
<1>1. CASE TakeKqueue(t, s)
  <2>0. \A u \in Sources : Busy(u) => source[u].thread # t
    BY <1>1, RestLemma DEF TakeKqueue
  <2>1. PICK taken \in SUBSET source[s].told :
        /\ source[s].pc = "open" /\ source[s].thread = t
        /\ source' = [source EXCEPT ![s].told = {}, ![s].pc = "taking", ![s].todo = taken]
        /\ UNCHANGED <<mask, counts, alive, inherited, pending, killed, hung>>
    BY <1>1 DEF TakeKqueue, At
  <2>2. /\ source'[s].pc = "taking" /\ source'[s].thread = source[s].thread
        /\ source'[s].want = source[s].want /\ source'[s].rel = source[s].rel
        /\ source'[s].told = {} /\ source'[s].todo = taken
        /\ \A u \in Sources : u # s => source'[u] = source[u]
        /\ source' \in [Sources -> Fields]
    BY <2>1 DEF SigTypeOK, Fields
  <2>3. /\ Owning(s)' <=> Owning(s)
        /\ Ending(s)' <=> Ending(s)
        /\ ~Spent(s)' /\ ~Spent(s)
    BY <2>1, <2>2 DEF Owning, Ending, Spent
  <2>4. /\ CountInv' /\ MaskInv' /\ KilledInv'
        /\ \A x \in SignalThreads, n \in Sigs : Owners(x, n)' = Owners(x, n)
        /\ \A x, n : Shared(x, n) => Shared(x, n)'
    BY <2>1, <2>2, <2>3, SameMasks
  <2>5. SigTypeOK' /\ AloneNeverHangs'
    BY <2>1, <2>2, <2>4 DEF SigTypeOK, AloneNeverHangs
  <2>6. CallInv'
    BY <2>0, <2>1, <2>2 DEF CallInv, Busy, Ending
  <2>7. taken \subseteq source[s].want
    BY <2>1 DEF DrainInv, DrainOK
  <2>8. \A u \in Sources : u # s /\ Ending(u) => GivesBack(u)'
    BY <2>2, <2>4, GivesBackStays, FieldLemma DEF DrainInv, DrainOK
  <2>9. DrainInv'
    BY <2>1, <2>2, <2>4, <2>7, <2>8 DEF DrainInv, DrainOK, Busy, Ending
  <2> QED BY <2>4, <2>5, <2>6, <2>9
<1>2. CASE TakeEnds(s)
  <2>1. /\ source[s].pc = "took"
        /\ source' = [source EXCEPT ![s].pc = "open"]
        /\ UNCHANGED <<mask, counts, alive, inherited, pending, killed, hung>>
    BY <1>2 DEF TakeEnds, At
  <2>2. /\ source'[s].pc = "open" /\ source'[s].thread = source[s].thread
        /\ source'[s].want = source[s].want /\ source'[s].rel = source[s].rel
        /\ source'[s].told = source[s].told
        /\ \A u \in Sources : u # s => source'[u] = source[u]
        /\ source' \in [Sources -> Fields]
    BY <2>1 DEF SigTypeOK, Fields
  <2>3. /\ Owning(s)' <=> Owning(s)
        /\ Ending(s)' <=> Ending(s)
        /\ ~Spent(s)' /\ ~Spent(s)
    BY <2>1, <2>2 DEF Owning, Ending, Spent
  <2>4. /\ CountInv' /\ MaskInv' /\ KilledInv'
        /\ \A x \in SignalThreads, n \in Sigs : Owners(x, n)' = Owners(x, n)
        /\ \A x, n : Shared(x, n) => Shared(x, n)'
    BY <2>1, <2>2, <2>3, SameMasks
  <2>5. SigTypeOK' /\ AloneNeverHangs'
    BY <2>1, <2>2, <2>4 DEF SigTypeOK, AloneNeverHangs
  <2>6. CallInv'
    BY <2>1, <2>2 DEF CallInv, Busy, Ending
  <2>8. \A u \in Sources : u # s /\ Ending(u) => GivesBack(u)'
    BY <2>2, <2>4, GivesBackStays, FieldLemma DEF DrainInv, DrainOK
  <2>9. DrainInv'
    BY <2>1, <2>2, <2>4, <2>8 DEF DrainInv, DrainOK, Busy, Ending
  <2> QED BY <2>4, <2>5, <2>6, <2>9
<1> QED BY <1>1, <1>2

\* The first step of beans_signal_close: sig_drop_owners.
LEMMA CloseDropStep ==
    ASSUME SigInv, NEW t \in SignalThreads, NEW s \in Sources, CloseDrop(t, s)
    PROVE  SigInv'
<1> USE DEF SigInv
<1> DEFINE rel == Released(t, source[s].want)
<1>0. killed = {} /\ \A u \in Sources : Busy(u) => source[u].thread # t
  BY RestLemma DEF CloseDrop
<1>1. /\ source[s].pc = "open" /\ source[s].thread = t
      /\ source' = [source EXCEPT ![s].pc = "draining", ![s].todo = rel, ![s].rel = rel]
      /\ counts' = [counts EXCEPT ![t] = [n \in Sigs |->
            IF n \in source[s].want /\ @[n] > 0 THEN @[n] - 1 ELSE @[n]]]
      /\ UNCHANGED <<mask, alive, inherited, pending, killed, hung>>
  BY DEF CloseDrop, At
<1>a. \A n \in source[s].want : n \in rel <=> Owners(t, n) = {s}
  <2> SUFFICES ASSUME NEW n \in source[s].want PROVE counts[t][n] = 1 <=> Owners(t, n) = {s}
    BY DEF Released
  <2>1. n \in Sigs /\ s \in Owners(t, n)
    BY <1>1, FieldLemma DEF Owners, Owning
  <2>2. IsFiniteSet(Owners(t, n)) /\ counts[t][n] = Cardinality(Owners(t, n))
    BY <2>1 DEF CountInv
  <2>3. ASSUME counts[t][n] = 1 PROVE Owners(t, n) = {s}
    <3>1. PICK x : Owners(t, n) = {x}
      BY <2>2, <2>3, FS_Singleton
    <3> QED BY <2>1, <3>1
  <2>4. ASSUME Owners(t, n) = {s} PROVE counts[t][n] = 1
    BY <2>2, <2>4, FS_Singleton
  <2> QED BY <2>3, <2>4
<1>2. /\ source'[s].pc = "draining" /\ source'[s].thread = t
      /\ source'[s].want = source[s].want /\ source'[s].told = source[s].told
      /\ source'[s].rel = rel /\ source'[s].todo = rel /\ rel \subseteq source[s].want
      /\ \A u \in Sources : u # s => source'[u] = source[u]
      /\ source' \in [Sources -> Fields]
  <2>1. source[s] \in Fields /\ rel \in SUBSET Sigs /\ rel \subseteq source[s].want
    BY DEF SigTypeOK, Fields, Released
  <2>2. source' = [source EXCEPT ![s] = [source[s] EXCEPT !.pc = "draining", !.todo = rel, !.rel = rel]]
    BY <1>1 DEF SigTypeOK
  <2> HIDE DEF rel
  <2>3. source'[s] = [source[s] EXCEPT !.pc = "draining", !.todo = rel, !.rel = rel]
    BY <2>2 DEF SigTypeOK
  <2>4. source'[s] \in Fields
    BY <2>1, <2>3 DEF Fields
  <2>5. \A u \in Sources : u # s => source'[u] = source[u]
    BY <2>2 DEF SigTypeOK
  <2>6. source' \in [Sources -> Fields]
    BY <2>2, <2>3, <2>4 DEF SigTypeOK
  <2> QED BY <1>1, <2>1, <2>3, <2>5, <2>6 DEF Fields
<1> HIDE DEF rel
<1>3. SigTypeOK'
  <2>1. counts' \in [SignalThreads -> [Sigs -> Nat]]
    BY <1>1 DEF SigTypeOK
  <2> QED BY <1>1, <1>2, <2>1 DEF SigTypeOK
<1>4. \A x \in SignalThreads, n \in Sigs :
         Owners(x, n)' = IF x = t /\ n \in source[s].want THEN Owners(x, n) \ {s} ELSE Owners(x, n)
  BY <1>1, <1>2 DEF Owners, Owning
<1>5. CountInv'
  <2> SUFFICES ASSUME NEW x \in SignalThreads, NEW n \in Sigs
               PROVE  IsFiniteSet(Owners(x, n)') /\ counts'[x][n] = Cardinality(Owners(x, n)')
    BY DEF CountInv
  <2>0. /\ IsFiniteSet(Owners(x, n)) /\ counts[x][n] = Cardinality(Owners(x, n))
        /\ counts[x][n] \in Nat
    BY DEF CountInv, SigTypeOK
  <2>1. CASE x = t /\ n \in source[s].want
    <3>1. Owners(x, n)' = Owners(x, n) \ {s} /\ s \in Owners(x, n)
      BY <1>1, <1>4, <2>1 DEF Owners, Owning
    <3>2. counts[x][n] # 0
      BY <2>0, <3>1, FS_EmptySet
    <3>3. counts'[x][n] = counts[x][n] - 1
      BY <1>1, <2>0, <2>1, <3>2 DEF SigTypeOK
    <3> QED BY <2>0, <3>1, <3>3, FS_RemoveElement
  <2>2. CASE ~(x = t /\ n \in source[s].want)
    <3>2. counts'[x][n] = counts[x][n]
      BY <1>1, <2>2 DEF SigTypeOK
    <3> QED BY <1>4, <2>0, <2>2, <3>2
  <2> QED BY <2>1, <2>2
<1>6. \A x, n : Shared(x, n) => Shared(x, n)'
  BY <1>1, <1>2 DEF Shared
<1>7. CallInv' /\ KilledInv' /\ AloneNeverHangs'
  BY <1>0, <1>1, <1>2, <1>6 DEF CallInv, KilledInv, AloneNeverHangs, Busy, Ending
<1>8. DrainInv'
  <2>1. \A u \in Sources : u # s /\ Ending(u) => source[u].thread # t
    BY <1>0 DEF Busy
  <2>2. \A u \in Sources : u # s /\ Ending(u) => GivesBack(u)'
    BY <1>2, <1>4, <2>1, GivesBackStays, FieldLemma DEF DrainInv, DrainOK
  <2>3. GivesBack(s)'
    <3>1. \A n \in source[s].want : n \in rel <=> Owners(t, n)' = {}
      <4> TAKE n \in source[s].want
      <4>1. n \in Sigs /\ s \in Owners(t, n)
        BY <1>1, FieldLemma DEF Owners, Owning
      <4>2. Owners(t, n)' = Owners(t, n) \ {s}
        BY <1>4, <4>1
      <4> QED BY <1>a, <4>1, <4>2
    <3> QED BY <1>2, <3>1 DEF GivesBack
  <2>4. source[s].told \subseteq source[s].want
    BY DEF DrainInv, DrainOK
  <2> QED BY <1>1, <1>2, <1>6, <2>2, <2>3, <2>4 DEF DrainInv, DrainOK, Busy, Ending
<1>9. MaskInv'
  <2> SUFFICES ASSUME NEW x \in SignalThreads, NEW n \in Sigs
               PROVE  Blocks(x, n)' <=> Blocks(x, n)
    BY <1>1 DEF MaskInv
  <2>1. CASE x # t \/ n \notin source[s].want
    BY <1>1, <1>2, <2>1 DEF Blocks, Passed, Owning, Ending, Spent
  <2>2. CASE x = t /\ n \in source[s].want
    <3>1. Blocks(x, n)
      BY <1>1, <2>2 DEF Blocks, Owning
    <3>2. CASE n \in rel
      BY <1>2, <2>2, <3>1, <3>2 DEF Blocks, Ending
    <3>3. CASE n \notin rel
      <4>1. PICK u \in Owners(t, n) : u # s
        <5>1. s \in Owners(t, n) /\ Owners(t, n) # {s}
          BY <1>1, <1>a, <2>2, <3>3 DEF Owners, Owning
        <5> QED BY <5>1
      <4>2. Owning(u)' /\ source'[u].thread = x /\ n \in source'[u].want /\ u \in Sources
        BY <1>2, <2>2, <4>1 DEF Owners, Owning
      <4> QED BY <3>1, <4>2 DEF Blocks
    <3> QED BY <3>2, <3>3
  <2> QED BY <2>1, <2>2
<1> QED BY <1>3, <1>5, <1>7, <1>8, <1>9

\* sig_drain: the look, and then each sigwait.
LEMMA DrainLookStep ==
    ASSUME SigInv, NEW s \in Sources, DrainLook(s)
    PROVE  SigInv'
<1> USE DEF SigInv
<1> DEFINE todo == source[s].todo \intersect pending
           to   == IF source[s].pc = "taking" THEN "took" ELSE "drained"
           told == IF source[s].pc = "taking" THEN source[s].told ELSE {}
<1>1. /\ source[s].pc \in {"taking", "draining"}
      /\ UNCHANGED <<mask, counts, alive, inherited, pending, killed, hung>>
  BY DEF DrainLook, Draining
<1>2. /\ source'[s].pc = to /\ source'[s].told = told
      /\ source'[s].thread = source[s].thread /\ source'[s].want = source[s].want
      /\ source'[s].rel = source[s].rel /\ source'[s].todo = todo
      /\ \A u \in Sources : u # s => source'[u] = source[u]
      /\ source' \in [Sources -> Fields]
  <2>1. /\ source[s] \in Fields /\ todo \in SUBSET Sigs /\ to \in {"took", "drained"}
        /\ told \in SUBSET Sigs
    BY DEF SigTypeOK, Fields
  <2>2. source' = [source EXCEPT ![s] = [source[s] EXCEPT !.pc = to, !.todo = todo, !.told = told]]
    BY DEF SigTypeOK, Shown, DrainLook
  <2> HIDE DEF todo, to, told
  <2>3. source'[s] = [source[s] EXCEPT !.pc = to, !.todo = todo, !.told = told]
    BY <2>2 DEF SigTypeOK
  <2>4. source'[s] \in Fields
    BY <2>1, <2>3 DEF Fields
  <2>5. \A u \in Sources : u # s => source'[u] = source[u]
    BY <2>2 DEF SigTypeOK
  <2>6. source' \in [Sources -> Fields]
    BY <2>2, <2>3, <2>4 DEF SigTypeOK
  <2> QED BY <2>1, <2>3, <2>5, <2>6 DEF Fields
<1>3. /\ Owning(s)' <=> Owning(s)
      /\ Ending(s)' <=> Ending(s)
      /\ ~Spent(s)' /\ ~Spent(s)
  BY <1>1, <1>2 DEF Owning, Ending, Spent
<1>4. /\ CountInv' /\ MaskInv' /\ KilledInv'
      /\ \A x \in SignalThreads, n \in Sigs : Owners(x, n)' = Owners(x, n)
      /\ \A x, n : Shared(x, n) => Shared(x, n)'
  <2>1. source[s].pc \notin {"new", "failed"} /\ source'[s].pc # "new"
    BY <1>1, <1>2
  <2> QED BY <1>1, <1>2, <1>3, <2>1, SameMasks
<1>5. SigTypeOK' /\ AloneNeverHangs'
  BY <1>1, <1>2, <1>4 DEF SigTypeOK, AloneNeverHangs
<1>6. CallInv'
  BY <1>1, <1>2 DEF CallInv, Busy, Ending
<1>7. \A u \in Sources : Ending(u) => GivesBack(u)'
  BY <1>2, <1>4, GivesBackStays, FieldLemma DEF DrainInv, DrainOK
<1>8. Busy(s) /\ source[s].told \subseteq source[s].want /\ source[s].todo \subseteq source[s].want
  BY <1>1 DEF DrainInv, DrainOK, Busy, Ending
<1>9. source[s].pc = "draining" => source[s].todo = source[s].rel
  BY DEF DrainInv, DrainOK
<1>10. DrainInv'
  BY <1>1, <1>2, <1>3, <1>4, <1>7, <1>8, <1>9 DEF DrainInv, DrainOK, Busy, Ending
<1> QED BY <1>4, <1>5, <1>6, <1>10

LEMMA DrainWaitStep ==
    ASSUME SigInv, NEW s \in Sources, DrainWait(s)
    PROVE  SigInv'
<1> USE DEF SigInv
<1>1. PICK n \in source[s].todo :
        /\ source[s].pc \in {"took", "drained"}
        /\ UNCHANGED <<mask, counts, alive, inherited, killed>>
        /\ SigwaitTakes(s, n) \/ SigwaitBlocks(s, n)
  BY DEF DrainWait
<1>2. CASE SigwaitTakes(s, n)
  <2>1. /\ n \in pending /\ pending' = pending \ {n}
        /\ hung' = hung \ {<<source[s].thread, n>>}
        /\ source' = [source EXCEPT ![s].todo = @ \ {n}]
    BY <1>2 DEF SigwaitTakes
  <2>2. /\ source'[s].pc = source[s].pc /\ source'[s].told = source[s].told
        /\ source'[s].thread = source[s].thread /\ source'[s].want = source[s].want
        /\ source'[s].rel = source[s].rel /\ source'[s].todo = source[s].todo \ {n}
        /\ \A u \in Sources : u # s => source'[u] = source[u]
        /\ source' \in [Sources -> Fields]
    BY <2>1 DEF SigTypeOK, Fields
  <2>3. /\ Owning(s)' <=> Owning(s)
        /\ Ending(s)' <=> Ending(s)
        /\ ~Spent(s)' /\ ~Spent(s)
    BY <1>1, <2>2 DEF Owning, Ending, Spent
  <2>4. /\ CountInv' /\ MaskInv' /\ KilledInv'
        /\ \A x \in SignalThreads, m \in Sigs : Owners(x, m)' = Owners(x, m)
        /\ \A x, m : Shared(x, m) => Shared(x, m)'
    <3>1. source[s].pc \notin {"new", "failed"} /\ source'[s].pc # "new"
      BY <1>1, <2>2
    <3> QED BY <1>1, <2>2, <2>3, <3>1, SameMasks
  <2>5. SigTypeOK' /\ AloneNeverHangs'
    BY <1>1, <2>1, <2>2, <2>4 DEF SigTypeOK, AloneNeverHangs
  <2>6. CallInv'
    BY <1>1, <2>2 DEF CallInv, Busy, Ending
  <2>7. \A u \in Sources : Ending(u) => GivesBack(u)'
    BY <2>2, <2>4, GivesBackStays, FieldLemma DEF DrainInv, DrainOK
  <2>8. Busy(s) /\ n \in source[s].want
    BY <1>1 DEF DrainInv, DrainOK, Busy, Ending
  <2>9. \A u \in Sources : u # s /\ source[u].pc \in {"took", "drained"} =>
           \A m \in source[u].todo : m \in pending' \/ Shared(source[u].thread, m)
    <3>1. \A u \in Sources : u # s /\ Busy(u) => source[u].thread # source[s].thread
      BY <2>8 DEF CallInv
    <3>2. \A x : x # source[s].thread => Shared(x, n)
      BY <1>1, <2>8 DEF Shared
    <3> QED BY <2>1, <3>1, <3>2 DEF DrainInv, DrainOK, Busy, Ending
  <2>10. source[s].pc \in {"took", "drained"} =>
            \A m \in source'[s].todo : m \in pending' \/ Shared(source[s].thread, m)
    BY <2>1, <2>2 DEF DrainInv, DrainOK
  <2>11. DrainInv'
    BY <1>1, <2>1, <2>2, <2>3, <2>4, <2>7, <2>9, <2>10 DEF DrainInv, DrainOK, Busy, Ending
  <2> QED BY <2>4, <2>5, <2>6, <2>11
<1>3. CASE SigwaitBlocks(s, n)
  <2>1. /\ n \notin pending /\ hung' = hung \cup {<<source[s].thread, n>>}
        /\ UNCHANGED <<pending, source>>
    BY <1>3 DEF SigwaitBlocks
  <2>2. Shared(source[s].thread, n)
    BY <1>1, <2>1 DEF DrainInv, DrainOK
  <2>3. \A x, m : Shared(x, m)' <=> Shared(x, m)
    BY <2>1 DEF Shared
  <2>4. AloneNeverHangs'
    BY <2>1, <2>2, <2>3 DEF AloneNeverHangs
  <2>5. SigTypeOK' /\ CallInv' /\ KilledInv'
    BY <1>1, <2>1 DEF SigTypeOK, CallInv, KilledInv, Busy, Ending
  <2>6. CountInv'
    BY <1>1, <2>1, SameCounts DEF Owners, Owning
  <2>7. MaskInv'
    BY <1>1, <2>1 DEF MaskInv, Blocks, Passed, Owning, Ending, Spent
  <2>8. DrainInv'
    BY <1>1, <2>1, <2>3 DEF DrainInv, DrainOK, Busy, Ending, Owners, Owning, GivesBack
  <2> QED BY <2>4, <2>5, <2>6, <2>7, <2>8
<1> QED BY <1>1, <1>2, <1>3

\* The last step of beans_signal_close: the mask comes back.
LEMMA CloseEndsStep ==
    ASSUME SigInv, NEW s \in Sources, CloseEnds(s),
           NEW t, t = source[s].thread, NEW rel, rel = source[s].rel
    PROVE  SigInv'
<1> USE DEF SigInv
<1>1. /\ source[s].pc = "drained" /\ killed = {}
      /\ mask' = [mask EXCEPT ![t] = @ \ rel]
      /\ killed' = killed \cup {<<n, t>> : n \in pending \cap rel}
      /\ source' = [source EXCEPT ![s].pc = "closed"]
      /\ UNCHANGED <<counts, alive, inherited, pending, hung>>
  BY DEF CloseEnds, At
<1>2. /\ source'[s].pc = "closed" /\ source'[s].thread = t /\ source'[s].want = source[s].want
      /\ source'[s].told = source[s].told
      /\ \A u \in Sources : u # s => source'[u] = source[u]
      /\ source' \in [Sources -> Fields] /\ t \in SignalThreads
  BY <1>1 DEF SigTypeOK, Fields
<1>a. /\ rel = {n \in source[s].want : Owners(t, n) = {}} /\ source[s].told \subseteq source[s].want
      /\ Busy(s) /\ Ending(s)
  BY <1>1 DEF DrainInv, DrainOK, GivesBack, Ending, Busy
<1>b. \A u \in Sources : Ending(u) /\ source[u].thread = t => u = s
  BY <1>a DEF CallInv, Busy
<1>3. SigTypeOK'
  BY <1>1, <1>2 DEF SigTypeOK
<1>4. \A x \in SignalThreads, n \in Sigs : Owners(x, n)' = Owners(x, n)
  BY <1>1, <1>2 DEF Owners, Owning
<1>5. CountInv'
  BY <1>1, <1>4, SameCounts
<1>6. \A x, n : Shared(x, n) => Shared(x, n)'
  BY <1>1, <1>2 DEF Shared
<1>7. CallInv' /\ AloneNeverHangs'
  BY <1>1, <1>2, <1>6 DEF CallInv, AloneNeverHangs, Busy, Ending
<1>8. KilledInv'
  BY <1>1, <1>2 DEF KilledInv, SigTypeOK
<1>9. DrainInv'
  <2>1. \A u \in Sources : u # s /\ Ending(u) => GivesBack(u)'
    BY <1>2, <1>4, GivesBackStays, FieldLemma DEF DrainInv, DrainOK
  <2> QED BY <1>1, <1>2, <1>6, <1>a, <2>1 DEF DrainInv, DrainOK, Busy, Ending
<1>10. MaskInv'
  <2> SUFFICES ASSUME NEW x \in SignalThreads, NEW n \in Sigs
               PROVE  n \in mask'[x] <=> Blocks(x, n)'
    BY DEF MaskInv
  <2>1. CASE x # t \/ n \notin source[s].want
    <3>1. n \in mask'[x] <=> n \in mask[x]
      BY <1>1, <1>2, <1>a, <2>1 DEF SigTypeOK
    <3>2. Blocks(x, n)' <=> Blocks(x, n)
      BY <1>1, <1>2, <1>a, <2>1 DEF Blocks, Passed, Owning, Ending, Spent
    <3> QED BY <3>1, <3>2 DEF MaskInv
  <2>2. CASE x = t /\ n \in source[s].want
    <3>1. Spent(s)' /\ source'[s].thread = t /\ n \in source'[s].want
      BY <1>2, <2>2 DEF Spent
    <3>2. \A u \in Sources : Ending(u)' => source'[u].thread # t
      BY <1>2, <1>b DEF Ending
    <3>3. Blocks(x, n)' <=> Owners(t, n)' # {}
      BY <2>2, <3>1, <3>2 DEF Blocks, Owners
    <3>4. CASE n \in rel
      BY <1>1, <1>2, <1>4, <1>a, <2>2, <3>3, <3>4 DEF SigTypeOK
    <3>5. CASE n \notin rel
      <4>1. Owners(t, n) # {}
        BY <1>a, <2>2, <3>5
      <4>2. n \in mask[t]
        <5>1. Blocks(t, n)
          BY <4>1 DEF Blocks, Owners
        <5> QED BY <1>2, <5>1 DEF MaskInv
      <4> QED BY <1>1, <1>2, <1>4, <2>2, <3>3, <3>5, <4>1, <4>2 DEF SigTypeOK
    <3> QED BY <3>4, <3>5
  <2> QED BY <2>1, <2>2
<1> QED BY <1>3, <1>5, <1>7, <1>8, <1>9, <1>10

LEMMA SigStep == ASSUME SigInv, [SignalNext]_signalVars PROVE SigInv'
<1>1. CASE Spawn
  BY <1>1, SpawnStep
<1>2. ASSUME NEW n \in Sigs, Raise(n) PROVE SigInv'
  BY <1>2, RaiseStep
<1>3. ASSUME NEW t \in SignalThreads, NEW s \in Sources, NEW want \in (SUBSET Sigs) \ {{}},
             Watch(t, s, want) \/ WatchFails(t, s, want)
      PROVE  SigInv'
  BY <1>3, WatchStep, WatchFailsStep
<1>4. ASSUME NEW t \in SignalThreads, NEW s \in Sources,
             TakeFd(t, s) \/ TakeKqueue(t, s) \/ CloseDrop(t, s)
      PROVE  SigInv'
  BY <1>4, TakeFdStep, TakeKqueueStep, CloseDropStep
<1>5. ASSUME NEW s \in Sources, DrainLook(s) \/ DrainWait(s) \/ TakeEnds(s) \/ CloseEnds(s)
      PROVE  SigInv'
  <2>1. Main \in SignalThreads
    BY DEF SignalThreads
  <2> QED BY <1>5, <2>1, DrainLookStep, DrainWaitStep, TakeKqueueStep, CloseEndsStep
<1>6. CASE UNCHANGED signalVars
  <2>1. CountInv'
    BY <1>6, SameCounts DEF signalVars, SigInv, Owners, Owning
  <2>2. SigTypeOK' /\ CallInv' /\ KilledInv' /\ AloneNeverHangs'
    BY <1>6 DEF signalVars, SigInv, SigTypeOK, CallInv, KilledInv, AloneNeverHangs, Shared, Busy, Ending
  <2>3. DrainInv' /\ MaskInv'
    BY <1>6 DEF signalVars, SigInv, DrainInv, DrainOK, GivesBack, MaskInv, Shared, Blocks, Passed,
                Owners, Owning, Busy, Ending, Spent
  <2> QED BY <2>1, <2>2, <2>3 DEF SigInv
<1> QED BY <1>1, <1>2, <1>3, <1>4, <1>5, <1>6 DEF SignalNext

\* beans_signal_watch, beans_signal_take and beans_signal_close, for any sources
\* and signals of two threads: a thread blocks exactly what its sources ask for
\* and what it inherited and did not give back, an old signal is gone before it
\* is unblocked, a drain hangs only on a signal that another thread watched too,
\* and a watched signal takes its default action only on a thread without the block.
THEOREM SignalsCorrect == SignalSpec => []SignalsKept
<1>1. SignalInit => SigInv
  BY InitSignals
<1>2. SigInv /\ [SignalNext]_signalVars => SigInv'
  BY SigStep
<1>3. SigInv => SignalsKept
  <2> SUFFICES ASSUME SigInv PROVE SignalsKept
    OBVIOUS
  <2> USE DEF SigInv
  <2>1. MasksComeBack
    <3> SUFFICES ASSUME NEW t \in SignalThreads
                 PROVE  mask[t] = Watched(t) \cup Releasing(t) \cup (Passed(t) \ GivenUp(t))
      BY DEF MasksComeBack
    <3>1. \A n : n \in Watched(t) <=>
             \E s \in Sources : Owning(s) /\ source[s].thread = t /\ n \in source[s].want
      BY DEF Watched, Wants, Owning
    <3>2. \A n : n \in Releasing(t) <=>
             \E s \in Sources : Ending(s) /\ source[s].thread = t /\ n \in source[s].rel
      BY DEF Releasing, Ending
    <3>3. \A n : n \in GivenUp(t) <=>
             \E s \in Sources : Spent(s) /\ source[s].thread = t /\ n \in source[s].want
      BY DEF GivenUp, Wants, Spent
    <3>4. mask[t] \subseteq Sigs /\ Passed(t) \subseteq Sigs
      BY DEF SigTypeOK, Passed
    <3>5. \A n : Blocks(t, n) => n \in Sigs
      BY <3>4, FieldLemma DEF Blocks
    <3>6. \A n : n \in mask[t] <=> Blocks(t, n)
      BY <3>4, <3>5 DEF MaskInv
    <3> QED BY <3>1, <3>2, <3>3, <3>6 DEF Blocks
  <2>2. OldSignalsAreGone
    BY DEF DrainInv, DrainOK, OldSignalsAreGone, At
  <2>3. WatchedIsSafe
    BY <2>1 DEF WatchedIsSafe, KilledInv, MasksComeBack
  <2> QED BY <2>1, <2>2, <2>3 DEF SignalsKept
<1> QED BY <1>1, <1>2, <1>3, PTL DEF SignalSpec

-----------------------------------------------------------------------------
(* PollWake.                                                               *)

PollerFields == [pc : {"new", "failed", "idle", "kernel", "drain", "closing", "closed"},
                 handle : Nat, num : Nums \union {0}, left : Int, woken : BOOLEAN]

WakeTypeOK ==
    /\ table \in [TableIs -> [num : Nums \union {0}, gen : Nat, live : BOOLEAN]]
    /\ holder \in [Nums -> Pollers \union {"file", "free"}]
    /\ poller \in [Pollers -> PollerFields]
    /\ pipe \in [Pollers -> Nat]
    /\ busy \in [Threads -> [pc : {"idle", "write"}, handle : Nat, num : Nums \union {0}]]
    /\ issued \subseteq Nat \X Pollers

\* A poller that is open, and one whose slot was given back.
InUse(p) == poller[p].pc \in {"idle", "kernel", "drain"}
Gone     == {p \in Pollers : poller[p].pc \in {"closing", "closed"}}

\* A generation more for every close, so a handle has room for all of them.
GenInv == \A i \in TableIs : table[i].gen <= Cardinality(Gone) + 1

\* A handle is of the generation its slot has now, and then of the poller that
\* is in it, or of an earlier one.
IssuedInv ==
    \A x \in issued :
      /\ SlotOf(x[1]) \in TableIs /\ GenOf(x[1]) \in Nat
      /\ x[1] = Handle(SlotOf(x[1]), GenOf(x[1]))
      /\ GenOf(x[1]) <= table[SlotOf(x[1])].gen
      /\ GenOf(x[1]) = table[SlotOf(x[1])].gen => table[SlotOf(x[1])].live
      /\ Known(x[1]) => InUse(x[2]) /\ poller[x[2]].handle = x[1]

\* An open poller is in the table under its handle with the pipe it holds, and
\* keeps the pipe until it has closed it.
OpenInv ==
    \A p \in Pollers :
      /\ InUse(p) => /\ <<poller[p].handle, p>> \in issued /\ Known(poller[p].handle)
                     /\ table[SlotOf(poller[p].handle)].num = poller[p].num
      /\ InUse(p) \/ poller[p].pc = "closing" =>
            poller[p].num \in Nums /\ holder[poller[p].num] = p

\* A thread about to write holds the lock, and its handle is still in the table.
LockInv ==
    \A t \in Threads : busy[t].pc = "write" =>
      /\ lock = t /\ Known(busy[t].handle)
      /\ busy[t].num = table[SlotOf(busy[t].handle)].num

PokedInv == poked \subseteq Pollers /\ \A p \in poked : InUse(p)

WakesInv == WakeTypeOK /\ GenInv /\ IssuedInv /\ OpenInv /\ LockInv /\ PokedInv /\ WakesArrive

-----------------------------------------------------------------------------
LEMMA DivLemma ==
    ASSUME NEW n \in Nat, n > 0, NEW a \in Nat, NEW g \in 0..n-1
    PROVE  ((a * n) + g) \div n = a /\ ((a * n) + g) % n = g
<1> DEFINE x == (a * n) + g
           q == x \div n
<1>1. x \in Nat
  OBVIOUS
<1>2. q \in Int /\ x % n \in 0..n-1 /\ x = (q * n) + (x % n)
  BY <1>1
<1> HIDE DEF x, q
<1>3. (q - a) * n = g - (x % n)
  BY <1>2 DEF x
<1>4. ~ (q - a >= 1)
  <2> SUFFICES ASSUME q - a >= 1 PROVE FALSE OBVIOUS
  <2>1. (q - a) * n >= n
    BY <1>2
  <2> QED BY <2>1, <1>2, <1>3
<1>5. ~ (a - q >= 1)
  <2> SUFFICES ASSUME a - q >= 1 PROVE FALSE OBVIOUS
  <2>1. (a - q) * n >= n
    BY <1>2
  <2>2. (a - q) * n = (x % n) - g
    BY <1>2, <1>3
  <2> QED BY <2>1, <2>2, <1>2
<1>6. q = a
  BY <1>2, <1>4, <1>5
<1> QED BY <1>2, <1>3, <1>6 DEF x, q

LEMMA HandleLemma ==
    ASSUME NEW i \in TableIs, NEW g \in Nat, g < GenSpan
    PROVE  /\ Handle(i, g) \in Nat
           /\ SlotOf(Handle(i, g)) = i /\ GenOf(Handle(i, g)) = g
<1>1. GenSpan \in Nat /\ GenSpan > 0 /\ i + 1 \in Nat /\ g \in 0..GenSpan-1
  BY WakeConstants DEF TableIs
<1>2. ((i + 1) * GenSpan) + g \in Nat
  BY <1>1
<1> QED BY <1>1, <1>2, DivLemma DEF Handle, SlotOf, GenOf, TableIs

LEMMA FirstFreeLemma ==
    ASSUME WakeTypeOK, FreeSlots # {}
    PROVE  FirstFree \in TableIs /\ ~table[FirstFree].live
<1>1. FreeSlots \in SUBSET Nat
  BY WakeConstants DEF FreeSlots, TableIs
<1>2. \E i \in FreeSlots : \A j \in FreeSlots : i <= j
  BY <1>1, LeastLemma
<1>3. FirstFree \in FreeSlots
  BY <1>2 DEF FirstFree
<1> QED BY <1>3 DEF FreeSlots

\* Pollers are never more than the generations of a handle.
LEMMA GoneLemma ==
    ASSUME NEW p \in Pollers, p \notin Gone
    PROVE  /\ IsFiniteSet(Gone) /\ Cardinality(Gone) \in Nat
           /\ Cardinality(Gone) + 1 < GenSpan
<1>1. IsFiniteSet(Gone) /\ Gone \subseteq Pollers
  BY WakeConstants, FS_Subset DEF Gone
<1>2. Cardinality(Gone \union {p}) = Cardinality(Gone) + 1
  BY <1>1, FS_AddElement
<1>3. Cardinality(Gone \union {p}) <= Cardinality(Pollers)
  BY <1>1, FS_Subset, WakeConstants
<1> QED BY <1>1, <1>2, <1>3, FS_CardinalityType, WakeConstants

LEMMA InitWakes == ASSUME WakeInit PROVE WakesInv
<1>1. WakeTypeOK
  BY DEF WakeInit, WakeTypeOK, PollerFields
<1>2. Gone = {}
  BY DEF WakeInit, Gone
<1>3. GenInv
  BY <1>2, FS_EmptySet DEF WakeInit, GenInv
<1>4. IssuedInv /\ OpenInv /\ LockInv /\ PokedInv /\ WakesArrive
  BY DEF WakeInit, IssuedInv, OpenInv, LockInv, PokedInv, InUse, WakesArrive, NoStrayByte,
         WakeNotLost, HandlesDiffer
<1> QED BY <1>1, <1>3, <1>4 DEF WakesInv

\* Two open pollers are in different slots.
LEMMA SlotsDiffer ==
    ASSUME WakesInv, NEW p \in Pollers, NEW u \in Pollers, InUse(p), InUse(u),
           SlotOf(poller[p].handle) = SlotOf(poller[u].handle)
    PROVE  p = u
<1>1. /\ <<poller[p].handle, p>> \in issued /\ Known(poller[p].handle)
      /\ <<poller[u].handle, u>> \in issued /\ Known(poller[u].handle)
  BY DEF WakesInv, OpenInv
<1>2. GenOf(poller[p].handle) = GenOf(poller[u].handle)
  BY <1>1 DEF Known
<1>3. poller[p].handle = poller[u].handle
  BY <1>1, <1>2 DEF WakesInv, IssuedInv
<1> QED BY <1>1, <1>3 DEF WakesInv, WakesArrive, HandlesDiffer

-----------------------------------------------------------------------------
\* A step that leaves the table, the handles and who holds which pipe alone.
LEMMA QuietKeeps ==
    ASSUME WakesInv, WakeTypeOK', UNCHANGED <<table, issued, stray>>,
           \A u \in Pollers : /\ poller'[u].pc \in {"closing", "closed"} <=> poller[u].pc \in {"closing", "closed"}
                              /\ poller'[u].pc = "closing" => poller[u].pc = "closing"
                              /\ poller'[u].pc \in {"idle", "kernel", "drain"} <=> InUse(u)
                              /\ poller'[u].handle = poller[u].handle /\ poller'[u].num = poller[u].num,
           \A n \in Nums : holder[n] \in Pollers /\ poller'[holder[n]].pc # "closed"
                              => holder'[n] = holder[n],
           LockInv', PokedInv', WakeNotLost'
    PROVE  WakesInv'
<1> USE DEF WakesInv
<1>1. Gone' = Gone
  BY DEF Gone
<1>2. GenInv'
  BY <1>1 DEF GenInv
<1>3. \A x \in issued : x[2] \in Pollers
  BY DEF WakeTypeOK
<1>4. IssuedInv'
  BY <1>3 DEF IssuedInv, Known, InUse
<1>5. OpenInv'
  <2>1. \A u \in Pollers : InUse(u) \/ poller'[u].pc = "closing" => holder'[poller[u].num] = u
    BY DEF OpenInv
  <2> QED BY <2>1 DEF OpenInv, Known, InUse
<1> QED BY <1>2, <1>4, <1>5 DEF WakesArrive, NoStrayByte, HandlesDiffer

\* No thread is about to write while nobody holds the lock.
LEMMA NobodyWrites ==
    ASSUME WakesInv, lock = "none"
    PROVE  \A t \in Threads : busy[t].pc # "write"
BY WakeConstants DEF WakesInv, LockInv

LEMMA OpenFailsKeeps ==
    ASSUME WakesInv, NEW p \in Pollers, PollerAt(p, "new"),
           poller' = [poller EXCEPT ![p].pc = "failed"],
           UNCHANGED <<table, holder, issued, pipe, busy, lock, stray, poked>>
    PROVE  WakesInv'
<1> USE DEF WakesInv
<1>1. poller' \in [Pollers -> PollerFields]
  <2>1. poller[p] \in PollerFields
    BY DEF WakeTypeOK
  <2>2. [poller[p] EXCEPT !.pc = "failed"] \in PollerFields
    BY <2>1 DEF PollerFields
  <2> QED BY <2>2 DEF WakeTypeOK
<1>2. WakeTypeOK'
  BY <1>1 DEF WakeTypeOK
<1>3. \A u \in Pollers : /\ u # p => poller'[u] = poller[u]
                         /\ poller'[p].pc = "failed"
                         /\ poller'[p].handle = poller[p].handle /\ poller'[p].num = poller[p].num
  BY DEF WakeTypeOK, PollerFields
<1>4. LockInv' /\ WakeNotLost' /\ PokedInv'
  BY <1>3 DEF LockInv, Known, PokedInv, InUse, WakesArrive, WakeNotLost, PollerAt
<1> QED BY <1>2, <1>3, <1>4, QuietKeeps DEF PollerAt, InUse

\* A poller that stays open moves in its wait.
LEMMA MovesKeep ==
    ASSUME WakesInv, NEW p \in Pollers, InUse(p), NEW r \in PollerFields,
           poller' = [poller EXCEPT ![p] = r], r.pc \in {"idle", "kernel", "drain"},
           r.handle = poller[p].handle, r.num = poller[p].num,
           pipe' \in [Pollers -> Nat], \A u \in poked' : u \in poked /\ pipe'[u] = pipe[u],
           UNCHANGED <<table, holder, busy, lock, issued, stray>>
    PROVE  WakesInv'
<1> USE DEF WakesInv
<1>1. WakeTypeOK'
  BY DEF WakeTypeOK
<1>2. \A u \in Pollers : /\ u # p => poller'[u] = poller[u]
                         /\ poller'[p] = r
  BY DEF WakeTypeOK
<1>3. LockInv' /\ WakeNotLost' /\ PokedInv'
  BY <1>2 DEF LockInv, Known, PokedInv, InUse, WakesArrive, WakeNotLost
<1> QED BY <1>1, <1>2, <1>3, QuietKeeps DEF InUse

LEMMA WaitKeeps ==
    ASSUME WakesInv, NEW p \in Pollers,
           Wait(p) \/ Tick(p) \/ Interrupted(p) \/ KernelReturns(p) \/ WaitReturns(p)
    PROVE  WakesInv'
<1>1. /\ poller[p] \in PollerFields /\ pipe \in [Pollers -> Nat]
      /\ poller \in [Pollers -> PollerFields] /\ poked \subseteq Pollers
  BY DEF WakesInv, WakeTypeOK, PokedInv
<1>2. CASE Wait(p)
  <2>1. PICK t \in Timeouts : poller' = [poller EXCEPT ![p] =
                                 [poller[p] EXCEPT !.pc = "kernel", !.left = t, !.woken = FALSE]]
    BY <1>1, <1>2 DEF Wait
  <2>2. [poller[p] EXCEPT !.pc = "kernel", !.left = t, !.woken = FALSE] \in PollerFields
    BY <1>1, WakeConstants DEF PollerFields
  <2> QED BY <1>1, <1>2, <2>1, <2>2, MovesKeep DEF Wait, PollerAt, InUse, PollerFields
<1>3. CASE Tick(p)
  <2>1. [poller[p] EXCEPT !.left = poller[p].left - 1] \in PollerFields
    BY <1>1 DEF PollerFields
  <2>2. poller' = [poller EXCEPT ![p] = [poller[p] EXCEPT !.left = poller[p].left - 1]]
    BY <1>1, <1>3 DEF Tick
  <2> QED BY <1>1, <1>3, <2>1, <2>2, MovesKeep DEF Tick, PollerAt, InUse, PollerFields
<1>4. CASE Interrupted(p)
  <2>1. poller' = [poller EXCEPT ![p] = [poller[p] EXCEPT !.left = poller[p].left]]
    BY <1>1, <1>4 DEF Interrupted, Rearmed
  <2>2. [poller[p] EXCEPT !.left = poller[p].left] \in PollerFields
    BY <1>1 DEF PollerFields
  <2> QED BY <1>1, <1>4, <2>1, <2>2, MovesKeep DEF Interrupted, PollerAt, InUse, PollerFields
<1>5. CASE KernelReturns(p)
  <2> DEFINE woken == pipe[p] > 0
  <2>1. poller' = [poller EXCEPT ![p] = [poller[p] EXCEPT !.pc = "drain", !.woken = woken]]
    BY <1>1, <1>5 DEF KernelReturns
  <2>3. woken \in BOOLEAN
    BY <1>1, SMT
  <2> HIDE DEF woken
  <2>2. [poller[p] EXCEPT !.pc = "drain", !.woken = woken] \in PollerFields
    BY <1>1, <2>3 DEF PollerFields
  <2> QED BY <1>1, <1>5, <2>1, <2>2, MovesKeep DEF KernelReturns, PollerAt, InUse, PollerFields
<1>6. CASE WaitReturns(p)
  <2>1. poller' = [poller EXCEPT ![p] = [poller[p] EXCEPT !.pc = "idle"]]
    BY <1>1, <1>6 DEF WaitReturns
  <2>2. [poller[p] EXCEPT !.pc = "idle"] \in PollerFields
    BY <1>1 DEF PollerFields
  <2>3. pipe' \in [Pollers -> Nat] /\ \A u \in poked' : u \in poked /\ pipe'[u] = pipe[u]
    BY <1>1, <1>6 DEF WaitReturns, ToDrain
  <2>4. InUse(p) /\ UNCHANGED <<table, holder, busy, lock, issued, stray>>
    BY <1>6 DEF WaitReturns, PollerAt, InUse
  <2>5. [poller[p] EXCEPT !.pc = "idle"].pc = "idle"
        /\ [poller[p] EXCEPT !.pc = "idle"].handle = poller[p].handle
        /\ [poller[p] EXCEPT !.pc = "idle"].num = poller[p].num
    BY <1>1 DEF PollerFields
  <2> QED BY <2>1, <2>2, <2>3, <2>4, <2>5, MovesKeep
<1> QED BY <1>2, <1>3, <1>4, <1>5, <1>6

\* A file takes no number that a poller holds.
LEMMA OtherFileKeeps == ASSUME WakesInv, OtherFile PROVE WakesInv'
<1> USE DEF WakesInv
<1>1. PICK n \in Nums : \/ holder[n] = "free" /\ holder' = [holder EXCEPT ![n] = "file"]
                        \/ holder[n] = "file" /\ holder' = [holder EXCEPT ![n] = "free"]
  BY DEF OtherFile
<1>2. \A m \in Nums : holder[m] \in Pollers => holder'[m] = holder[m]
  BY <1>1, WakeConstants DEF WakeTypeOK
<1>3. WakeTypeOK'
  BY <1>1 DEF OtherFile, WakeTypeOK
<1>4. LockInv' /\ WakeNotLost' /\ PokedInv'
  BY DEF OtherFile, LockInv, Known, PokedInv, InUse, WakesArrive, WakeNotLost
<1> QED BY <1>2, <1>3, <1>4, QuietKeeps DEF OtherFile, InUse

-----------------------------------------------------------------------------
LEMMA WakeLookKeeps ==
    ASSUME WakesInv, NEW t \in Threads, WakeLook(t)
    PROVE  WakesInv'
<1> USE DEF WakesInv
<1>1. PICK x \in issued :
        IF Known(x[1])
        THEN /\ lock' = t
             /\ busy' = [busy EXCEPT ![t] = [pc |-> "write", handle |-> x[1],
                                             num |-> table[SlotOf(x[1])].num]]
        ELSE UNCHANGED <<lock, busy>>
  BY DEF WakeLook, WakeHolds
<1>2. x[1] \in Nat /\ SlotOf(x[1]) \in TableIs
  BY DEF WakeTypeOK, IssuedInv
<1>3. WakeTypeOK'
  <2>1. table[SlotOf(x[1])].num \in Nums \union {0}
    BY <1>2 DEF WakeTypeOK
  <2> QED BY <1>1, <1>2, <2>1 DEF WakeLook, WakeTypeOK
<1>4. LockInv'
  <2>1. lock = "none" /\ table' = table
    BY DEF WakeLook
  <2>2. \A u \in Threads : busy[u].pc # "write"
    BY <2>1, NobodyWrites
  <2> QED BY <1>1, <2>1, <2>2 DEF LockInv, Known, WakeTypeOK
<1>5. WakeNotLost' /\ PokedInv'
  BY DEF WakeLook, PokedInv, InUse, WakesArrive, WakeNotLost
<1> QED BY <1>3, <1>4, <1>5, QuietKeeps DEF WakeLook, InUse

\* The byte goes into the pipe of the poller the handle was made for.
LEMMA WakeWriteKeeps ==
    ASSUME WakesInv, NEW t \in Threads, WakeWrite(t)
    PROVE  WakesInv'
<1> USE DEF WakesInv
<1>1. PICK p \in Pollers :
        /\ <<busy[t].handle, p>> \in issued
        /\ IF holder[busy[t].num] = p
           THEN /\ pipe' = [pipe EXCEPT ![p] = IF @ < PipeCap THEN @ + 1 ELSE @]
                /\ poked' = poked \union {p} /\ stray' = stray
           ELSE stray' = TRUE /\ UNCHANGED <<pipe, poked>>
  BY DEF WakeWrite
<1>2. /\ lock = t /\ Known(busy[t].handle)
      /\ busy[t].num = table[SlotOf(busy[t].handle)].num
  BY DEF WakeWrite, LockInv
<1>3. InUse(p) /\ poller[p].handle = busy[t].handle
  BY <1>1, <1>2 DEF IssuedInv
<1>4. holder[busy[t].num] = p
  <2>1. table[SlotOf(poller[p].handle)].num = poller[p].num /\ holder[poller[p].num] = p
    BY <1>3 DEF OpenInv
  <2>2. busy[t].num = poller[p].num
    BY <1>2, <1>3, <2>1
  <2> QED BY <2>1, <2>2
<1>5. /\ pipe' = [pipe EXCEPT ![p] = IF @ < PipeCap THEN @ + 1 ELSE @]
      /\ poked' = poked \union {p} /\ stray' = stray
  BY <1>1, <1>4
<1>6. pipe'[p] > 0 /\ pipe' \in [Pollers -> Nat] /\ \A u \in Pollers : u # p => pipe'[u] = pipe[u]
  BY <1>5, WakeConstants DEF WakeTypeOK
<1>7. WakeTypeOK'
  BY <1>6 DEF WakeWrite, WakeTypeOK
<1>8. LockInv'
  <2>1. \A u \in Threads : busy'[u].pc # "write"
    BY <1>2 DEF WakeWrite, LockInv, WakeTypeOK
  <2> QED BY <2>1 DEF LockInv
<1>9. WakeNotLost' /\ PokedInv'
  BY <1>3, <1>5, <1>6 DEF WakeWrite, PokedInv, InUse, WakesArrive, WakeNotLost
<1> QED BY <1>5, <1>7, <1>8, <1>9, QuietKeeps DEF WakeWrite, InUse

-----------------------------------------------------------------------------
\* The number is free for others only once the poller's own pipe is closed.
LEMMA CloseFdsKeeps ==
    ASSUME WakesInv, NEW p \in Pollers, CloseFds(p)
    PROVE  WakesInv'
<1> USE DEF WakesInv
<1>1. /\ poller[p] \in PollerFields /\ poller[p].pc = "closing"
      /\ poller[p].num \in Nums /\ holder[poller[p].num] = p
  BY DEF CloseFds, PollerAt, WakeTypeOK, OpenInv
<1>2. [poller[p] EXCEPT !.pc = "closed"] \in PollerFields
  BY <1>1 DEF PollerFields
<1>3. WakeTypeOK'
  <2>1. poller' \in [Pollers -> PollerFields]
    BY <1>2 DEF CloseFds, WakeTypeOK
  <2> QED BY <2>1 DEF CloseFds, WakeTypeOK
<1>4. \A u \in Pollers : /\ u # p => poller'[u] = poller[u]
                         /\ poller'[p].pc = "closed"
                         /\ poller'[p].handle = poller[p].handle /\ poller'[p].num = poller[p].num
  BY <1>1 DEF CloseFds, WakeTypeOK, PollerFields
<1>5. \A n \in Nums : holder[n] \in Pollers /\ poller'[holder[n]].pc # "closed" => holder'[n] = holder[n]
  BY <1>1, <1>4 DEF CloseFds, WakeTypeOK
<1>6. p \notin poked
  BY <1>1 DEF PokedInv, InUse
<1>7. LockInv' /\ WakeNotLost' /\ PokedInv'
  BY <1>4, <1>6 DEF CloseFds, LockInv, Known, PokedInv, InUse, WakesArrive, WakeNotLost, WakeTypeOK
<1> QED BY <1>1, <1>3, <1>4, <1>5, <1>7, QuietKeeps DEF CloseFds, InUse

\* Every handle made so far names the slot's old generation; nobody is about
\* to write, for the lock is free.
LEMMA PollerDropKeeps ==
    ASSUME WakesInv, NEW p \in Pollers, PollerDrop(p)
    PROVE  WakesInv'
<1> USE DEF WakesInv
<1> DEFINE i == SlotOf(poller[p].handle)
<1>1. /\ poller[p] \in PollerFields /\ InUse(p) /\ poller[p].pc = "idle"
      /\ <<poller[p].handle, p>> \in issued /\ Known(poller[p].handle)
      /\ poller[p].num \in Nums /\ holder[poller[p].num] = p
  BY DEF PollerDrop, PollerAt, WakeTypeOK, OpenInv, InUse
<1>2. i \in TableIs
  BY <1>1 DEF Known
<1> HIDE DEF i
<1>3. [poller[p] EXCEPT !.pc = "closing"] \in PollerFields
  BY <1>1 DEF PollerFields
<1>4. \A u \in Pollers : /\ u # p => poller'[u] = poller[u]
                         /\ poller'[p].pc = "closing"
                         /\ poller'[p].handle = poller[p].handle /\ poller'[p].num = poller[p].num
  BY <1>1 DEF PollerDrop, WakeTypeOK, PollerFields
<1>5. /\ table'[i] = [num |-> 0, gen |-> table[i].gen + 1, live |-> FALSE]
      /\ \A j \in TableIs : j # i => table'[j] = table[j]
      /\ table[i].gen \in Nat
  BY <1>2 DEF PollerDrop, Bumped, WakeTypeOK, i
<1>6. WakeTypeOK'
  <2>1. poller' \in [Pollers -> PollerFields]
    BY <1>3 DEF PollerDrop, WakeTypeOK
  <2>2. table' \in [TableIs -> [num : Nums \union {0}, gen : Nat, live : BOOLEAN]]
    BY <1>2, <1>5 DEF PollerDrop, WakeTypeOK
  <2> QED BY <2>1, <2>2 DEF PollerDrop, WakeTypeOK
<1>7. GenInv'
  <2>1. p \notin Gone /\ Gone' = Gone \union {p}
    BY <1>1, <1>4 DEF Gone
  <2>2. IsFiniteSet(Gone) /\ Cardinality(Gone) \in Nat
    BY <2>1, GoneLemma
  <2>3. Cardinality(Gone') = Cardinality(Gone) + 1
    BY <2>1, <2>2, FS_AddElement
  <2>4. \A j \in TableIs : table[j].gen \in Nat
    BY DEF WakeTypeOK
  <2> QED BY <1>2, <1>5, <2>2, <2>3, <2>4 DEF GenInv
<1>8. \A h : Known(h)' => SlotOf(h) # i /\ Known(h)
  BY <1>5 DEF Known
<1>9. IssuedInv'
  <2> SUFFICES ASSUME NEW x \in issued
               PROVE  /\ GenOf(x[1]) <= table'[SlotOf(x[1])].gen
                      /\ GenOf(x[1]) = table'[SlotOf(x[1])].gen => table'[SlotOf(x[1])].live
                      /\ SlotOf(x[1]) # i /\ Known(x[1]) =>
                            poller'[x[2]].pc \in {"idle", "kernel", "drain"} /\ poller'[x[2]].handle = x[1]
    BY <1>8 DEF PollerDrop, IssuedInv, Known, InUse
  <2>1. /\ SlotOf(x[1]) \in TableIs /\ GenOf(x[1]) \in Nat
        /\ GenOf(x[1]) <= table[SlotOf(x[1])].gen
        /\ GenOf(x[1]) = table[SlotOf(x[1])].gen => table[SlotOf(x[1])].live
        /\ Known(x[1]) => InUse(x[2]) /\ poller[x[2]].handle = x[1]
        /\ x[2] \in Pollers
    BY DEF IssuedInv, WakeTypeOK
  <2>2. ASSUME SlotOf(x[1]) # i, Known(x[1]) PROVE x[2] # p
    BY <2>1, <2>2 DEF i
  <2> QED BY <1>4, <1>5, <2>1, <2>2 DEF InUse
<1>10. OpenInv'
  <2> SUFFICES ASSUME NEW u \in Pollers
               PROVE  /\ poller'[u].pc \in {"idle", "kernel", "drain"} =>
                            /\ <<poller'[u].handle, u>> \in issued
                            /\ SlotOf(poller'[u].handle) \in TableIs
                            /\ table'[SlotOf(poller'[u].handle)].live
                            /\ table'[SlotOf(poller'[u].handle)].gen = GenOf(poller'[u].handle)
                            /\ table'[SlotOf(poller'[u].handle)].num = poller'[u].num
                      /\ poller'[u].pc \in {"idle", "kernel", "drain", "closing"} =>
                            poller'[u].num \in Nums /\ holder[poller'[u].num] = u
    BY DEF PollerDrop, OpenInv, InUse, Known
  <2>1. CASE u = p
    BY <1>1, <1>4, <2>1
  <2>2. CASE u # p
    <3>1. poller'[u] = poller[u]
      BY <1>4, <2>2
    <3>2. InUse(u) => SlotOf(poller[u].handle) # i
      BY <1>1, <2>2, SlotsDiffer DEF i
    <3>3. InUse(u) => SlotOf(poller[u].handle) \in TableIs
      BY DEF OpenInv, Known
    <3> QED BY <1>5, <3>1, <3>2, <3>3 DEF OpenInv, InUse, Known
  <2> QED BY <2>1, <2>2
<1>11. LockInv'
  <2>1. \A t \in Threads : busy[t].pc # "write"
    BY NobodyWrites DEF PollerDrop
  <2> QED BY <2>1 DEF LockInv, PollerDrop
<1>12. PokedInv' /\ WakesArrive'
  BY <1>4 DEF PollerDrop, PokedInv, InUse, WakesArrive, WakeNotLost, NoStrayByte, HandlesDiffer
<1> QED BY <1>6, <1>7, <1>9, <1>10, <1>11, <1>12

-----------------------------------------------------------------------------
\* The new handle is not among those made for the slot before, and no other
\* poller is in the slot or has the number.
LEMMA OpenKeeps ==
    ASSUME WakesInv, NEW p \in Pollers, Open(p)
    PROVE  WakesInv'
<1> USE DEF WakesInv
<1> DEFINE f == FirstFree
           g == Started(table[f].gen)
           h == Handle(f, g)
<1>1. PICK n \in Nums :
        /\ holder[n] = "free"
        /\ IF FreeSlots = {}
           THEN /\ poller' = [poller EXCEPT ![p].pc = "failed"]
                /\ UNCHANGED <<table, holder, issued>>
           ELSE /\ holder' = [holder EXCEPT ![n] = p]
                /\ table' = [table EXCEPT ![f] =
                      [num |-> n, gen |-> Started(@.gen), live |-> TRUE]]
                /\ issued' = issued \union {<<Handle(f, table'[f].gen), p>>}
                /\ poller' = [poller EXCEPT ![p] =
                      [@ EXCEPT !.pc = "idle", !.num = n, !.handle = Handle(f, table'[f].gen)]]
  BY DEF Open
<1>2. PollerAt(p, "new") /\ lock = "none" /\ UNCHANGED <<pipe, busy, lock, stray, poked>>
  BY DEF Open
<1>3. CASE FreeSlots = {}
  BY <1>1, <1>2, <1>3, OpenFailsKeeps
<1>4. CASE FreeSlots # {}
  <2>1. f \in TableIs /\ ~table[f].live /\ table[f].gen \in Nat
    BY <1>4, FirstFreeLemma DEF WakeTypeOK
  <2>2. /\ poller[p] \in PollerFields /\ p \notin Gone /\ p \notin poked
        /\ \A m \in Nums : holder[m] \in Pollers => m # n
    BY <1>1, <1>2, WakeConstants DEF WakeTypeOK, Gone, PollerAt, PokedInv, InUse
  <2>3. IsFiniteSet(Gone) /\ Cardinality(Gone) \in Nat /\ Cardinality(Gone) + 1 < GenSpan
    BY <2>2, GoneLemma
  <2>4. /\ g \in Nat /\ g >= 1 /\ g >= table[f].gen /\ g <= Cardinality(Gone) + 1
        /\ g = table[f].gen \/ table[f].gen = 0
    BY <2>1, <2>3 DEF GenInv, Started
  <2>5. g < GenSpan /\ GenSpan \in Nat
    BY <2>3, <2>4, WakeConstants
  <2> HIDE DEF g, f
  <2>6. h \in Nat /\ SlotOf(h) = f /\ GenOf(h) = g
    BY <2>1, <2>4, <2>5, HandleLemma
  <2>7. /\ table'[f] = [num |-> n, gen |-> g, live |-> TRUE]
        /\ \A j \in TableIs : j # f => table'[j] = table[j]
        /\ table' \in [TableIs -> [num : Nums \union {0}, gen : Nat, live : BOOLEAN]]
    <3>1. table' = [table EXCEPT ![f] = [num |-> n, gen |-> g, live |-> TRUE]]
      BY <1>1, <1>4 DEF g
    <3> QED BY <2>1, <2>4, <3>1 DEF WakeTypeOK
  <2>8. /\ issued' = issued \union {<<h, p>>}
        /\ poller' = [poller EXCEPT ![p] =
              [poller[p] EXCEPT !.pc = "idle", !.num = n, !.handle = h]]
        /\ holder' = [holder EXCEPT ![n] = p]
    BY <1>1, <1>4, <2>2, <2>7 DEF WakeTypeOK
  <2> HIDE DEF h
  <2>9. [poller[p] EXCEPT !.pc = "idle", !.num = n, !.handle = h] \in PollerFields
    BY <2>2, <2>6 DEF PollerFields
  <2>10. \A u \in Pollers : /\ u # p => poller'[u] = poller[u]
                            /\ poller'[p].pc = "idle"
                            /\ poller'[p].handle = h /\ poller'[p].num = n
    BY <2>2, <2>8 DEF WakeTypeOK, PollerFields
  <2>11. WakeTypeOK'
    <3>1. poller' \in [Pollers -> PollerFields]
      BY <2>8, <2>9 DEF WakeTypeOK
    <3>2. holder' \in [Nums -> Pollers \union {"file", "free"}] /\ issued' \subseteq Nat \X Pollers
      BY <2>6, <2>8 DEF WakeTypeOK
    <3> QED BY <1>2, <2>7, <3>1, <3>2 DEF WakeTypeOK
  <2>12. GenInv'
    <3>1. Gone' = Gone
      BY <1>2, <2>10 DEF Gone, PollerAt
    <3> QED BY <2>4, <2>7, <3>1 DEF GenInv
  <2>13. \A x \in issued :
            /\ SlotOf(x[1]) \in TableIs /\ GenOf(x[1]) \in Nat
            /\ x[1] = Handle(SlotOf(x[1]), GenOf(x[1]))
            /\ GenOf(x[1]) <= table[SlotOf(x[1])].gen
            /\ GenOf(x[1]) = table[SlotOf(x[1])].gen => table[SlotOf(x[1])].live
            /\ Known(x[1]) => InUse(x[2]) /\ poller[x[2]].handle = x[1]
            /\ x[2] \in Pollers
            /\ SlotOf(x[1]) = f => GenOf(x[1]) < g
    <3> SUFFICES ASSUME NEW x \in issued, SlotOf(x[1]) = f
                 PROVE  GenOf(x[1]) < g
      BY DEF IssuedInv, WakeTypeOK
    <3>1. /\ GenOf(x[1]) \in Nat /\ GenOf(x[1]) <= table[f].gen
          /\ GenOf(x[1]) = table[f].gen => table[f].live
      BY DEF IssuedInv
    <3> QED BY <2>1, <2>4, <3>1
  <2>14. HandlesDiffer'
    <3>1. \A x \in issued : x[1] # h
      BY <2>4, <2>6, <2>13
    <3> QED BY <2>8, <3>1 DEF WakesArrive, HandlesDiffer
  <2>15. IssuedInv'
    <3> SUFFICES ASSUME NEW x \in issued \union {<<h, p>>}
                 PROVE  /\ SlotOf(x[1]) \in TableIs /\ GenOf(x[1]) \in Nat
                        /\ x[1] = Handle(SlotOf(x[1]), GenOf(x[1]))
                        /\ GenOf(x[1]) <= table'[SlotOf(x[1])].gen
                        /\ GenOf(x[1]) = table'[SlotOf(x[1])].gen => table'[SlotOf(x[1])].live
                        /\ table'[SlotOf(x[1])].live /\ table'[SlotOf(x[1])].gen = GenOf(x[1]) =>
                              poller'[x[2]].pc \in {"idle", "kernel", "drain"} /\ poller'[x[2]].handle = x[1]
      BY <2>8 DEF IssuedInv, Known, InUse
    <3>1. CASE x = <<h, p>>
      BY <2>1, <2>4, <2>6, <2>7, <2>10, <3>1 DEF h
    <3>2. CASE x \in issued
      <4>1. CASE SlotOf(x[1]) = f
        BY <2>4, <2>7, <2>13, <3>2, <4>1
      <4>2. CASE SlotOf(x[1]) # f
        <5>1. table'[SlotOf(x[1])] = table[SlotOf(x[1])]
          BY <2>7, <2>13, <3>2, <4>2
        <5>2. Known(x[1]) => x[2] # p
          BY <1>2, <2>13, <3>2 DEF InUse, PollerAt
        <5> QED BY <2>10, <2>13, <3>2, <5>1, <5>2 DEF Known, InUse
      <4> QED BY <4>1, <4>2
    <3> QED BY <3>1, <3>2
  <2>16. OpenInv'
    <3> SUFFICES ASSUME NEW u \in Pollers
                 PROVE  /\ poller'[u].pc \in {"idle", "kernel", "drain"} =>
                              /\ <<poller'[u].handle, u>> \in issued'
                              /\ SlotOf(poller'[u].handle) \in TableIs
                              /\ table'[SlotOf(poller'[u].handle)].live
                              /\ table'[SlotOf(poller'[u].handle)].gen = GenOf(poller'[u].handle)
                              /\ table'[SlotOf(poller'[u].handle)].num = poller'[u].num
                        /\ poller'[u].pc \in {"idle", "kernel", "drain", "closing"} =>
                              poller'[u].num \in Nums /\ holder'[poller'[u].num] = u
      BY DEF OpenInv, InUse, Known
    <3>1. CASE u = p
      BY <2>1, <2>6, <2>7, <2>8, <2>10, <3>1 DEF WakeTypeOK
    <3>2. CASE u # p
      <4>1. poller'[u] = poller[u]
        BY <2>10, <3>2
      <4>2. InUse(u) => SlotOf(poller[u].handle) \in TableIs \ {f}
        BY <2>1 DEF OpenInv, Known
      <4>3. InUse(u) \/ poller[u].pc = "closing" => holder'[poller[u].num] = u
        BY <2>2, <2>8 DEF OpenInv, WakeTypeOK
      <4>4. InUse(u) => table'[SlotOf(poller[u].handle)] = table[SlotOf(poller[u].handle)]
        BY <2>7, <4>2
      <4>5. InUse(u) => <<poller[u].handle, u>> \in issued'
        BY <2>8 DEF OpenInv
      <4> QED BY <4>1, <4>2, <4>3, <4>4, <4>5 DEF OpenInv, InUse, Known
    <3> QED BY <3>1, <3>2
  <2>17. LockInv'
    <3>1. \A t \in Threads : busy[t].pc # "write"
      BY <1>2, NobodyWrites
    <3> QED BY <1>2, <3>1 DEF LockInv
  <2>18. PokedInv' /\ NoStrayByte' /\ WakeNotLost'
    BY <1>2, <2>2, <2>10 DEF PokedInv, InUse, WakesArrive, WakeNotLost, NoStrayByte
  <2> QED BY <2>11, <2>12, <2>14, <2>15, <2>16, <2>17, <2>18 DEF WakesArrive
<1> QED BY <1>3, <1>4

-----------------------------------------------------------------------------
LEMMA WakesStutter == ASSUME WakesInv, UNCHANGED wakeVars PROVE WakesInv'
BY DEF wakeVars, WakesInv, WakeTypeOK, GenInv, Gone, IssuedInv, OpenInv, LockInv, PokedInv, Known,
       InUse, WakesArrive, NoStrayByte, WakeNotLost, HandlesDiffer

\* However often slots and descriptor numbers are used again, a wake reaches the
\* poller its handle was made for and no other, and stays until it is seen
\* (beans_poll_wake, poll_waker_add, poll_waker_drop, beans_poll_close).
THEOREM WakesCorrect == WakeSpec => []WakesArrive
<1>1. ASSUME WakesInv, [WakeNext]_wakeVars PROVE WakesInv'
  BY <1>1, OpenKeeps, WaitKeeps, PollerDropKeeps, CloseFdsKeeps, WakeLookKeeps, WakeWriteKeeps,
     OtherFileKeeps, WakesStutter DEF WakeNext
<1>2. WakesInv => WakesArrive
  BY DEF WakesInv
<1> QED BY InitWakes, <1>1, <1>2, PTL DEF WakeSpec

-----------------------------------------------------------------------------
(* TlsSession.                                                             *)

\* What is asked of the constants: SChannel takes at least one byte a message.
MessagesHold == MaxMessage \in Nat \ {0}

SessionFields ==
    {"be", "hello", "phase", "in", "out", "rec", "plain", "done", "closed", "close_sent",
     "chosen", "call", "ended", "got", "sent", "socket"}
Calls == {"none", "handshake", "handshake pump", "read", "read pump"}
Endings == {"open", "closed", "eof", "timeout", "protocol", "handshake"}
BackendNames == {b[1] : b \in Backends} \union {b[2] : b \in Backends}
NoHello == [name |-> "", alpn |-> {}]
\* What a server may pick, and what a record may carry.
Picks == {<<ChosenIdentity(be, h.name), OsslAlpn(h.alpn)>> : be \in BackendNames, h \in Hellos \union {NoHello}}
Payloads == Hellos \union {NoHello} \union Picks \union Seq(Nat) \union {""}
Units == {"hello", "flight", "finish", "alert", "data", "close"} \X Payloads \X {1, 2}

IsBuf(b) == DOMAIN b = {"d", "head", "cap"} /\ b.d \in Seq(Units) /\ b.head \in 0..Len(b.d)

Sound(x) ==
    /\ DOMAIN x = SessionFields
    /\ IsBuf(x.in) /\ IsBuf(x.out)
    /\ x.rec \in Seq(Units) /\ Len(x.rec) <= 2 /\ (x.be # "securetransport" => x.rec = <<>>)
    /\ x.plain \in Seq(Nat) /\ x.got \in Seq(Nat) /\ x.sent \in Seq(Nat)
    /\ x.phase \in {"start", "sent", "auth", "done"} /\ x.call \in Calls
    /\ x.ended \in Endings
    /\ x.done \in BOOLEAN /\ x.closed \in BOOLEAN /\ x.close_sent \in BOOLEAN /\ x.socket \in BOOLEAN
\* A session between two calls: nothing is left in its output buffer.
IsSession(x) == Sound(x) /\ Content(x.out) = <<>>

SessionTypeOK ==
    /\ DOMAIN session = Sides /\ \A e \in Sides : IsSession(session[e])
    /\ session.client.hello \in Hellos /\ \A e \in Sides : session[e].be \in BackendNames
    /\ wire \in [Sides -> Seq(Units)] /\ fin \in [Sides -> BOOLEAN]
    /\ trust \in BOOLEAN /\ cut \in BOOLEAN

\* The units a session holds that it has not used, and all that is on its way
\* to a side.
Stock(x) == x.rec \o Content(x.in)
Pipe(e) == Stock(session[e]) \o wire[e]

\* The whole records in p say how many bytes were written after each of them:
\* `base' bytes came before p and n were written in all.
Numbered(p, pos, k, n) ==
    \A j \in 1..k :
        /\ p[2 * j - 1][1] = "data" =>
             /\ p[2 * j - 1][2] \in Seq(Nat) /\ Len(p[2 * j - 1][2]) > 0
             /\ pos[j] = pos[j - 1] + Len(p[2 * j - 1][2])
             /\ \A i \in 1..Len(p[2 * j - 1][2]) : p[2 * j - 1][2][i] = pos[j - 1] + i
        /\ p[2 * j - 1][1] # "data" => pos[j] = pos[j - 1]
        /\ p[2 * j - 1][1] = "close" => j = k /\ pos[j] = n
Flows(p, base, n, whole) ==
    \E k \in Nat : \E pos \in [0..k -> Nat] :
        /\ Len(p) = 2 * k \/ (~whole /\ Len(p) = 2 * k - 1)
        /\ pos[0] = base /\ (whole => pos[k] = n) /\ \A j \in 0..k : pos[j] <= n
        /\ Numbered(p, pos, k, n)

Whole(p) == {j \in 1..Len(p) : 2 * j <= Len(p) + 1}
Kind(p, j) == p[2 * j - 1][1]
OnlyData(p) == \A j \in Whole(p) : Kind(p, j) \in {"data", "close"}

\* Every byte is numbered; what was read, what was decrypted and what is on its
\* way (p) are all that was written; a close_notify comes last.
Arrives(sent, close_sent, got, plain, closed, p, whole) ==
    /\ \A i \in 1..Len(sent) : sent[i] = i
    /\ \A i \in 1..Len(got) : got[i] = i
    /\ \A i \in 1..Len(plain) : plain[i] = Len(got) + i
    /\ Flows(p, Len(got) + Len(plain), Len(sent), whole)
    /\ closed => close_sent /\ p = <<>> /\ Len(got) + Len(plain) = Len(sent)
    /\ \A j \in Whole(p) : Kind(p, j) = "close" => close_sent
    /\ close_sent /\ whole =>
         closed \/ \E j \in Whole(p) : Len(p) = 2 * j /\ Kind(p, j) = "close"

DataInv ==
    \A e \in Sides :
        LET x == session[e]
            w == session[Peer(e)]
        IN  Arrives(w.sent, w.close_sent, x.got, x.plain, x.closed, Pipe(e), ~cut)

\* Who is where in the handshake and what is on its way: c is the client, v the
\* server, ok the platform's verdict on the server's chain.
Phases(c, v, toServer, toClient, whole, ok) ==
    /\ v.phase \in {"start", "sent", "done"}
    /\ v.done <=> v.phase = "done"
    /\ c.done => c.phase = "done" /\ ok
    /\ c.phase = "done" /\ ok => c.done
    /\ c.phase = "auth" => ~ok
    /\ v.phase = "start" =>
         /\ c.phase \in {"start", "sent"} /\ toClient = <<>> /\ Len(toServer) <= 2
         /\ toServer # <<>> => c.phase = "sent" /\ toServer[1][1] = "hello" /\ toServer[1][2] = c.hello
         /\ c.phase = "sent" /\ whole => Len(toServer) = 2
    /\ v.phase = "sent" => c.phase # "start"
    /\ v.phase = "sent" /\ c.phase = "sent" =>
         /\ toServer = <<>> /\ Len(toClient) <= 2
         /\ toClient # <<>> => toClient[1][1] = "flight" /\ toClient[1][2] = v.chosen
         /\ whole => Len(toClient) = 2
    /\ v.phase = "sent" /\ c.phase \in {"auth", "done"} =>
         /\ toClient = <<>> /\ c.chosen = v.chosen
         /\ toServer # <<>> => Kind(toServer, 1) = IF c.phase = "done" THEN "finish" ELSE "alert"
         /\ \A j \in Whole(toServer) : j > 1 => Kind(toServer, j) \in {"data", "close"}
         /\ c.phase = "auth" => Len(toServer) <= 2
         /\ c.phase = "done" /\ whole => Len(toServer) >= 2
    /\ v.phase = "done" =>
         c.phase = "done" /\ c.chosen = v.chosen /\ OnlyData(toServer) /\ OnlyData(toClient)
PhaseInv == Phases(session.client, session.server, Pipe("server"), Pipe("client"), ~cut, trust)

\* Where each side stands in its calls.
Stands(x) ==
    /\ ~x.done => /\ x.sent = <<>> /\ x.got = <<>> /\ x.plain = <<>>
                  /\ ~x.close_sent /\ ~x.closed
                  /\ x.call \in {"none", "handshake", "handshake pump"}
    /\ x.done => x.call \in {"none", "read", "read pump"}
    /\ x.call \in {"handshake", "handshake pump"} => x.phase \in {"start", "sent"}
    /\ x.call \in {"handshake pump", "read pump"} => Len(Stock(x)) <= 1
    /\ x.call = "read pump" => ~x.closed /\ x.plain = <<>>
    /\ x.call # "none" => x.ended = "open" /\ x.socket
    /\ x.done => x.ended \in {"open", "closed", "eof", "timeout"}
    /\ x.ended = "closed" => x.closed /\ x.plain = <<>>
StandsInv == \A e \in Sides : Stands(session[e])

\* What a side knows that is told of a truncation no cut has caused: w, its
\* peer, has left without a close_notify and is gone.
LeftBehind(x, w) == ~w.socket /\ ~w.close_sent /\ x.got = w.sent

\* While nothing is cut, a stream ends because its writer said so or is gone.
EndInv ==
    ~cut => \A e \in Sides :
        /\ fin[e] => session[Peer(e)].close_sent \/ ~session[Peer(e)].socket
        /\ session[e].done /\ session[e].ended = "eof" => LeftBehind(session[e], session[Peer(e)])

SessionInv == SessionTypeOK /\ DataInv /\ PhaseInv /\ StandsInv /\ EndInv
-----------------------------------------------------------------------------
\* A sequence cut in two, and what follows a piece of it.
LEMMA CutInTwo ==
  ASSUME NEW U, NEW q \in Seq(U), NEW m \in 0..Len(q)
  PROVE  /\ Len(q) \in Nat
         /\ SubSeq(q, 1, m) \in Seq(U) /\ Len(SubSeq(q, 1, m)) = m
         /\ \A i \in 1..m : SubSeq(q, 1, m)[i] = q[i]
         /\ SubSeq(q, m + 1, Len(q)) \in Seq(U) /\ Len(SubSeq(q, m + 1, Len(q))) = Len(q) - m
         /\ \A i \in 1..(Len(q) - m) : SubSeq(q, m + 1, Len(q))[i] = q[m + i]
         /\ SubSeq(q, 1, m) \o SubSeq(q, m + 1, Len(q)) = q
<1>1. Len(q) \in Nat /\ \A i \in 1..Len(q) : q[i] \in U
  BY LenProperties, ElementOfSeq
<1>2. /\ SubSeq(q, 1, m) \in Seq(U) /\ Len(SubSeq(q, 1, m)) = m
      /\ \A i \in 1..m : SubSeq(q, 1, m)[i] = q[i]
  <2>1. /\ SubSeq(q, 1, m) \in Seq(U)
        /\ Len(SubSeq(q, 1, m)) = IF 1 <= m THEN m - 1 + 1 ELSE 0
        /\ \A i \in 1 .. m - 1 + 1 : SubSeq(q, 1, m)[i] = q[1 + i - 1]
    BY <1>1, SubSeqProperties
  <2> QED BY <1>1, <2>1
<1>3. /\ SubSeq(q, m + 1, Len(q)) \in Seq(U) /\ Len(SubSeq(q, m + 1, Len(q))) = Len(q) - m
      /\ \A i \in 1..(Len(q) - m) : SubSeq(q, m + 1, Len(q))[i] = q[m + i]
  <2> DEFINE a == m + 1
             n == Len(q)
  <2>1. a \in Int /\ n \in Int /\ \A i \in a..n : q[i] \in U
    BY <1>1
  <2> HIDE DEF a, n
  <2>2. /\ SubSeq(q, a, n) \in Seq(U)
        /\ Len(SubSeq(q, a, n)) = IF a <= n THEN n - a + 1 ELSE 0
        /\ \A i \in 1 .. n - a + 1 : SubSeq(q, a, n)[i] = q[a + i - 1]
    BY <2>1, SubSeqProperties
  <2> QED BY <1>1, <2>2 DEF a, n
<1>4. SubSeq(q, 1, m) \o SubSeq(q, m + 1, Len(q)) = q
  <2>1. SubSeq(q, 1, m) \o SubSeq(q, m + 1, Len(q)) = SubSeq(q, 1, Len(q))
    <3>1. 1 \in 1 .. Len(q) + 1 /\ m \in 1 - 1 .. Len(q) /\ Len(q) \in m .. Len(q)
      BY <1>1
    <3> QED BY <3>1, ConcatAdjacentSubSeq
  <2> QED BY <2>1, SubSeqFull
<1> QED BY <1>1, <1>2, <1>3, <1>4

LEMMA Joined ==
  ASSUME NEW U, NEW q \in Seq(U), NEW r \in Seq(U)
  PROVE  /\ q \o r \in Seq(U) /\ Len(q \o r) = Len(q) + Len(r) /\ Len(q) \in Nat /\ Len(r) \in Nat
         /\ \A i \in 1..Len(q) : (q \o r)[i] = q[i]
         /\ \A i \in 1..Len(r) : (q \o r)[Len(q) + i] = r[i]
<1>1. Len(q) \in Nat /\ Len(r) \in Nat
  BY LenProperties
<1>2. /\ q \o r \in Seq(U) /\ Len(q \o r) = Len(q) + Len(r)
      /\ \A i \in 1 .. Len(q) + Len(r) : (q \o r)[i] = IF i <= Len(q) THEN q[i] ELSE r[i - Len(q)]
  BY ConcatProperties
<1>3. ASSUME NEW i \in 1..Len(q) PROVE (q \o r)[i] = q[i]
  BY <1>1, <1>2
<1>4. ASSUME NEW i \in 1..Len(r) PROVE (q \o r)[Len(q) + i] = r[i]
  <2> DEFINE j == Len(q) + i
  <2>1. j \in 1 .. Len(q) + Len(r) /\ ~(j <= Len(q)) /\ j - Len(q) = i
    BY <1>1
  <2> HIDE DEF j
  <2>2. (q \o r)[j] = r[j - Len(q)]
    BY <1>2, <2>1
  <2> QED BY <2>1, <2>2 DEF j
<1> QED BY <1>1, <1>2, <1>3, <1>4

LEMMA Regrouped ==
  ASSUME NEW U, NEW q \in Seq(U), NEW r \in Seq(U), NEW w \in Seq(U)
  PROVE  (q \o r) \o w = q \o (r \o w)
OBVIOUS

\* What is left of a concatenation when part of its first piece is taken away.
LEMMA DropOfJoined ==
  ASSUME NEW U, NEW q \in Seq(U), NEW r \in Seq(U), NEW m \in 0..Len(q)
  PROVE  SubSeq(q \o r, m + 1, Len(q \o r)) = SubSeq(q, m + 1, Len(q)) \o r
<1> DEFINE w == q \o r
           l == SubSeq(w, m + 1, Len(w))
           d == SubSeq(q, m + 1, Len(q))
<1>1. /\ w \in Seq(U) /\ Len(w) = Len(q) + Len(r) /\ Len(q) \in Nat /\ Len(r) \in Nat
      /\ \A i \in 1..Len(q) : w[i] = q[i]
      /\ \A i \in 1..Len(r) : w[Len(q) + i] = r[i]
  BY Joined
<1>2. m \in 0..Len(w)
  BY <1>1
<1> HIDE DEF w
<1>3. /\ l \in Seq(U) /\ Len(l) = Len(w) - m
      /\ \A i \in 1..(Len(w) - m) : l[i] = w[m + i]
  BY <1>1, <1>2, CutInTwo
<1>4. d \in Seq(U) /\ Len(d) = Len(q) - m /\ \A i \in 1..(Len(q) - m) : d[i] = q[m + i]
  BY CutInTwo
<1> HIDE DEF l, d
<1>5. /\ d \o r \in Seq(U) /\ Len(d \o r) = Len(d) + Len(r)
      /\ \A i \in 1..Len(d) : (d \o r)[i] = d[i]
      /\ \A i \in 1..Len(r) : (d \o r)[Len(d) + i] = r[i]
  <2>1. d \in Seq(U)
    BY <1>4
  <2> QED BY <2>1, Joined
<1>6. Len(l) = Len(d \o r)
  BY <1>1, <1>3, <1>4, <1>5
<1>7. ASSUME NEW i \in 1..Len(l) PROVE l[i] = (d \o r)[i]
  <2>1. CASE i <= Len(q) - m
    <3>1. i \in 1..Len(d) /\ m + i \in 1..Len(q) /\ i \in 1..(Len(w) - m)
      BY <1>1, <1>3, <1>4, <2>1
    <3> QED BY <3>1, <1>1, <1>3, <1>4, <1>5
  <2>2. CASE i > Len(q) - m
    <3> DEFINE j == i - (Len(q) - m)
    <3>1. j \in 1..Len(r) /\ m + i = Len(q) + j /\ i = Len(d) + j /\ i \in 1..(Len(w) - m)
      BY <1>1, <1>3, <1>4, <2>2
    <3> HIDE DEF j
    <3>2. l[i] = w[Len(q) + j] /\ (d \o r)[i] = r[j]
      BY <3>1, <1>3, <1>5
    <3> QED BY <3>1, <3>2, <1>1
  <2>3. i \in Int /\ Len(q) - m \in Int
    BY <1>1, <1>3
  <2>4. i <= Len(q) - m \/ i > Len(q) - m
    BY <2>3
  <2> QED BY <2>1, <2>2, <2>4
<1>8. l = d \o r
  BY <1>3, <1>5, <1>6, <1>7, SeqEqual
<1> QED BY <1>8 DEF l, d, w

-----------------------------------------------------------------------------
LEMMA ContentIs ==
  ASSUME NEW b, IsBuf(b)
  PROVE  /\ Content(b) \in Seq(Units) /\ Len(Content(b)) = Len(b.d) - b.head
         /\ Len(b.d) \in Nat /\ b.head \in Nat
         /\ (b.head = 0 => Content(b) = b.d)
<1>1. b.d \in Seq(Units) /\ b.head \in 0..Len(b.d)
  BY DEF IsBuf
<1>2. /\ Content(b) \in Seq(Units) /\ Len(Content(b)) = Len(b.d) - b.head /\ Len(b.d) \in Nat
  BY <1>1, CutInTwo DEF Content
<1>3. ASSUME b.head = 0 PROVE Content(b) = b.d
  BY <1>1, <1>3, SubSeqFull DEF Content
<1> QED BY <1>1, <1>2, <1>3

LEMMA RewoundIs ==
  ASSUME NEW b, IsBuf(b)
  PROVE  IsBuf(Rewound(b)) /\ Content(Rewound(b)) = Content(b)
<1>1. CASE b.head = Len(b.d)
  <2> DEFINE c == [b EXCEPT !.d = <<>>, !.head = 0]
  <2>1. Rewound(b) = c /\ c.d = <<>> /\ c.head = 0 /\ DOMAIN c = {"d", "head", "cap"}
    BY <1>1 DEF Rewound, IsBuf
  <2> HIDE DEF c
  <2>2. <<>> \in Seq(Units) /\ Len(<<>>) = 0
    BY EmptySeq
  <2>3. IsBuf(c)
    BY <2>1, <2>2 DEF IsBuf
  <2>4. Content(c) = <<>>
    BY <2>1, <2>3, ContentIs
  <2>5. Content(b) \in Seq(Units) /\ Len(Content(b)) = 0
    BY <1>1, ContentIs
  <2>6. Content(b) = <<>>
    BY <2>5, EmptySeq
  <2> QED BY <2>1, <2>3, <2>4, <2>6
<1>2. CASE b.head # Len(b.d)
  BY <1>2 DEF Rewound
<1> QED BY <1>1, <1>2

LEMMA ClearedIs ==
  ASSUME NEW b, NEW n, IsBuf(b)
  PROVE  IsBuf(Cleared(b, n)) /\ Content(Cleared(b, n)) = Content(b)
<1> DEFINE c == [b EXCEPT !.d = Content(b), !.head = 0]
<1>1. c.d = Content(b) /\ c.head = 0 /\ DOMAIN c = {"d", "head", "cap"}
  BY DEF IsBuf
<1>2. Content(b) \in Seq(Units) /\ Len(Content(b)) \in Nat
  BY ContentIs
<1>3. c = Compacted(b)
  BY DEF Compacted
<1> HIDE DEF c
<1>4. IsBuf(c)
  BY <1>1, <1>2 DEF IsBuf
<1>5. Content(c) = Content(b)
  BY <1>1, <1>4, ContentIs
<1>6. Cleared(b, n) \in {b, c}
  BY <1>3 DEF Cleared
<1> QED BY <1>4, <1>5, <1>6

LEMMA PushedIs ==
  ASSUME NEW b, NEW q \in Seq(Units), IsBuf(b)
  PROVE  IsBuf(Pushed(b, q)) /\ Content(Pushed(b, q)) = Content(b) \o q
<1> DEFINE g == Grown(b, Len(b.d) + Len(q))
           c == [g EXCEPT !.d = @ \o q]
<1>1. g.d = b.d /\ g.head = b.head /\ DOMAIN g = {"d", "head", "cap"}
  BY DEF Grown, IsBuf
<1>2. c.d = b.d \o q /\ c.head = b.head /\ DOMAIN c = {"d", "head", "cap"} /\ Pushed(b, q) = c
  BY <1>1 DEF Pushed
<1> HIDE DEF g, c
<1>3. b.d \in Seq(Units) /\ b.head \in 0..Len(b.d)
  BY DEF IsBuf
<1>4. b.d \o q \in Seq(Units) /\ Len(b.d \o q) = Len(b.d) + Len(q) /\ Len(q) \in Nat /\ Len(b.d) \in Nat
  BY <1>3, Joined
<1>5. IsBuf(c)
  <2>1. c.head \in 0..Len(c.d)
    BY <1>2, <1>3, <1>4
  <2> QED BY <1>2, <1>4, <2>1 DEF IsBuf
<1>6. Content(c) = Content(b) \o q
  BY <1>2, <1>3, DropOfJoined DEF Content
<1> QED BY <1>2, <1>5, <1>6

LEMMA BufPushIs ==
  ASSUME NEW b, NEW q \in Seq(Units), IsBuf(b)
  PROVE  IsBuf(BufPush(b, q)) /\ Content(BufPush(b, q)) = Content(b) \o q
<1>1. IsBuf(Rewound(b)) /\ Content(Rewound(b)) = Content(b)
  BY RewoundIs
<1>2. IsBuf(Cleared(Rewound(b), Len(q))) /\ Content(Cleared(Rewound(b), Len(q))) = Content(b)
  BY <1>1, ClearedIs
<1> QED BY <1>2, PushedIs DEF BufPush

LEMMA DiscardIs ==
  ASSUME NEW b, IsBuf(b), NEW n \in 0..Len(Content(b))
  PROVE  /\ IsBuf(Discard(b, n))
         /\ Content(Discard(b, n)) = SubSeq(Content(b), n + 1, Len(Content(b)))
<1> DEFINE c == [b EXCEPT !.head = @ + n]
<1>1. c.d = b.d /\ c.head = b.head + n /\ DOMAIN c = {"d", "head", "cap"}
  BY DEF IsBuf
<1>2. Discard(b, n) = Rewound(c)
  BY DEF Discard
<1> HIDE DEF c
<1>3. b.d \in Seq(Units) /\ b.head \in 0..Len(b.d) /\ Len(b.d) \in Nat
  BY ContentIs DEF IsBuf
<1>4. Content(b) \in Seq(Units) /\ Len(Content(b)) = Len(b.d) - b.head
      /\ \A i \in 1..(Len(b.d) - b.head) : Content(b)[i] = b.d[b.head + i]
  BY <1>3, CutInTwo DEF Content
<1>5. IsBuf(c)
  <2>1. c.head \in 0..Len(c.d)
    BY <1>1, <1>3, <1>4
  <2> QED BY <1>1, <1>3, <2>1 DEF IsBuf
<1>6. Content(c) = SubSeq(Content(b), n + 1, Len(Content(b)))
  <2> DEFINE q == Content(b)
             r == SubSeq(q, n + 1, Len(q))
             m == b.head + n
             t == SubSeq(b.d, m + 1, Len(b.d))
  <2>1. r \in Seq(Units) /\ Len(r) = Len(q) - n /\ \A i \in 1..(Len(q) - n) : r[i] = q[n + i]
    BY <1>4, CutInTwo
  <2>2. m \in 0..Len(b.d)
    BY <1>3, <1>4
  <2> HIDE DEF m
  <2>3. t \in Seq(Units) /\ Len(t) = Len(b.d) - m /\ \A i \in 1..(Len(b.d) - m) : t[i] = b.d[m + i]
    BY <1>3, <2>2, CutInTwo
  <2>4. Content(c) = t
    BY <1>1 DEF Content, m
  <2> HIDE DEF t, r
  <2>5. Len(t) = Len(r)
    BY <1>3, <1>4, <2>1, <2>3 DEF m
  <2>6. ASSUME NEW i \in 1..Len(t) PROVE t[i] = r[i]
    <3>1. /\ i \in 1..(Len(b.d) - m) /\ i \in 1..(Len(q) - n) /\ n \in Nat /\ b.head \in Nat
          /\ n <= Len(q) /\ Len(q) = Len(b.d) - b.head
      BY <1>3, <1>4, <2>1, <2>3, <2>5
    <3>3. n + i \in 1..(Len(b.d) - b.head) /\ b.head + (n + i) = m + i
      BY <3>1, <1>3 DEF m
    <3>2. q[n + i] = b.d[b.head + (n + i)]
      BY <3>3, <1>4
    <3> QED BY <3>1, <3>2, <3>3, <2>1, <2>3
  <2>7. t = r
    BY <2>1, <2>3, <2>5, <2>6, SeqEqual
  <2> QED BY <2>4, <2>7 DEF r
<1> QED BY <1>2, <1>5, <1>6, RewoundIs
-----------------------------------------------------------------------------
\* What the calls of a session leave alone.
SameBase(x, y) ==
    /\ y.be = x.be /\ y.hello = x.hello /\ y.close_sent = x.close_sent
    /\ y.call = x.call /\ y.ended = x.ended /\ y.sent = x.sent /\ y.socket = x.socket
SameTalk(x, y) == y.phase = x.phase /\ y.done = x.done /\ y.chosen = x.chosen
SameData(x, y) == y.plain = x.plain /\ y.got = x.got /\ y.closed = x.closed
Others(x, y) == SameBase(x, y) /\ SameTalk(x, y) /\ SameData(x, y)

\* What a session that has pulled its input offers is the first record it has.
Settled(x) ==
    /\ HasRecord(x) <=> Len(Stock(x)) >= 2
    /\ HasRecord(x) => First(x) = Stock(x)[1]
Dropped(p) == SubSeq(p, 3, Len(p))

LEMMA RecordIs ==
  ASSUME NEW k \in {"hello", "flight", "finish", "alert", "data", "close"}, NEW v \in Payloads
  PROVE  /\ Record(k, v) \in Seq(Units) /\ Len(Record(k, v)) = 2
         /\ Record(k, v)[1] = <<k, v, 1>> /\ Record(k, v)[1][1] = k /\ Record(k, v)[1][2] = v
<1>1. <<k, v, 1>> \in Units /\ <<k, v, 2>> \in Units
  BY DEF Units
<1> QED BY <1>1 DEF Record

LEMMA StockIs ==
  ASSUME NEW x, Sound(x)
  PROVE  /\ Content(x.in) \in Seq(Units) /\ x.rec \in Seq(Units) /\ Stock(x) \in Seq(Units)
         /\ Len(x.rec) \in Nat /\ Len(Content(x.in)) \in Nat
         /\ Len(Stock(x)) = Len(x.rec) + Len(Content(x.in))
         /\ (x.rec = <<>> => Stock(x) = Content(x.in))
<1>1. Content(x.in) \in Seq(Units) /\ x.rec \in Seq(Units)
  BY ContentIs DEF Sound
<1>2. <<>> \o Content(x.in) = Content(x.in)
  BY <1>1, ConcatEmptySeq
<1>3. /\ x.rec \o Content(x.in) \in Seq(Units)
      /\ Len(x.rec \o Content(x.in)) = Len(x.rec) + Len(Content(x.in))
      /\ Len(x.rec) \in Nat /\ Len(Content(x.in)) \in Nat
  BY <1>1, Joined
<1>4. Stock(x) = x.rec \o Content(x.in)
  BY DEF Stock
<1> QED BY <1>1, <1>2, <1>3, <1>4

LEMMA PulledIs ==
  ASSUME NEW x, Sound(x)
  PROVE  /\ Sound(Pulled(x)) /\ Stock(Pulled(x)) = Stock(x) /\ Settled(Pulled(x))
         /\ Others(x, Pulled(x)) /\ Pulled(x).out = x.out
<1> DEFINE c == Content(x.in)
<1>1. /\ c \in Seq(Units) /\ x.rec \in Seq(Units) /\ Len(c) \in Nat /\ Len(x.rec) \in Nat /\ Len(x.rec) <= 2
      /\ Len(Stock(x)) = Len(x.rec) + Len(c) /\ (x.rec = <<>> => Stock(x) = c)
  <2>1. Len(x.rec) <= 2
    BY DEF Sound
  <2>2. /\ c \in Seq(Units) /\ x.rec \in Seq(Units) /\ Len(c) \in Nat /\ Len(x.rec) \in Nat
        /\ Len(Stock(x)) = Len(x.rec) + Len(c) /\ (x.rec = <<>> => Stock(x) = c)
    BY StockIs DEF c
  <2> QED BY <2>1, <2>2
<1> HIDE DEF c
<1>2. CASE x.be # "securetransport" \/ Len(x.rec) = 2
  <2>1. Pulled(x) = x
    BY <1>2 DEF Pulled
  <2>2. Settled(x)
    <3>1. CASE x.be # "securetransport"
      <4>1. Offered(x) = c /\ Stock(x) = c
        BY <1>1, <3>1 DEF Offered, Sound, c
      <4> QED BY <4>1 DEF Settled, HasRecord, First
    <3>2. CASE x.be = "securetransport" /\ Len(x.rec) = 2
      <4>1. Stock(x)[1] = x.rec[1]
        <5>1. \A i \in 1..Len(x.rec) : (x.rec \o c)[i] = x.rec[i]
          BY <1>1, Joined
        <5>2. Stock(x) = x.rec \o c
          BY DEF Stock, c
        <5>3. 1 \in 1..Len(x.rec)
          BY <3>2
        <5> QED BY <5>1, <5>2, <5>3
      <4>2. Offered(x) = x.rec /\ Len(Stock(x)) >= 2
        BY <1>1, <3>2 DEF Offered
      <4>3. HasRecord(x)
        BY <3>2, <4>2 DEF HasRecord
      <4>4. First(x) = Stock(x)[1]
        BY <4>1, <4>2 DEF First
      <4> QED BY <4>2, <4>3, <4>4 DEF Settled
    <3> QED BY <1>2, <3>1, <3>2
  <2> QED BY <2>1, <2>2 DEF Others, SameBase, SameTalk, SameData
<1>3. CASE x.be = "securetransport" /\ Len(x.rec) # 2
  <2> DEFINE n == IF Len(c) < 2 - Len(x.rec) THEN Len(c) ELSE 2 - Len(x.rec)
             y == [x EXCEPT !.rec = @ \o SubSeq(c, 1, n), !.in = Discard(@, n)]
             a == SubSeq(c, 1, n)
             d == SubSeq(c, n + 1, Len(c))
  <2>1. Pulled(x) = y
    BY <1>3 DEF Pulled, PulledUnits, c
  <2>2. n \in 0..Len(c) /\ Len(x.rec) + n <= 2 /\ (Len(x.rec) + n = 2 \/ n = Len(c))
    <3> DEFINE l == Len(x.rec)
               m == Len(c)
    <3>1. l \in Nat /\ m \in Nat /\ l <= 2 /\ l # 2
      BY <1>1, <1>3
    <3>2. n = IF m < 2 - l THEN m ELSE 2 - l
      OBVIOUS
    <3> HIDE DEF l, m, n
    <3>3. n \in 0..m /\ l + n <= 2 /\ (l + n = 2 \/ n = m)
      BY <3>1, <3>2
    <3> QED BY <3>3 DEF l, m
  <2>3. /\ y.rec = x.rec \o a /\ y.in = Discard(x.in, n) /\ DOMAIN y = SessionFields /\ y.out = x.out
        /\ Others(x, y)
    BY DEF Sound, SessionFields, Others, SameBase, SameTalk, SameData
  <2> HIDE DEF n, y
  <2>4. a \in Seq(Units) /\ Len(a) = n /\ d \in Seq(Units) /\ Len(d) = Len(c) - n /\ a \o d = c
    BY <1>1, <2>2, CutInTwo
  <2>5. IsBuf(y.in) /\ Content(y.in) = d
    BY <2>2, <2>3, DiscardIs DEF Sound, c
  <2> HIDE DEF a, d
  <2>6. /\ x.rec \o a \in Seq(Units) /\ Len(x.rec \o a) = Len(x.rec) + n
        /\ (x.rec \o a) \o d = x.rec \o (a \o d)
    <3>1. x.rec \o a \in Seq(Units) /\ Len(x.rec \o a) = Len(x.rec) + Len(a)
      BY <1>1, <2>4, Joined
    <3>2. (x.rec \o a) \o d = x.rec \o (a \o d)
      <4> DEFINE q == x.rec
      <4>1. q \in Seq(Units) /\ a \in Seq(Units) /\ d \in Seq(Units)
        BY <1>1, <2>4
      <4> HIDE DEF q
      <4>2. (q \o a) \o d = q \o (a \o d)
        BY <4>1, Regrouped
      <4> QED BY <4>2 DEF q
    <3> QED BY <2>4, <3>1, <3>2
  <2>7. Stock(y) = Stock(x)
    BY <2>3, <2>4, <2>5, <2>6 DEF Stock, c
  <2>8. Sound(y)
    BY <1>3, <2>2, <2>3, <2>5, <2>6 DEF Sound, Others, SameBase, SameTalk, SameData
  <2>9. Settled(y)
    <3>1. Offered(y) = y.rec /\ Len(y.rec) = Len(x.rec) + n
      BY <1>3, <2>3, <2>6 DEF Offered, Others, SameBase
    <3>2. CASE Len(x.rec) + n = 2
      <4>1. \A i \in 1..Len(y.rec) : (y.rec \o d)[i] = y.rec[i]
        <5>1. y.rec \in Seq(Units)
          BY <2>3, <2>6
        <5> QED BY <5>1, <2>4, Joined
      <4>2. Stock(y)[1] = y.rec[1]
        BY <2>5, <3>1, <3>2, <4>1 DEF Stock
      <4>3. Len(Stock(y)) >= 2
        BY <1>1, <2>2, <2>7, <3>2
      <4> QED BY <3>1, <3>2, <4>2, <4>3 DEF Settled, HasRecord, First
    <3>3. CASE Len(x.rec) + n # 2
      <4>1. Len(Stock(y)) < 2 /\ Len(y.rec) < 2
        BY <1>1, <2>2, <2>7, <3>1, <3>3
      <4>2. ~HasRecord(y) /\ ~(Len(Stock(y)) >= 2)
        <5>1. Len(Stock(y)) \in Nat /\ Len(y.rec) \in Nat
          BY <1>1, <2>2, <2>7, <3>1
        <5> QED BY <3>1, <4>1, <5>1 DEF HasRecord
      <4> QED BY <4>2 DEF Settled
    <3> QED BY <3>2, <3>3
  <2> QED BY <2>1, <2>3, <2>7, <2>8, <2>9
<1> QED BY <1>2, <1>3

LEMMA UsedIs ==
  ASSUME NEW x, Sound(x), HasRecord(x)
  PROVE  /\ Sound(Used(x)) /\ Stock(Used(x)) = Dropped(Stock(x))
         /\ Others(x, Used(x)) /\ Used(x).out = x.out
<1> DEFINE c == Content(x.in)
<1>1. /\ c \in Seq(Units) /\ x.rec \in Seq(Units) /\ Len(c) \in Nat /\ Len(x.rec) \in Nat /\ Len(x.rec) <= 2
      /\ Len(Stock(x)) = Len(x.rec) + Len(c) /\ (x.rec = <<>> => Stock(x) = c)
  <2>1. Len(x.rec) <= 2
    BY DEF Sound
  <2>2. /\ c \in Seq(Units) /\ x.rec \in Seq(Units) /\ Len(c) \in Nat /\ Len(x.rec) \in Nat
        /\ Len(Stock(x)) = Len(x.rec) + Len(c) /\ (x.rec = <<>> => Stock(x) = c)
    BY StockIs DEF c
  <2> QED BY <2>1, <2>2
<1> HIDE DEF c
<1>2. CASE x.be = "securetransport"
  <2> DEFINE y == [x EXCEPT !.rec = <<>>]
  <2>1. Used(x) = y
    BY <1>2 DEF Used
  <2>2. y.rec = <<>> /\ y.in = x.in /\ DOMAIN y = SessionFields /\ y.out = x.out /\ Others(x, y)
    BY DEF Sound, SessionFields, Others, SameBase, SameTalk, SameData
  <2> HIDE DEF y
  <2>3. <<>> \in Seq(Units) /\ Len(<<>>) = 0
    BY EmptySeq
  <2>4. Sound(y)
    BY <2>2, <2>3 DEF Sound, Others, SameBase, SameTalk, SameData
  <2>5. Len(x.rec) = 2
    <3>1. Len(x.rec) >= 2
      BY <1>2 DEF HasRecord, Offered
    <3> DEFINE l == Len(x.rec)
    <3>2. l \in Nat /\ l <= 2 /\ l >= 2
      BY <1>1, <3>1
    <3> HIDE DEF l
    <3>3. l = 2
      BY <3>2
    <3> QED BY <3>3 DEF l
  <2>6. SubSeq(x.rec \o c, 2 + 1, Len(x.rec \o c)) = SubSeq(x.rec, 2 + 1, Len(x.rec)) \o c
    <3>1. 2 \in 0..Len(x.rec)
      BY <2>5
    <3> QED BY <3>1, <1>1, DropOfJoined
  <2>7. SubSeq(x.rec, 3, 2) = <<>>
    BY SubSeqEmpty
  <2>8. Dropped(Stock(x)) = <<>> \o c
    <3>1. Stock(x) = x.rec \o c
      BY DEF Stock, c
    <3>2. SubSeq(x.rec, 2 + 1, Len(x.rec)) = <<>>
      BY <2>5, <2>7
    <3>3. \A w : Dropped(w) = SubSeq(w, 2 + 1, Len(w))
      BY DEF Dropped
    <3> QED BY <2>6, <3>1, <3>2, <3>3
  <2>9. Stock(y) = <<>> \o c
    BY <2>2 DEF Stock, c
  <2> QED BY <2>1, <2>2, <2>4, <2>8, <2>9
<1>3. CASE x.be # "securetransport"
  <2> DEFINE y == [x EXCEPT !.in = Discard(@, 2)]
  <2>1. Used(x) = y
    BY <1>3 DEF Used
  <2>2. y.rec = x.rec /\ y.in = Discard(x.in, 2) /\ DOMAIN y = SessionFields /\ y.out = x.out /\ Others(x, y)
    BY DEF Sound, SessionFields, Others, SameBase, SameTalk, SameData
  <2> HIDE DEF y
  <2>3. 2 \in 0..Len(c) /\ x.rec = <<>>
    BY <1>1, <1>3 DEF HasRecord, Offered, Sound, c
  <2>4. IsBuf(y.in) /\ Content(y.in) = SubSeq(c, 2 + 1, Len(c))
    BY <2>2, <2>3, DiscardIs DEF Sound, c
  <2>5. Sound(y)
    BY <2>2, <2>4 DEF Sound, Others, SameBase, SameTalk, SameData
  <2>6. Stock(y) = SubSeq(c, 3, Len(c))
    <3>1. Stock(y) = Content(y.in)
      BY <2>2, <2>3, <2>5, StockIs
    <3> QED BY <2>4, <3>1
  <2>7. Stock(x) = c
    BY <1>1, <2>3
  <2> QED BY <2>1, <2>2, <2>5, <2>6, <2>7 DEF Dropped
<1> QED BY <1>2, <1>3

LEMMA EmitIs ==
  ASSUME NEW x, Sound(x), Content(x.out) = <<>>,
         NEW k \in {"hello", "flight", "finish", "alert", "data", "close"}, NEW v \in Payloads
  PROVE  /\ Sound(Emit(x, k, v)) /\ Content(Emit(x, k, v).out) = Record(k, v)
         /\ Others(x, Emit(x, k, v)) /\ Stock(Emit(x, k, v)) = Stock(x)
<1> DEFINE y == [x EXCEPT !.out = BufPush(@, Record(k, v))]
<1>1. /\ y.out = BufPush(x.out, Record(k, v)) /\ y.in = x.in /\ y.rec = x.rec
      /\ DOMAIN y = SessionFields /\ Others(x, y)
  BY DEF Sound, SessionFields, Others, SameBase, SameTalk, SameData
<1>2. y = Emit(x, k, v)
  BY DEF Emit
<1> HIDE DEF y
<1>3. Record(k, v) \in Seq(Units)
  BY RecordIs
<1>4. IsBuf(y.out) /\ Content(y.out) = <<>> \o Record(k, v)
  BY <1>1, <1>3, BufPushIs DEF Sound
<1>5. <<>> \o Record(k, v) = Record(k, v)
  BY <1>3, ConcatEmptySeq
<1>6. Sound(y) /\ Stock(y) = Stock(x)
  BY <1>1, <1>4 DEF Sound, Stock, Others, SameBase, SameTalk, SameData
<1> QED BY <1>1, <1>2, <1>4, <1>5, <1>6
-----------------------------------------------------------------------------
\* What a record put at the end, one taken from the front, and a cut do to the
\* numbers of the bytes under way.
LEMMA HalfOf ==
  ASSUME NEW m \in Nat
  PROVE  \E k \in Nat : m = 2 * k \/ m = 2 * k - 1
<1>1. (m + 1) \div 2 \in Nat /\ (m = 2 * ((m + 1) \div 2) \/ m = 2 * ((m + 1) \div 2) - 1)
  BY Z3
<1> QED BY <1>1

LEMMA UnitIs ==
  ASSUME NEW u \in Units
  PROVE  u = <<u[1], u[2], u[3]>> /\ u[1] \in {"hello", "flight", "finish", "alert", "data", "close"} /\ u[2] \in Payloads
BY DEF Units

LEMMA PairJoined ==
  ASSUME NEW U, NEW q \in Seq(U), NEW r \in Seq(U)
  PROVE  Len(r) = 2 => /\ q \o r \in Seq(U) /\ Len(q \o r) = Len(q) + 2
                       /\ \A i \in 1..Len(q) : (q \o r)[i] = q[i]
                       /\ (q \o r)[Len(q) + 1] = r[1]
<1>1. /\ q \o r \in Seq(U) /\ Len(q \o r) = Len(q) + Len(r)
      /\ \A i \in 1..Len(q) : (q \o r)[i] = q[i]
      /\ \A i \in 1..Len(r) : (q \o r)[Len(q) + i] = r[i]
  BY Joined
<1>2. Len(r) = 2 => 1 \in 1..Len(r)
  OBVIOUS
<1> QED BY <1>1, <1>2

LEMMA FlowPut ==
  ASSUME NEW U, NEW p \in Seq(U), NEW r \in Seq(U), Len(r) = 2,
         NEW base \in Nat, NEW n \in Nat, NEW n2 \in Nat,
         Flows(p, base, n, TRUE), \A j \in Whole(p) : Kind(p, j) # "close",
         r[1][1] = "data" => /\ r[1][2] \in Seq(Nat) /\ Len(r[1][2]) > 0
                             /\ n2 = n + Len(r[1][2])
                             /\ \A i \in 1..Len(r[1][2]) : r[1][2][i] = n + i,
         r[1][1] # "data" => n2 = n
  PROVE  Flows(p \o r, base, n2, TRUE)
<1> DEFINE w == p \o r
<1>1. PICK k \in Nat : \E pos \in [0..k -> Nat] :
        /\ Len(p) = 2 * k
        /\ pos[0] = base /\ pos[k] = n /\ \A j \in 0..k : pos[j] <= n
        /\ Numbered(p, pos, k, n)
  BY DEF Flows
<1>2. PICK pos \in [0..k -> Nat] :
        /\ Len(p) = 2 * k
        /\ pos[0] = base /\ pos[k] = n /\ \A j \in 0..k : pos[j] <= n
        /\ Numbered(p, pos, k, n)
  BY <1>1
<1> DEFINE k2 == k + 1
           pos2 == [j \in 0..k2 |-> IF j = k2 THEN n2 ELSE pos[j]]
<1>3. n <= n2
  <2>1. r[1][1] = "data" => Len(r[1][2]) \in Nat
    BY LenProperties
  <2> QED BY <2>1
<1>4. /\ Len(w) = 2 * k + 2
      /\ \A i \in 1..(2 * k) : w[i] = p[i]
      /\ w[2 * k + 1] = r[1]
  <2>1. /\ Len(w) = Len(p) + 2
        /\ \A i \in 1..Len(p) : w[i] = p[i]
        /\ w[Len(p) + 1] = r[1]
    BY PairJoined
  <2> QED BY <1>2, <2>1
<1>5. k2 \in Nat /\ pos2 \in [0..k2 -> Nat] /\ pos2[k2] = n2 /\ \A j \in 0..k : pos2[j] = pos[j]
  BY <1>2
<1>6. pos2[0] = base
  BY <1>2, <1>5
<1> HIDE DEF w, pos2
<1>7. \A j \in 0..k2 : pos2[j] <= n2
  <2>1. ASSUME NEW j \in 0..k2 PROVE pos2[j] <= n2
    <3>1. CASE j = k2
      BY <1>5, <3>1
    <3>2. CASE j # k2
      <4>1. j \in 0..k
        BY <3>2
      <4>2. pos2[j] = pos[j] /\ pos[j] <= n /\ pos[j] \in Nat
        BY <1>2, <1>5, <4>1
      <4> QED BY <1>3, <4>2
    <3> QED BY <3>1, <3>2
  <2> QED BY <2>1
<1>8. Numbered(w, pos2, k2, n2)
  <2> SUFFICES ASSUME NEW j \in 1..k2
               PROVE  /\ w[2 * j - 1][1] = "data" =>
                           /\ w[2 * j - 1][2] \in Seq(Nat) /\ Len(w[2 * j - 1][2]) > 0
                           /\ pos2[j] = pos2[j - 1] + Len(w[2 * j - 1][2])
                           /\ \A i \in 1..Len(w[2 * j - 1][2]) : w[2 * j - 1][2][i] = pos2[j - 1] + i
                      /\ w[2 * j - 1][1] # "data" => pos2[j] = pos2[j - 1]
                      /\ w[2 * j - 1][1] = "close" => j = k2 /\ pos2[j] = n2
    BY DEF Numbered
  <2>1. CASE j # k2
    <3> DEFINE a == 2 * j - 1
               o == j - 1
    <3>1. j \in 1..k /\ a \in 1..(2 * k) /\ j \in 0..k /\ o \in 0..k
      BY <2>1
    <3>2. w[a] = p[a]
      BY <1>4, <3>1
    <3>3. pos2[j] = pos[j] /\ pos2[o] = pos[o]
      BY <1>5, <3>1
    <3>4. p[a][1] # "close"
      <4>1. j \in Whole(p)
        <5> DEFINE l == Len(p)
        <5>1. l = 2 * k
          BY <1>2
        <5> HIDE DEF l
        <5>2. j \in 1..l /\ 2 * j <= l + 1
          BY <3>1, <5>1
        <5> QED BY <5>2 DEF Whole, l
      <4> QED BY <4>1 DEF Kind
    <3>5. /\ p[a][1] = "data" =>
             /\ p[a][2] \in Seq(Nat) /\ Len(p[a][2]) > 0
             /\ pos[j] = pos[o] + Len(p[a][2])
             /\ \A i \in 1..Len(p[a][2]) : p[a][2][i] = pos[o] + i
          /\ p[a][1] # "data" => pos[j] = pos[o]
      BY <1>2, <3>1 DEF Numbered
    <3> HIDE DEF a, o
    <3>6. /\ w[a][1] = "data" =>
             /\ w[a][2] \in Seq(Nat) /\ Len(w[a][2]) > 0
             /\ pos2[j] = pos2[o] + Len(w[a][2])
             /\ \A i \in 1..Len(w[a][2]) : w[a][2][i] = pos2[o] + i
          /\ w[a][1] # "data" => pos2[j] = pos2[o]
          /\ w[a][1] # "close"
      BY <3>2, <3>3, <3>4, <3>5
    <3> QED BY <3>6 DEF a, o
  <2>2. CASE j = k2
    <3>1. 2 * j - 1 = 2 * k + 1 /\ j - 1 = k /\ k \in 0..k
      BY <2>2
    <3>2. w[2 * j - 1] = r[1] /\ pos2[j] = n2 /\ pos2[j - 1] = n
      BY <1>2, <1>4, <1>5, <2>2, <3>1
    <3> QED BY <2>2, <3>2
  <2> QED BY <2>1, <2>2
<1>9. Len(w) = 2 * k2
  BY <1>4
<1> HIDE DEF k2
<1>10. Flows(w, base, n2, TRUE)
  BY <1>5, <1>6, <1>7, <1>8, <1>9 DEF Flows
<1> QED BY <1>10 DEF w

\* After a cut no more records arrive, whatever is written.
LEMMA FlowGrow ==
  ASSUME NEW p, NEW base \in Nat, NEW n \in Nat, NEW n2 \in Nat, n <= n2, NEW whole \in BOOLEAN,
         Flows(p, base, n, whole), n2 # n => \A j \in Whole(p) : Kind(p, j) # "close"
  PROVE  Flows(p, base, n2, FALSE)
<1>1. PICK k \in Nat : \E pos \in [0..k -> Nat] :
        /\ Len(p) = 2 * k \/ (~whole /\ Len(p) = 2 * k - 1)
        /\ pos[0] = base /\ (whole => pos[k] = n) /\ \A j \in 0..k : pos[j] <= n
        /\ Numbered(p, pos, k, n)
  BY DEF Flows
<1>2. PICK pos \in [0..k -> Nat] :
        /\ Len(p) = 2 * k \/ (~whole /\ Len(p) = 2 * k - 1)
        /\ pos[0] = base /\ (whole => pos[k] = n) /\ \A j \in 0..k : pos[j] <= n
        /\ Numbered(p, pos, k, n)
  BY <1>1
<1>3. \A j \in 0..k : pos[j] <= n2
  <2>1. ASSUME NEW j \in 0..k PROVE pos[j] <= n2
    <3>1. pos[j] \in Nat /\ pos[j] <= n
      BY <1>2
    <3> QED BY <3>1
  <2> QED BY <2>1
<1>4. Numbered(p, pos, k, n2)
  <2>1. CASE n2 = n
    BY <1>2, <2>1
  <2>2. CASE n2 # n
    <3>1. ASSUME NEW j \in 1..k PROVE p[2 * j - 1][1] # "close"
      <4>1. j \in Whole(p)
        BY <1>2 DEF Whole
      <4> QED BY <2>2, <4>1 DEF Kind
    <3> QED BY <1>2, <3>1 DEF Numbered
  <2> QED BY <2>1, <2>2
<1> QED BY <1>2, <1>3, <1>4 DEF Flows
LEMMA DroppedIs ==
  ASSUME NEW U, NEW p \in Seq(U)
  PROVE  Len(p) >= 2 => /\ Dropped(p) \in Seq(U) /\ Len(Dropped(p)) = Len(p) - 2
                        /\ \A i \in 1..(Len(p) - 2) : Dropped(p)[i] = p[i + 2]
<1>1. Len(p) \in Nat
  BY LenProperties
<1>2. ASSUME Len(p) >= 2
      PROVE  /\ Dropped(p) \in Seq(U) /\ Len(Dropped(p)) = Len(p) - 2
             /\ \A i \in 1..(Len(p) - 2) : Dropped(p)[i] = p[i + 2]
  <2> DEFINE m == 2
  <2>1. m \in 0..Len(p)
    BY <1>1, <1>2
  <2>a. m = 2
    OBVIOUS
  <2> HIDE DEF m
  <2>2. /\ SubSeq(p, m + 1, Len(p)) \in Seq(U) /\ Len(SubSeq(p, m + 1, Len(p))) = Len(p) - m
        /\ \A i \in 1..(Len(p) - m) : SubSeq(p, m + 1, Len(p))[i] = p[m + i]
    BY <2>1, CutInTwo
  <2>3. Dropped(p) = SubSeq(p, m + 1, Len(p))
    BY <2>a DEF Dropped
  <2>4. ASSUME NEW i \in 1..(Len(p) - 2) PROVE Dropped(p)[i] = p[i + 2]
    <3>1. i \in 1..(Len(p) - m) /\ m + i = i + 2
      BY <2>a
    <3> QED BY <2>2, <2>3, <3>1
  <2> QED BY <2>2, <2>3, <2>4, <2>a
<1> QED BY <1>2

LEMMA FlowTake ==
  ASSUME NEW U, NEW p \in Seq(U), Len(p) >= 2, NEW base \in Nat, NEW n \in Nat, NEW whole \in BOOLEAN,
         Flows(p, base, n, whole)
  PROVE  /\ p[1][1] = "data" =>
              /\ p[1][2] \in Seq(Nat) /\ Len(p[1][2]) > 0
              /\ \A i \in 1..Len(p[1][2]) : p[1][2][i] = base + i
              /\ Flows(Dropped(p), base + Len(p[1][2]), n, whole)
         /\ p[1][1] # "data" => Flows(Dropped(p), base, n, whole)
         /\ p[1][1] = "close" => Len(p) = 2 /\ base = n
<1>1. PICK k \in Nat : \E pos \in [0..k -> Nat] :
        /\ Len(p) = 2 * k \/ (~whole /\ Len(p) = 2 * k - 1)
        /\ pos[0] = base /\ (whole => pos[k] = n) /\ \A j \in 0..k : pos[j] <= n
        /\ Numbered(p, pos, k, n)
  BY DEF Flows
<1>2. PICK pos \in [0..k -> Nat] :
        /\ Len(p) = 2 * k \/ (~whole /\ Len(p) = 2 * k - 1)
        /\ pos[0] = base /\ (whole => pos[k] = n) /\ \A j \in 0..k : pos[j] <= n
        /\ Numbered(p, pos, k, n)
  BY <1>1
<1> DEFINE l == Len(p)
           w == Dropped(p)
           k2 == k - 1
           pos2 == [j \in 0..k2 |-> pos[j + 1]]
<1>3. /\ l \in Nat /\ l >= 2 /\ Len(w) = l - 2 /\ \A i \in 1..(l - 2) : w[i] = p[i + 2]
      /\ l = 2 * k \/ (~whole /\ l = 2 * k - 1)
  BY <1>2, LenProperties, DroppedIs
<1> HIDE DEF w, l
<1>4. k >= 1 /\ k2 \in Nat /\ 1 \in 1..k /\ 2 * 1 - 1 = 1 /\ 1 - 1 = 0 /\ 1 \in 0..k /\ k2 + 1 = k
  BY <1>3
<1>5. pos2 \in [0..k2 -> Nat] /\ \A j \in 0..k2 : pos2[j] = pos[j + 1]
  BY <1>2, <1>4
<1> HIDE DEF pos2
<1>6. /\ pos2[0] = pos[1] /\ (whole => pos2[k2] = n)
      /\ \A j \in 0..k2 : pos2[j] <= n
  <2>1. pos2[0] = pos[1]
    BY <1>4, <1>5
  <2>2. whole => pos2[k2] = n
    BY <1>2, <1>4, <1>5
  <2>3. ASSUME NEW j \in 0..k2 PROVE pos2[j] <= n
    <3>1. j + 1 \in 0..k
      BY <1>4
    <3> QED BY <1>2, <1>5, <3>1
  <2> QED BY <2>1, <2>2, <2>3
<1>7. Numbered(w, pos2, k2, n)
  <2> SUFFICES ASSUME NEW j \in 1..k2
               PROVE  /\ w[2 * j - 1][1] = "data" =>
                           /\ w[2 * j - 1][2] \in Seq(Nat) /\ Len(w[2 * j - 1][2]) > 0
                           /\ pos2[j] = pos2[j - 1] + Len(w[2 * j - 1][2])
                           /\ \A i \in 1..Len(w[2 * j - 1][2]) : w[2 * j - 1][2][i] = pos2[j - 1] + i
                      /\ w[2 * j - 1][1] # "data" => pos2[j] = pos2[j - 1]
                      /\ w[2 * j - 1][1] = "close" => j = k2 /\ pos2[j] = n
    BY DEF Numbered
  <2> DEFINE h == j + 1
             a == 2 * h - 1
             b == 2 * j - 1
             o == j - 1
  <2>1. h \in 1..k /\ b \in 1..(l - 2) /\ b + 2 = a /\ h - 1 = o + 1 /\ o \in 0..k2 /\ j \in 0..k2 /\ (h = k <=> j = k2)
        /\ h - 1 = j
    BY <1>3, <1>4
  <2>2. /\ p[a][1] = "data" =>
             /\ p[a][2] \in Seq(Nat) /\ Len(p[a][2]) > 0
             /\ pos[h] = pos[h - 1] + Len(p[a][2])
             /\ \A i \in 1..Len(p[a][2]) : p[a][2][i] = pos[h - 1] + i
        /\ p[a][1] # "data" => pos[h] = pos[h - 1]
        /\ p[a][1] = "close" => h = k /\ pos[h] = n
    BY <1>2, <2>1 DEF Numbered
  <2>3. w[b] = p[a] /\ pos2[j] = pos[h] /\ pos2[o] = pos[h - 1]
    <3>1. w[b] = p[b + 2]
      BY <1>3, <2>1
    <3>2. pos2[j] = pos[j + 1] /\ pos2[o] = pos[o + 1]
      BY <1>5, <2>1
    <3> QED BY <2>1, <3>1, <3>2
  <2> HIDE DEF a, b, o, h
  <2>4. /\ w[b][1] = "data" =>
             /\ w[b][2] \in Seq(Nat) /\ Len(w[b][2]) > 0
             /\ pos2[j] = pos2[o] + Len(w[b][2])
             /\ \A i \in 1..Len(w[b][2]) : w[b][2][i] = pos2[o] + i
        /\ w[b][1] # "data" => pos2[j] = pos2[o]
        /\ w[b][1] = "close" => j = k2 /\ pos2[j] = n
    BY <2>1, <2>2, <2>3
  <2> QED BY <2>4 DEF b, o
<1>8. Len(w) = 2 * k2 \/ (~whole /\ Len(w) = 2 * k2 - 1)
  BY <1>3
<1> HIDE DEF k2
<1>9. Flows(w, pos[1], n, whole)
  BY <1>4, <1>5, <1>6, <1>7, <1>8 DEF Flows
<1>10. /\ p[1][1] = "data" =>
             /\ p[1][2] \in Seq(Nat) /\ Len(p[1][2]) > 0
             /\ pos[1] = base + Len(p[1][2])
             /\ \A i \in 1..Len(p[1][2]) : p[1][2][i] = base + i
       /\ p[1][1] # "data" => pos[1] = base
       /\ p[1][1] = "close" => 1 = k /\ pos[1] = n
  <2>1. /\ p[2 * 1 - 1][1] = "data" =>
             /\ p[2 * 1 - 1][2] \in Seq(Nat) /\ Len(p[2 * 1 - 1][2]) > 0
             /\ pos[1] = pos[1 - 1] + Len(p[2 * 1 - 1][2])
             /\ \A i \in 1..Len(p[2 * 1 - 1][2]) : p[2 * 1 - 1][2][i] = pos[1 - 1] + i
        /\ p[2 * 1 - 1][1] # "data" => pos[1] = pos[1 - 1]
        /\ p[2 * 1 - 1][1] = "close" => 1 = k /\ pos[1] = n
    BY <1>2, <1>4 DEF Numbered
  <2> QED BY <1>2, <1>4, <2>1
<1>11. p[1][1] = "close" => Len(p) = 2 /\ base = n
  <2> SUFFICES ASSUME p[1][1] = "close" PROVE Len(p) = 2 /\ base = n
    OBVIOUS
  <2>1. k = 1 /\ pos[1] = n /\ pos[1] = base
    BY <1>10
  <2>2. l = 2
    BY <1>3, <2>1
  <2> QED BY <2>1, <2>2 DEF l
<1>12. /\ p[1][1] = "data" => Flows(w, base + Len(p[1][2]), n, whole)
       /\ p[1][1] # "data" => Flows(w, base, n, whole)
  BY <1>9, <1>10
<1> QED BY <1>10, <1>11, <1>12 DEF w

LEMMA FlowCut ==
  ASSUME NEW U, NEW p \in Seq(U), NEW m \in 0..Len(p), NEW base \in Nat, NEW n \in Nat, NEW whole \in BOOLEAN,
         Flows(p, base, n, whole)
  PROVE  Flows(SubSeq(p, 1, m), base, n, FALSE)
<1>1. PICK k \in Nat : \E pos \in [0..k -> Nat] :
        /\ Len(p) = 2 * k \/ (~whole /\ Len(p) = 2 * k - 1)
        /\ pos[0] = base /\ (whole => pos[k] = n) /\ \A j \in 0..k : pos[j] <= n
        /\ Numbered(p, pos, k, n)
  BY DEF Flows
<1>2. PICK pos \in [0..k -> Nat] :
        /\ Len(p) = 2 * k \/ (~whole /\ Len(p) = 2 * k - 1)
        /\ pos[0] = base /\ (whole => pos[k] = n) /\ \A j \in 0..k : pos[j] <= n
        /\ Numbered(p, pos, k, n)
  BY <1>1
<1> DEFINE l == Len(p)
           w == SubSeq(p, 1, m)
<1>3. /\ l \in Nat /\ m \in 0..l /\ Len(w) = m /\ \A i \in 1..m : w[i] = p[i]
      /\ l = 2 * k \/ l = 2 * k - 1
  BY <1>2, CutInTwo
<1> HIDE DEF w, l
<1>4. PICK k2 \in Nat : m = 2 * k2 \/ m = 2 * k2 - 1
  <2>1. m \in Nat
    BY <1>3
  <2> QED BY <2>1, HalfOf
<1>5. k2 <= k
  BY <1>3, <1>4
<1> DEFINE pos2 == [j \in 0..k2 |-> pos[j]]
<1>6. pos2 \in [0..k2 -> Nat] /\ \A j \in 0..k2 : pos2[j] = pos[j]
  BY <1>2, <1>5
<1> HIDE DEF pos2
<1>7. pos2[0] = base /\ \A j \in 0..k2 : pos2[j] <= n
  <2>1. pos2[0] = base
    BY <1>2, <1>6
  <2>2. ASSUME NEW j \in 0..k2 PROVE pos2[j] <= n
    <3>1. j \in 0..k
      BY <1>5
    <3> QED BY <1>2, <1>6, <3>1
  <2> QED BY <2>1, <2>2
<1>8. Numbered(w, pos2, k2, n)
  <2> SUFFICES ASSUME NEW j \in 1..k2
               PROVE  /\ w[2 * j - 1][1] = "data" =>
                           /\ w[2 * j - 1][2] \in Seq(Nat) /\ Len(w[2 * j - 1][2]) > 0
                           /\ pos2[j] = pos2[j - 1] + Len(w[2 * j - 1][2])
                           /\ \A i \in 1..Len(w[2 * j - 1][2]) : w[2 * j - 1][2][i] = pos2[j - 1] + i
                      /\ w[2 * j - 1][1] # "data" => pos2[j] = pos2[j - 1]
                      /\ w[2 * j - 1][1] = "close" => j = k2 /\ pos2[j] = n
    BY DEF Numbered
  <2> DEFINE a == 2 * j - 1
             o == j - 1
  <2>1. j \in 1..k /\ a \in 1..m /\ o \in 0..k2 /\ j \in 0..k2 /\ (j = k => j = k2)
    BY <1>4, <1>5
  <2>2. /\ p[a][1] = "data" =>
             /\ p[a][2] \in Seq(Nat) /\ Len(p[a][2]) > 0
             /\ pos[j] = pos[o] + Len(p[a][2])
             /\ \A i \in 1..Len(p[a][2]) : p[a][2][i] = pos[o] + i
        /\ p[a][1] # "data" => pos[j] = pos[o]
        /\ p[a][1] = "close" => j = k /\ pos[j] = n
    BY <1>2, <2>1 DEF Numbered
  <2>3. w[a] = p[a] /\ pos2[j] = pos[j] /\ pos2[o] = pos[o]
    BY <1>3, <1>6, <2>1
  <2> HIDE DEF a, o
  <2>4. /\ w[a][1] = "data" =>
             /\ w[a][2] \in Seq(Nat) /\ Len(w[a][2]) > 0
             /\ pos2[j] = pos2[o] + Len(w[a][2])
             /\ \A i \in 1..Len(w[a][2]) : w[a][2][i] = pos2[o] + i
        /\ w[a][1] # "data" => pos2[j] = pos2[o]
        /\ w[a][1] = "close" => j = k2 /\ pos2[j] = n
    BY <2>1, <2>2, <2>3
  <2> QED BY <2>4 DEF a, o
<1>9. Len(w) = 2 * k2 \/ (~FALSE /\ Len(w) = 2 * k2 - 1)
  BY <1>3, <1>4
<1>10. Flows(w, base, n, FALSE)
  BY <1>6, <1>7, <1>8, <1>9 DEF Flows
<1> QED BY <1>10 DEF w
-----------------------------------------------------------------------------
\* What becomes of the records of a stream.
LEMMA KindPut ==
  ASSUME NEW U, NEW p \in Seq(U), NEW r \in Seq(U), NEW k \in Nat, Len(p) = 2 * k
  PROVE  Len(r) = 2 =>
           /\ \A j \in Whole(p \o r) : \/ j \in Whole(p) /\ Kind(p \o r, j) = Kind(p, j)
                                       \/ j = k + 1
           /\ k + 1 \in Whole(p \o r) /\ Len(p \o r) = 2 * (k + 1) /\ Kind(p \o r, k + 1) = r[1][1]
<1> SUFFICES ASSUME Len(r) = 2
             PROVE  /\ \A j \in Whole(p \o r) : \/ j \in Whole(p) /\ Kind(p \o r, j) = Kind(p, j)
                                                \/ j = k + 1
                    /\ k + 1 \in Whole(p \o r) /\ Len(p \o r) = 2 * (k + 1) /\ Kind(p \o r, k + 1) = r[1][1]
  OBVIOUS
<1> DEFINE w == p \o r
           l == Len(p)
<1>1. Len(w) = l + 2 /\ (\A i \in 1..l : w[i] = p[i]) /\ w[l + 1] = r[1] /\ l = 2 * k
  BY PairJoined
<1> HIDE DEF w, l
<1>2. ASSUME NEW j \in Whole(w) PROVE (j \in Whole(p) /\ Kind(w, j) = Kind(p, j)) \/ j = k + 1
  <2>1. j \in 1..(l + 2) /\ 2 * j <= l + 2 + 1
    BY <1>1 DEF Whole
  <2>2. CASE j # k + 1
    <3>1. j \in 1..l /\ 2 * j <= l + 1 /\ 2 * j - 1 \in 1..l
      BY <1>1, <2>1, <2>2
    <3> QED BY <1>1, <3>1 DEF Whole, Kind, l
  <2> QED BY <2>2
<1>3. k + 1 \in Whole(w)
  <2>1. k + 1 \in 1..(l + 2) /\ 2 * (k + 1) <= (l + 2) + 1
    BY <1>1
  <2> QED BY <1>1, <2>1 DEF Whole
<1>4. Len(w) = 2 * (k + 1) /\ 2 * (k + 1) - 1 = l + 1
  BY <1>1
<1>5. Kind(w, k + 1) = r[1][1]
  BY <1>1, <1>4 DEF Kind
<1> QED BY <1>2, <1>3, <1>4, <1>5 DEF w

LEMMA KindDrop ==
  ASSUME NEW U, NEW p \in Seq(U), Len(p) >= 2
  PROVE  /\ \A j \in Whole(Dropped(p)) : j + 1 \in Whole(p) /\ Kind(Dropped(p), j) = Kind(p, j + 1)
         /\ \A j \in Whole(p) : j = 1 \/ (j - 1 \in Whole(Dropped(p)) /\ Kind(Dropped(p), j - 1) = Kind(p, j))
         /\ 1 \in Whole(p) /\ Kind(p, 1) = p[1][1]
<1> DEFINE w == Dropped(p)
           l == Len(p)
<1>1. l \in Nat /\ l >= 2 /\ Len(w) = l - 2 /\ \A i \in 1..(l - 2) : w[i] = p[i + 2]
  BY LenProperties, DroppedIs
<1> HIDE DEF w, l
<1>2. ASSUME NEW j \in Whole(w) PROVE j + 1 \in Whole(p) /\ Kind(w, j) = Kind(p, j + 1)
  <2>1. j \in 1..(l - 2) /\ 2 * j <= (l - 2) + 1
    BY <1>1 DEF Whole
  <2>2. /\ j + 1 \in 1..l /\ 2 * (j + 1) <= l + 1 /\ 2 * j - 1 \in 1..(l - 2)
        /\ 2 * (j + 1) - 1 = (2 * j - 1) + 2
    BY <1>1, <2>1
  <2>3. w[2 * j - 1] = p[(2 * j - 1) + 2]
    BY <1>1, <2>2
  <2> QED BY <2>2, <2>3 DEF Whole, Kind, l
<1>3. ASSUME NEW j \in Whole(p) PROVE j = 1 \/ (j - 1 \in Whole(w) /\ Kind(w, j - 1) = Kind(p, j))
  <2>1. j \in 1..l /\ 2 * j <= l + 1
    BY DEF Whole, l
  <2>2. CASE j # 1
    <3>1. /\ j - 1 \in 1..(l - 2) /\ 2 * (j - 1) <= (l - 2) + 1 /\ 2 * (j - 1) - 1 \in 1..(l - 2)
          /\ (2 * (j - 1) - 1) + 2 = 2 * j - 1
      BY <1>1, <2>1, <2>2
    <3>2. w[2 * (j - 1) - 1] = p[(2 * (j - 1) - 1) + 2]
      BY <1>1, <3>1
    <3> QED BY <1>1, <3>1, <3>2 DEF Whole, Kind
  <2> QED BY <2>2
<1>4. 1 \in Whole(p) /\ Kind(p, 1) = p[1][1]
  <2>1. 1 \in 1..l /\ 2 * 1 <= l + 1 /\ 2 * 1 - 1 = 1
    BY <1>1
  <2> QED BY <2>1 DEF Whole, Kind, l
<1> QED BY <1>2, <1>3, <1>4 DEF w

LEMMA KindCut ==
  ASSUME NEW U, NEW p \in Seq(U), NEW m \in 0..Len(p)
  PROVE  \A j \in Whole(SubSeq(p, 1, m)) : j \in Whole(p) /\ Kind(SubSeq(p, 1, m), j) = Kind(p, j)
<1> DEFINE w == SubSeq(p, 1, m)
           l == Len(p)
<1>1. l \in Nat /\ m \in 0..l /\ Len(w) = m /\ \A i \in 1..m : w[i] = p[i]
  BY CutInTwo
<1> HIDE DEF w, l
<1>2. ASSUME NEW j \in Whole(w) PROVE j \in Whole(p) /\ Kind(w, j) = Kind(p, j)
  <2>1. j \in 1..m /\ 2 * j <= m + 1
    BY <1>1 DEF Whole
  <2>2. j \in 1..l /\ 2 * j <= l + 1 /\ 2 * j - 1 \in 1..m
    BY <1>1, <2>1
  <2> QED BY <1>1, <2>2 DEF Whole, Kind, l
<1> QED BY <1>2 DEF w

\* A stream that is whole is made of whole records.
LEMMA FlowIsEven ==
  ASSUME NEW p, NEW base, NEW n, Flows(p, base, n, TRUE)
  PROVE  \E k \in Nat : Len(p) = 2 * k
BY DEF Flows

\* The record r carries what s2 has more than s, and a close_notify or not (cs2).
Adds(s, s2, cs2, r) ==
    /\ \A i \in 1..Len(s2) : s2[i] = i
    /\ r[1][1] = "data" => /\ r[1][2] \in Seq(Nat) /\ Len(r[1][2]) > 0
                           /\ Len(s2) = Len(s) + Len(r[1][2])
                           /\ \A i \in 1..Len(r[1][2]) : r[1][2][i] = Len(s) + i
    /\ r[1][1] # "data" => s2 = s
    /\ cs2 <=> r[1][1] = "close"

\* The writer puts a record on the stream: bytes, a close_notify, or a message of
\* the handshake.
LEMMA ArrivesPut ==
  ASSUME NEW sent \in Seq(Nat), NEW got \in Seq(Nat), NEW plain \in Seq(Nat), NEW sent2 \in Seq(Nat),
         NEW U, NEW p \in Seq(U), NEW r \in Seq(U), NEW closed, NEW cs, NEW cs2, NEW whole,
         closed \in BOOLEAN, cs \in BOOLEAN, cs2 \in BOOLEAN, whole \in BOOLEAN, ~cs, whole,
         Adds(sent, sent2, cs2, r), Arrives(sent, cs, got, plain, closed, p, whole)
  PROVE  Len(r) = 2 => Arrives(sent2, cs2, got, plain, closed, p \o r, whole)
<1> SUFFICES ASSUME Len(r) = 2 PROVE Arrives(sent2, cs2, got, plain, closed, p \o r, whole)
  OBVIOUS
<1>0. /\ \A i \in 1..Len(sent2) : sent2[i] = i
      /\ r[1][1] = "data" => /\ r[1][2] \in Seq(Nat) /\ Len(r[1][2]) > 0
                             /\ Len(sent2) = Len(sent) + Len(r[1][2])
                             /\ \A i \in 1..Len(r[1][2]) : r[1][2][i] = Len(sent) + i
      /\ r[1][1] # "data" => sent2 = sent
      /\ cs2 <=> r[1][1] = "close"
  BY DEF Adds
<1> DEFINE base == Len(got) + Len(plain)
           n == Len(sent)
           n2 == Len(sent2)
           w == p \o r
<1>1. base \in Nat /\ n \in Nat /\ n2 \in Nat
  BY LenProperties
<1>2. /\ \A i \in 1..Len(got) : got[i] = i
      /\ \A i \in 1..Len(plain) : plain[i] = Len(got) + i
      /\ Flows(p, base, n, whole) /\ closed = FALSE
      /\ \A j \in Whole(p) : Kind(p, j) # "close"
  BY DEF Arrives
<1>a. Flows(p, base, n, TRUE)
  BY <1>2 DEF Flows
<1>3. Flows(w, base, n2, TRUE)
  <2>1. r[1][1] # "data" => n2 = n
    BY <1>0
  <2>2. r[1][1] = "data" => /\ r[1][2] \in Seq(Nat) /\ Len(r[1][2]) > 0
                            /\ n2 = n + Len(r[1][2])
                            /\ \A i \in 1..Len(r[1][2]) : r[1][2][i] = n + i
    BY <1>0
  <2> HIDE DEF base, n, n2
  <2> QED BY <1>1, <1>2, <1>a, <2>1, <2>2, FlowPut
<1>4. PICK k \in Nat : Len(p) = 2 * k
  BY <1>a, FlowIsEven
<1>5. /\ \A j \in Whole(w) : (j \in Whole(p) /\ Kind(w, j) = Kind(p, j)) \/ j = k + 1
      /\ k + 1 \in Whole(w) /\ Len(w) = 2 * (k + 1) /\ Kind(w, k + 1) = r[1][1]
  BY <1>4, KindPut
<1> HIDE DEF w
<1>b. Flows(w, base, n2, whole)
  BY <1>3 DEF Flows
<1>6. \A j \in Whole(w) : Kind(w, j) = "close" => cs2
  BY <1>0, <1>2, <1>5
<1>7. cs2 => \E j \in Whole(w) : Len(w) = 2 * j /\ Kind(w, j) = "close"
  BY <1>0, <1>5
<1> QED BY <1>0, <1>2, <1>b, <1>6, <1>7 DEF Arrives, w

\* After a cut it is only written.
LEMMA ArrivesLost ==
  ASSUME NEW sent \in Seq(Nat), NEW got \in Seq(Nat), NEW plain \in Seq(Nat), NEW sent2 \in Seq(Nat), NEW p,
         NEW closed, NEW cs, NEW cs2, NEW whole,
         closed \in BOOLEAN, cs \in BOOLEAN, cs2 \in BOOLEAN, whole \in BOOLEAN, ~cs, ~whole,
         Arrives(sent, cs, got, plain, closed, p, whole),
         \A i \in 1..Len(sent2) : sent2[i] = i, Len(sent) <= Len(sent2)
  PROVE  Arrives(sent2, cs2, got, plain, closed, p, whole)
<1> DEFINE base == Len(got) + Len(plain)
           n == Len(sent)
           n2 == Len(sent2)
<1>1. base \in Nat /\ n \in Nat /\ n2 \in Nat /\ n <= n2
  BY LenProperties
<1>2. /\ \A i \in 1..Len(got) : got[i] = i
      /\ \A i \in 1..Len(plain) : plain[i] = Len(got) + i
      /\ Flows(p, base, n, whole) /\ closed = FALSE
      /\ \A j \in Whole(p) : Kind(p, j) # "close"
  BY DEF Arrives
<1>3. Flows(p, base, n2, FALSE)
  <2> HIDE DEF base, n, n2
  <2> QED BY <1>1, <1>2, FlowGrow
<1>4. Flows(p, base, n2, whole)
  BY <1>3 DEF Flows
<1> QED BY <1>2, <1>4 DEF Arrives

\* The reader takes the first record.
LEMMA ArrivesTake ==
  ASSUME NEW sent \in Seq(Nat), NEW cs \in BOOLEAN, NEW got \in Seq(Nat), NEW plain \in Seq(Nat),
         NEW closed \in BOOLEAN, NEW whole \in BOOLEAN, NEW p \in Seq(Units), Len(p) >= 2,
         Arrives(sent, cs, got, plain, closed, p, whole)
  PROVE  /\ ~closed
         /\ p[1][1] = "data" => /\ p[1][2] \in Seq(Nat) /\ Len(p[1][2]) > 0
                                /\ Arrives(sent, cs, got, plain \o p[1][2], closed, Dropped(p), whole)
         /\ p[1][1] = "close" =>
              \A now \in BOOLEAN : now => Arrives(sent, cs, got, plain, now, Dropped(p), whole)
         /\ p[1][1] \notin {"data", "close"} => Arrives(sent, cs, got, plain, closed, Dropped(p), whole)
<1> DEFINE base == Len(got) + Len(plain)
           n == Len(sent)
           w == Dropped(p)
           v == p[1][2]
<1>1. base \in Nat /\ n \in Nat /\ Len(got) \in Nat /\ Len(plain) \in Nat
  BY LenProperties
<1>2. /\ \A i \in 1..Len(sent) : sent[i] = i
      /\ \A i \in 1..Len(got) : got[i] = i
      /\ \A i \in 1..Len(plain) : plain[i] = Len(got) + i
      /\ Flows(p, base, n, whole)
      /\ closed => p = <<>>
      /\ \A j \in Whole(p) : Kind(p, j) = "close" => cs
      /\ cs /\ whole => closed \/ \E j \in Whole(p) : Len(p) = 2 * j /\ Kind(p, j) = "close"
  BY DEF Arrives
<1>3. ~closed
  <2>1. p # <<>>
    BY EmptySeq
  <2> QED BY <1>2, <2>1
<1>4. /\ p[1][1] = "data" =>
           /\ v \in Seq(Nat) /\ Len(v) > 0 /\ \A i \in 1..Len(v) : v[i] = base + i
           /\ Flows(w, base + Len(v), n, whole)
      /\ p[1][1] # "data" => Flows(w, base, n, whole)
      /\ p[1][1] = "close" => Len(p) = 2 /\ base = n
  <2> HIDE DEF base, n
  <2> QED BY <1>1, <1>2, FlowTake
<1>5. /\ \A j \in Whole(w) : j + 1 \in Whole(p) /\ Kind(w, j) = Kind(p, j + 1)
      /\ \A j \in Whole(p) : j = 1 \/ (j - 1 \in Whole(w) /\ Kind(w, j - 1) = Kind(p, j))
      /\ 1 \in Whole(p) /\ Kind(p, 1) = p[1][1]
  BY KindDrop
<1>6. Len(w) = Len(p) - 2 /\ w \in Seq(Units) /\ Len(p) \in Nat
  BY DroppedIs, LenProperties
<1> HIDE DEF w, v
<1>7. \A j \in Whole(w) : Kind(w, j) = "close" => cs
  BY <1>2, <1>5
<1>8. cs /\ whole /\ p[1][1] # "close" => \E j \in Whole(w) : Len(w) = 2 * j /\ Kind(w, j) = "close"
  <2> SUFFICES ASSUME cs, whole, p[1][1] # "close"
               PROVE  \E j \in Whole(w) : Len(w) = 2 * j /\ Kind(w, j) = "close"
    OBVIOUS
  <2>1. PICK j \in Whole(p) : Len(p) = 2 * j /\ Kind(p, j) = "close"
    BY <1>2, <1>3
  <2>2. j # 1
    BY <1>5, <2>1
  <2>3. j - 1 \in Whole(w) /\ Kind(w, j - 1) = "close"
    BY <1>5, <2>1, <2>2
  <2>4. Len(w) = 2 * (j - 1)
    <3>1. j \in Nat
      BY DEF Whole
    <3> QED BY <1>6, <2>1, <3>1
  <2> QED BY <2>3, <2>4
<1>9. ASSUME p[1][1] = "data" PROVE Arrives(sent, cs, got, plain \o v, closed, w, whole)
  <2>1. v \in Seq(Nat) /\ Len(v) \in Nat /\ \A i \in 1..Len(v) : v[i] = base + i
    BY <1>4, <1>9, LenProperties
  <2>2. /\ Len(plain \o v) = Len(plain) + Len(v)
        /\ \A i \in 1..Len(plain) : (plain \o v)[i] = plain[i]
        /\ \A i \in 1..Len(v) : (plain \o v)[Len(plain) + i] = v[i]
    BY <2>1, Joined
  <2>3. ASSUME NEW i \in 1..Len(plain \o v) PROVE (plain \o v)[i] = Len(got) + i
    <3> DEFINE q == plain \o v
               a == Len(plain)
    <3>1. CASE i <= a
      <4>1. i \in 1..a
        BY <1>1, <2>1, <2>2, <3>1
      <4> QED BY <1>2, <2>2, <4>1
    <3>2. CASE ~(i <= a)
      <4> DEFINE j == i - a
      <4>1. i \in 1..(a + Len(v)) /\ a \in Nat /\ Len(v) \in Nat
        BY <1>1, <2>1, <2>2
      <4>2. j \in 1..Len(v) /\ i = a + j
        BY <3>2, <4>1
      <4> HIDE DEF j
      <4>3. q[i] = v[j] /\ v[j] = base + j
        BY <2>1, <2>2, <4>2
      <4>4. base + j = Len(got) + i
        BY <1>1, <4>1, <4>2
      <4> QED BY <4>3, <4>4
    <3> QED BY <3>1, <3>2
  <2>4. Flows(w, Len(got) + Len(plain \o v), n, whole)
    <3>1. Len(got) + Len(plain \o v) = base + Len(v)
      BY <1>1, <2>1, <2>2
    <3> QED BY <1>4, <1>9, <3>1
  <2> QED BY <1>2, <1>3, <1>7, <1>8, <1>9, <2>3, <2>4 DEF Arrives
<1>10. ASSUME p[1][1] = "close", NEW now \in BOOLEAN, now PROVE Arrives(sent, cs, got, plain, now, w, whole)
  <2>1. Flows(w, base, n, whole) /\ base = n /\ Len(w) = 0
    BY <1>4, <1>6, <1>10
  <2>2. w = <<>>
    BY <1>6, <2>1, EmptySeq
  <2>3. cs /\ now
    BY <1>2, <1>5, <1>10
  <2>4. /\ \A i \in 1..Len(sent) : sent[i] = i
        /\ \A i \in 1..Len(got) : got[i] = i
        /\ \A i \in 1..Len(plain) : plain[i] = Len(got) + i
        /\ Flows(w, Len(got) + Len(plain), Len(sent), whole)
        /\ now => cs /\ w = <<>> /\ Len(got) + Len(plain) = Len(sent)
        /\ \A j \in Whole(w) : Kind(w, j) = "close" => cs
        /\ cs /\ whole => now \/ \E j \in Whole(w) : Len(w) = 2 * j /\ Kind(w, j) = "close"
    BY <1>2, <1>7, <2>1, <2>2, <2>3
  <2> QED BY <2>4, Zenon DEF Arrives
<1>11. ASSUME p[1][1] \notin {"data", "close"} PROVE Arrives(sent, cs, got, plain, closed, w, whole)
  <2>1. Flows(w, base, n, whole)
    BY <1>4, <1>11
  <2> QED BY <1>2, <1>3, <1>7, <1>8, <1>11, <2>1 DEF Arrives
<1> QED BY <1>3, <1>4, <1>9, <1>10, <1>11 DEF w, v

\* A read hands over part of what was decrypted.
LEMMA ArrivesGive ==
  ASSUME NEW sent \in Seq(Nat), NEW cs \in BOOLEAN, NEW got \in Seq(Nat), NEW plain \in Seq(Nat),
         NEW closed \in BOOLEAN, NEW whole \in BOOLEAN, NEW p, NEW m \in 0..Len(plain),
         Arrives(sent, cs, got, plain, closed, p, whole)
  PROVE  LET g == got \o SubSeq(plain, 1, m)
             r == SubSeq(plain, m + 1, Len(plain))
         IN  g \in Seq(Nat) /\ r \in Seq(Nat) /\ Arrives(sent, cs, g, r, closed, p, whole)
<1> DEFINE a == SubSeq(plain, 1, m)
           g == got \o a
           r == SubSeq(plain, m + 1, Len(plain))
           c == Len(got)
           d == Len(plain)
<1>1. /\ d \in Nat /\ a \in Seq(Nat) /\ Len(a) = m /\ (\A i \in 1..m : a[i] = plain[i])
      /\ r \in Seq(Nat) /\ Len(r) = d - m /\ (\A i \in 1..(d - m) : r[i] = plain[m + i])
  BY CutInTwo
<1> HIDE DEF a, r
<1>2. /\ g \in Seq(Nat) /\ Len(g) = c + Len(a) /\ c \in Nat
      /\ (\A i \in 1..c : g[i] = got[i]) /\ (\A i \in 1..Len(a) : g[c + i] = a[i])
  <2>1. /\ got \o a \in Seq(Nat) /\ Len(got \o a) = Len(got) + Len(a) /\ Len(got) \in Nat
        /\ (\A i \in 1..Len(got) : (got \o a)[i] = got[i])
        /\ (\A i \in 1..Len(a) : (got \o a)[Len(got) + i] = a[i])
    <3>1. a \in Seq(Nat)
      BY <1>1
    <3> QED BY <3>1, Joined
  <2> QED BY <2>1
<1>3. /\ \A i \in 1..c : got[i] = i
      /\ \A i \in 1..d : plain[i] = c + i
  BY DEF Arrives
<1>h. m \in 0..d
  OBVIOUS
<1> HIDE DEF g, c, d
<1>4. Len(g) + Len(r) = c + d /\ Len(g) = c + m
  BY <1>1, <1>2, <1>h
<1>5. ASSUME NEW i \in 1..Len(g) PROVE g[i] = i
  <2>1. CASE i <= c
    <3>1. i \in 1..c
      BY <1>2, <1>4, <2>1
    <3> QED BY <1>2, <1>3, <3>1
  <2>2. CASE ~(i <= c)
    <3> DEFINE j == i - c
    <3>1. j \in 1..m /\ i = c + j
      BY <1>2, <1>4, <1>h, <2>2
    <3> HIDE DEF j
    <3>2. g[i] = a[j] /\ a[j] = plain[j] /\ j \in 1..d
      BY <1>1, <1>2, <1>h, <3>1
    <3> QED BY <1>3, <3>1, <3>2
  <2> QED BY <2>1, <2>2
<1>6. ASSUME NEW i \in 1..Len(r) PROVE r[i] = Len(g) + i
  <2>1. i \in 1..(d - m) /\ m + i \in 1..d /\ c + (m + i) = Len(g) + i
    BY <1>1, <1>2, <1>4, <1>h
  <2> QED BY <1>1, <1>3, <2>1
<1>7. /\ \A i \in 1..Len(sent) : sent[i] = i
      /\ Flows(p, c + d, Len(sent), whole)
      /\ closed => cs /\ p = <<>> /\ c + d = Len(sent)
      /\ \A j \in Whole(p) : Kind(p, j) = "close" => cs
      /\ cs /\ whole => closed \/ \E j \in Whole(p) : Len(p) = 2 * j /\ Kind(p, j) = "close"
  BY DEF Arrives, c, d
<1>8. Arrives(sent, cs, g, r, closed, p, whole)
  BY <1>4, <1>5, <1>6, <1>7 DEF Arrives
<1> QED BY <1>1, <1>2, <1>8 DEF g, r, a

\* The network loses all but the first m units.
LEMMA ArrivesCut ==
  ASSUME NEW sent \in Seq(Nat), NEW cs \in BOOLEAN, NEW got \in Seq(Nat), NEW plain \in Seq(Nat),
         NEW closed \in BOOLEAN, NEW whole \in BOOLEAN, NEW p \in Seq(Units), NEW m \in 0..Len(p),
         Arrives(sent, cs, got, plain, closed, p, whole), NEW still \in BOOLEAN, ~still
  PROVE  Arrives(sent, cs, got, plain, closed, SubSeq(p, 1, m), still)
<1> DEFINE base == Len(got) + Len(plain)
           n == Len(sent)
           w == SubSeq(p, 1, m)
<1>1. base \in Nat /\ n \in Nat
  BY LenProperties
<1>2. /\ \A i \in 1..Len(sent) : sent[i] = i
      /\ \A i \in 1..Len(got) : got[i] = i
      /\ \A i \in 1..Len(plain) : plain[i] = Len(got) + i
      /\ Flows(p, base, n, whole)
      /\ closed => cs /\ p = <<>> /\ base = n
      /\ \A j \in Whole(p) : Kind(p, j) = "close" => cs
  BY DEF Arrives
<1>3. Flows(w, base, n, FALSE)
  <2> HIDE DEF base, n
  <2> QED BY <1>1, <1>2, FlowCut
<1>4. \A j \in Whole(w) : Kind(w, j) = "close" => cs
  <2>1. \A j \in Whole(w) : j \in Whole(p) /\ Kind(w, j) = Kind(p, j)
    BY KindCut
  <2> QED BY <1>2, <2>1
<1>5. closed => w = <<>>
  <2> SUFFICES ASSUME closed PROVE w = <<>>
    OBVIOUS
  <2>1. Len(p) = 0
    BY <1>2, EmptySeq
  <2>2. m = 0
    BY <2>1
  <2> QED BY <2>2, SubSeqEmpty
<1>6. Flows(w, base, n, still)
  BY <1>3 DEF Flows
<1> QED BY <1>2, <1>4, <1>5, <1>6 DEF Arrives

\* Nothing was written yet.
LEMMA ArrivesAtFirst ==
  ASSUME NEW cs \in BOOLEAN, ~cs, NEW closed \in BOOLEAN, ~closed, NEW whole \in BOOLEAN
  PROVE  Arrives(<<>>, cs, <<>>, <<>>, closed, <<>>, whole)
<1> DEFINE pos == [j \in 0..0 |-> 0]
           e == <<>>
<1>0. e \in Seq(Nat) /\ Len(e) = 0
  BY EmptySeq
<1>1. pos \in [0..0 -> Nat] /\ pos[0] = 0
  OBVIOUS
<1> HIDE DEF pos, e
<1>2. Numbered(e, pos, 0, 0)
  BY DEF Numbered
<1>3. Flows(e, 0, 0, whole)
  <2>1. 0 \in Nat /\ Len(e) = 2 * 0 /\ \A j \in 0..0 : pos[j] <= 0
    BY <1>0, <1>1
  <2> QED BY <1>1, <1>2, <2>1 DEF Flows
<1>4. Whole(e) = {}
  BY <1>0 DEF Whole
<1>5. Arrives(e, cs, e, e, closed, e, whole)
  <2>1. Len(e) + Len(e) = 0 /\ 1..Len(e) = {}
    BY <1>0
  <2> QED BY <1>0, <1>3, <1>4, <2>1 DEF Arrives
<1> QED BY <1>5 DEF e

\* What was read is a beginning of what was written, and all of it at the end.
LEMMA ArrivesInOrder ==
  ASSUME NEW sent \in Seq(Nat), NEW cs \in BOOLEAN, NEW got \in Seq(Nat), NEW plain \in Seq(Nat),
         NEW closed \in BOOLEAN, NEW whole \in BOOLEAN, NEW p,
         Arrives(sent, cs, got, plain, closed, p, whole)
  PROVE  /\ IsPrefix(got, sent)
         /\ closed /\ plain = <<>> => cs /\ got = sent
<1> DEFINE c == Len(got)
           n == Len(sent)
<1>1. c \in Nat /\ n \in Nat /\ Len(plain) \in Nat
  BY LenProperties
<1>2. c + Len(plain) <= n
  <2> DEFINE base == c + Len(plain)
  <2>1. \E k \in Nat : \E pos \in [0..k -> Nat] : pos[0] = base /\ \A j \in 0..k : pos[j] <= n
    BY DEF Arrives, Flows
  <2> HIDE DEF base
  <2>2. base <= n
    <3>1. PICK k \in Nat : \E pos \in [0..k -> Nat] : pos[0] = base /\ \A j \in 0..k : pos[j] <= n
      BY <2>1
    <3>2. 0 \in 0..k
      OBVIOUS
    <3> QED BY <3>1, <3>2
  <2> QED BY <2>2 DEF base
<1>3. c <= n
  BY <1>1, <1>2
<1>4. (\A i \in 1..n : sent[i] = i) /\ (\A i \in 1..c : got[i] = i)
  BY DEF Arrives
<1>5. SubSeq(sent, 1, c) = got
  <2>0. c \in 0..n
    BY <1>1, <1>3
  <2>1. /\ SubSeq(sent, 1, c) \in Seq(Nat) /\ Len(SubSeq(sent, 1, c)) = c
        /\ \A i \in 1..c : SubSeq(sent, 1, c)[i] = sent[i]
    BY <2>0, CutInTwo
  <2>2. ASSUME NEW i \in 1..c PROVE SubSeq(sent, 1, c)[i] = got[i]
    <3>1. i \in 1..n
      BY <1>1, <1>3
    <3> QED BY <1>4, <2>1, <3>1
  <2> QED BY <2>1, <2>2, SeqEqual
<1>6. SubSeq(got, 1, c) = got
  BY SubSeqFull
<1>7. ASSUME closed, plain = <<>> PROVE cs /\ got = sent
  <2>1. cs /\ Len(got) + Len(plain) = Len(sent) /\ Len(plain) = 0
    BY <1>7, EmptySeq DEF Arrives
  <2>2. c = n
    BY <1>1, <2>1
  <2>3. SubSeq(sent, 1, n) = sent
    BY SubSeqFull
  <2> QED BY <1>5, <2>1, <2>2, <2>3
<1> QED BY <1>3, <1>5, <1>6, <1>7 DEF IsPrefix

-----------------------------------------------------------------------------
\* Once input has been pulled, every handshake call works on the first record it
\* has, or on none.
LEMMA FirstIs ==
  ASSUME NEW x, Sound(x), Settled(x), HasRecord(x)
  PROVE  /\ First(x) = Stock(x)[1] /\ Len(Stock(x)) >= 2
         /\ First(x) = <<First(x)[1], First(x)[2], First(x)[3]>>
         /\ First(x)[1] \in {"hello", "flight", "finish", "alert", "data", "close"}
         /\ First(x)[2] \in Payloads
<1>1. First(x) = Stock(x)[1] /\ Len(Stock(x)) >= 2
  BY DEF Settled
<1>2. Stock(x) \in Seq(Units)
  BY StockIs
<1> DEFINE q == Stock(x)
<1> HIDE DEF q
<1>3. ASSUME q \in Seq(Units), Len(q) >= 2 PROVE q[1] \in Units
  BY <1>3
<1>4. First(x) \in Units
  BY <1>1, <1>2, <1>3 DEF q
<1> QED BY <1>1, <1>4, UnitIs

\* What a turn of the handshake changes and what it leaves alone.
Turn(x, r, status, phase, chosen, done) ==
    /\ r.status = status /\ Sound(r.x) /\ SameBase(x, r.x) /\ SameData(x, r.x)
    /\ r.x.phase = phase /\ r.x.chosen = chosen /\ r.x.done = done

LEMMA AwaitsMore ==
  ASSUME NEW x, Sound(x), NEW e \in Sides, ~HasRecord(x), ~x.done, Content(x.out) = <<>>,
         x.phase \in {"start", "sent"}, e = "client" => x.phase = "sent"
  PROVE  LET r == HandshakeCall(x, e)
         IN  /\ Turn(x, r, "want", x.phase, x.chosen, FALSE)
             /\ Stock(r.x) = Stock(x) /\ Content(r.x.out) = <<>>
<1> DEFINE n == <<"none">>
<1>1. Engine(x, e) = EngineOn(x, e, n)
  BY DEF Engine
<1>2. n[1] = "none"
  OBVIOUS
<1> HIDE DEF n
<1>3. EngineOn(x, e, n) = Result(x, "want")
  BY <1>2 DEF EngineOn
<1> DEFINE w == Result(x, "want")
<1>4. w.status = "want" /\ w.x = x
  BY DEF Result
<1>5. Engine(x, e) = w
  BY <1>1, <1>3
<1> HIDE DEF w
<1>6. HandshakeCall(x, e) = w
  BY <1>4, <1>5 DEF HandshakeCall, OsslOutcome, StOutcome, SchannelOutcome, Continued
<1> QED BY <1>4, <1>6 DEF Turn, SameBase, SameData

LEMMA SaysHello ==
  ASSUME NEW x, Sound(x), ~x.done, Content(x.out) = <<>>, x.phase = "start", x.hello \in Hellos
  PROVE  LET r == HandshakeCall(x, "client")
         IN  /\ Turn(x, r, "want", "sent", x.chosen, FALSE)
             /\ Stock(r.x) = Stock(x) /\ Content(r.x.out) = Record("hello", x.hello)
<1>1. x.hello \in Payloads
  BY DEF Payloads
<1> DEFINE m == Emit(x, "hello", x.hello)
           y == [m EXCEPT !.phase = "sent"]
           w == Result(y, "want")
<1>2. Sound(m) /\ Content(m.out) = Record("hello", x.hello) /\ Others(x, m) /\ Stock(m) = Stock(x)
  BY <1>1, EmitIs
<1>3. Engine(x, "client") = w
  BY DEF Engine, EngineOn
<1> HIDE DEF m
<1>4. /\ Sound(y) /\ y.phase = "sent" /\ y.done = m.done /\ y.chosen = m.chosen /\ y.out = m.out
      /\ SameBase(m, y) /\ SameData(m, y) /\ Stock(y) = Stock(m)
  BY <1>2 DEF Sound, SessionFields, SameBase, SameData, Stock
<1> HIDE DEF y
<1>5. w.status = "want" /\ w.x = y
  BY DEF Result
<1> HIDE DEF w
<1>6. HandshakeCall(x, "client") = w
  BY <1>3, <1>5 DEF HandshakeCall, OsslOutcome, StOutcome, SchannelOutcome, Continued
<1> QED BY <1>2, <1>4, <1>5, <1>6 DEF Turn, Others, SameBase, SameTalk, SameData

\* The client's answer to the server's flight.
LEMMA AnswersFlight ==
  ASSUME NEW x, Sound(x), Settled(x), HasRecord(x), ~x.done, Content(x.out) = <<>>, x.phase = "sent",
         First(x)[1] = "flight"
  PROVE  LET r == HandshakeCall(x, "client")
         IN  /\ trust => Turn(x, r, "ok", "done", First(x)[2], TRUE) /\ Content(r.x.out) = Record("finish", "")
             /\ ~trust => \/ /\ Turn(x, r, "failed", "auth", First(x)[2], FALSE)
                             /\ Content(r.x.out) = <<>> \/ Content(r.x.out) = Record("alert", "")
                          \/ /\ Turn(x, r, "failed", "done", First(x)[2], FALSE)
                             /\ Content(r.x.out) = Record("finish", "")
             /\ Stock(r.x) = Dropped(Stock(x))
<1>1. "" \in Payloads
  BY DEF Payloads
<1> DEFINE u == Used(x)
           y == [u EXCEPT !.phase = "auth", !.chosen = First(x)[2]]
           w == Result(y, "auth")
<1>2. Sound(u) /\ Stock(u) = Dropped(Stock(x)) /\ Others(x, u) /\ u.out = x.out
  BY UsedIs
<1>3. Engine(x, "client") = w
  BY DEF Engine, EngineOn
<1> HIDE DEF u
<1>4. /\ Sound(y) /\ y.phase = "auth" /\ y.done = u.done /\ y.chosen = First(x)[2] /\ y.out = u.out
      /\ SameBase(u, y) /\ SameData(u, y) /\ Stock(y) = Stock(u)
  BY <1>2 DEF Sound, SessionFields, SameBase, SameData, Stock
<1> HIDE DEF y
<1>5. w.status = "auth" /\ w.x = y
  BY DEF Result
<1> HIDE DEF w
<1>6. /\ SameBase(x, y) /\ SameData(x, y) /\ y.be = x.be /\ Stock(y) = Dropped(Stock(x)) /\ y.done = FALSE
      /\ Content(y.out) = <<>>
  <2>1. x.done = FALSE
    BY DEF Sound
  <2> QED BY <2>1, <1>2, <1>4 DEF Others, SameBase, SameTalk, SameData
\* The finish the client sends once the chain is looked at, or before.
<1> DEFINE m == Emit(y, "finish", "")
           f == [m EXCEPT !.phase = "done"]
           g == [f EXCEPT !.done = TRUE]
<1>7. Sound(m) /\ Content(m.out) = Record("finish", "") /\ Others(y, m) /\ Stock(m) = Stock(y)
  BY <1>1, <1>4, <1>6, EmitIs
<1>8. Engine(y, "client") = Result(f, "ok")
  BY <1>4 DEF Engine, EngineOn
<1> HIDE DEF m
<1>9. /\ Sound(f) /\ f.phase = "done" /\ f.done = m.done /\ f.chosen = m.chosen /\ f.out = m.out
      /\ SameBase(m, f) /\ SameData(m, f) /\ Stock(f) = Stock(m)
  BY <1>7 DEF Sound, SessionFields, SameBase, SameData, Stock
<1> HIDE DEF f
<1>10. /\ Sound(g) /\ g.phase = f.phase /\ g.done = TRUE /\ g.chosen = f.chosen /\ g.out = f.out
       /\ SameBase(f, g) /\ SameData(f, g) /\ Stock(g) = Stock(f)
  BY <1>9 DEF Sound, SessionFields, SameBase, SameData, Stock
<1> HIDE DEF g
<1> DEFINE k == Result(f, "ok")
<1>11. k.status = "ok" /\ k.x = f /\ Established(k) = Result(g, "ok")
  BY DEF Result, Established, g
<1> HIDE DEF k
<1>12. /\ SameBase(x, f) /\ SameData(x, f) /\ SameBase(x, g) /\ SameData(x, g)
       /\ f.chosen = First(x)[2] /\ f.done = FALSE /\ Stock(f) = Dropped(Stock(x))
       /\ Content(f.out) = Record("finish", "") /\ Content(g.out) = Record("finish", "")
       /\ g.chosen = First(x)[2] /\ Stock(g) = Dropped(Stock(x)) /\ g.phase = "done"
  <2>1. m.chosen = First(x)[2] /\ m.done = FALSE
    BY <1>4, <1>6, <1>7 DEF Others, SameTalk
  <2>2. SameBase(x, m) /\ SameData(x, m)
    BY <1>6, <1>7 DEF Others, SameBase, SameData
  <2>3. SameBase(x, f) /\ SameData(x, f)
    BY <2>2, <1>9 DEF SameBase, SameData
  <2>4. SameBase(x, g) /\ SameData(x, g)
    BY <2>3, <1>10 DEF SameBase, SameData
  <2> QED BY <2>1, <2>3, <2>4, <1>6, <1>7, <1>9, <1>10
<1>13. trust \/ ~trust
  OBVIOUS
<1>14. CASE trust
  <2>1. HandshakeCall(x, "client") = Result(g, "ok")
    <3>1. CASE x.be = "openssl"
      <4>1. OsslOutcome(w, "client") = Established(Engine(y, "client"))
        BY <1>5, <1>14 DEF OsslOutcome, Verified
      <4> QED BY <3>1, <4>1, <1>3, <1>8, <1>11 DEF HandshakeCall, k
    <3>2. CASE x.be = "schannel"
      <4>1. Continued(w, "client") = k
        BY <1>5, <1>8 DEF Continued, k
      <4>2. SchannelOutcome(k, "client") = Established(k)
        BY <1>11, <1>14 DEF SchannelOutcome, SchannelVerified
      <4>3. HandshakeCall(x, "client") = SchannelOutcome(Continued(Engine(x, "client"), "client"), "client")
        BY <3>2 DEF HandshakeCall
      <4> QED BY <4>1, <4>2, <4>3, <1>3, <1>11
    <3>3. CASE x.be \notin {"openssl", "schannel"}
      <4>1. StOutcome(w, "client") = Established(Engine(y, "client"))
        BY <1>5, <1>14 DEF StOutcome, StVerified
      <4> QED BY <3>3, <4>1, <1>3, <1>8, <1>11 DEF HandshakeCall, k
    <3> QED BY <3>1, <3>2, <3>3
  <2> DEFINE r == Result(g, "ok")
  <2>2. r.x = g /\ r.status = "ok"
    BY DEF Result
  <2> HIDE DEF r
  <2>3. HandshakeCall(x, "client") = r
    BY <2>1 DEF r
  <2> QED BY <1>10, <1>12, <1>14, <2>2, <2>3 DEF Turn
<1>15. CASE ~trust
  <2>1. CASE x.be = "openssl"
    <3> DEFINE a == Emit(y, "alert", "")
               r == Result(a, "failed")
    <3>1. Sound(a) /\ Content(a.out) = Record("alert", "") /\ Others(y, a) /\ Stock(a) = Stock(y)
      BY <1>1, <1>4, <1>6, EmitIs
    <3>2. OsslOutcome(w, "client") = r
      BY <1>5, <1>15 DEF OsslOutcome, Verified
    <3> HIDE DEF a
    <3>3. r.x = a /\ r.status = "failed"
      BY DEF Result
    <3> HIDE DEF r
    <3>4. HandshakeCall(x, "client") = r
      BY <1>3, <2>1, <3>2 DEF HandshakeCall
    <3>5. Turn(x, r, "failed", "auth", First(x)[2], FALSE)
      BY <1>4, <1>6, <3>1, <3>3 DEF Turn, Others, SameBase, SameTalk, SameData
    <3> QED BY <1>6, <1>15, <3>1, <3>3, <3>4, <3>5
  <2>2. CASE x.be = "schannel"
    <3> DEFINE r == Result(f, "failed")
    <3>1. Continued(w, "client") = k
      BY <1>5, <1>8 DEF Continued, k
    <3>2. SchannelOutcome(k, "client") = r
      BY <1>11, <1>15 DEF SchannelOutcome, SchannelVerified
    <3>3. r.x = f /\ r.status = "failed"
      BY DEF Result
    <3> HIDE DEF r
    <3>4. HandshakeCall(x, "client") = r
      <4>1. HandshakeCall(x, "client") = SchannelOutcome(Continued(Engine(x, "client"), "client"), "client")
        BY <2>2 DEF HandshakeCall
      <4> QED BY <4>1, <1>3, <3>1, <3>2
    <3>5. Turn(x, r, "failed", "done", First(x)[2], FALSE)
      BY <1>9, <1>12, <3>3 DEF Turn
    <3> QED BY <1>12, <1>15, <3>3, <3>4, <3>5
  <2>3. CASE x.be \notin {"openssl", "schannel"}
    <3> DEFINE r == Result(y, "failed")
    <3>1. StOutcome(w, "client") = r
      BY <1>5, <1>15 DEF StOutcome, StVerified
    <3>2. r.x = y /\ r.status = "failed"
      BY DEF Result
    <3> HIDE DEF r
    <3>3. HandshakeCall(x, "client") = r
      BY <1>3, <2>3, <3>1 DEF HandshakeCall
    <3>4. Turn(x, r, "failed", "auth", First(x)[2], FALSE)
      BY <1>4, <1>6, <3>2 DEF Turn
    <3> QED BY <1>6, <1>15, <3>2, <3>3, <3>4
  <2> QED BY <2>1, <2>2, <2>3
<1> QED BY <1>13, <1>14, <1>15

\* The server's answers to a hello, to a finish and to an alert.
LEMMA AnswersHello ==
  ASSUME NEW x, Sound(x), Settled(x), HasRecord(x), ~x.done, Content(x.out) = <<>>, x.phase = "start",
         First(x)[1] = "hello", First(x)[2] \in Hellos, x.be \in BackendNames
  PROVE  LET r == HandshakeCall(x, "server")
         IN  /\ \E pick : Turn(x, r, "want", "sent", pick, FALSE) /\ Content(r.x.out) = Record("flight", pick)
             /\ Stock(r.x) = Dropped(Stock(x))
<1> DEFINE h == First(x)[2]
           pick == <<ChosenIdentity(x.be, h.name), OsslAlpn(h.alpn)>>
           u == Used(x)
           m == Emit(u, "flight", pick)
           f == Flight(u, pick)
           y == [f EXCEPT !.phase = "sent"]
           w == Result(y, "want")
<1>1. pick \in Payloads
  <2>1. h \in Hellos \union {NoHello}
    OBVIOUS
  <2> DEFINE be == x.be
  <2> HIDE DEF h, be
  <2>2. be \in BackendNames
    BY DEF be
  <2>3. <<ChosenIdentity(be, h.name), OsslAlpn(h.alpn)>> \in Picks
    BY <2>1, <2>2 DEF Picks
  <2>4. pick \in Picks
    BY <2>3 DEF be
  <2> QED BY <2>4 DEF Payloads
<1>2. Sound(u) /\ Stock(u) = Dropped(Stock(x)) /\ Others(x, u) /\ u.out = x.out
  BY UsedIs
<1>3. Engine(x, "server") = w
  BY DEF Engine, EngineOn
<1> HIDE DEF u, pick
<1>4. Sound(m) /\ Content(m.out) = Record("flight", pick) /\ Others(u, m) /\ Stock(m) = Stock(u)
  BY <1>1, <1>2, EmitIs
<1>5. f = [m EXCEPT !.chosen = pick]
  BY DEF Flight
<1> HIDE DEF m, f
<1>6. /\ Sound(y) /\ y.phase = "sent" /\ y.done = m.done /\ y.chosen = pick /\ y.out = m.out
      /\ SameBase(m, y) /\ SameData(m, y) /\ Stock(y) = Stock(m)
  BY <1>4, <1>5 DEF Sound, SessionFields, SameBase, SameData, Stock
<1> HIDE DEF y
<1>7. w.status = "want" /\ w.x = y
  BY DEF Result
<1> HIDE DEF w
<1>8. HandshakeCall(x, "server") = w
  BY <1>3, <1>7 DEF HandshakeCall, OsslOutcome, StOutcome, SchannelOutcome, Continued
<1>9. SameBase(x, m) /\ SameData(x, m) /\ m.done = FALSE
  <2>1. x.done = FALSE
    BY DEF Sound
  <2> QED BY <2>1, <1>2, <1>4 DEF Others, SameBase, SameTalk, SameData
<1>10. Turn(x, w, "want", "sent", pick, FALSE)
  BY <1>6, <1>7, <1>9 DEF Turn, SameBase, SameData
<1> QED BY <1>2, <1>4, <1>6, <1>7, <1>8, <1>10

LEMMA EndsServer ==
  ASSUME NEW x, Sound(x), Settled(x), HasRecord(x), ~x.done, Content(x.out) = <<>>, x.phase = "sent",
         First(x)[1] \in {"finish", "alert"}
  PROVE  LET r == HandshakeCall(x, "server")
         IN  /\ First(x)[1] = "finish" => Turn(x, r, "ok", "done", x.chosen, TRUE)
             /\ First(x)[1] = "alert" => Turn(x, r, "failed", "sent", x.chosen, FALSE)
             /\ Stock(r.x) = Dropped(Stock(x)) /\ Content(r.x.out) = <<>>
<1> DEFINE u == Used(x)
           f == [u EXCEPT !.phase = "done"]
           g == [f EXCEPT !.done = TRUE]
<1>1. Sound(u) /\ Stock(u) = Dropped(Stock(x)) /\ Others(x, u) /\ u.out = x.out
  BY UsedIs
<1>2. /\ First(x)[1] = "finish" => Engine(x, "server") = Result(f, "ok")
      /\ First(x)[1] = "alert" => Engine(x, "server") = Result(u, "failed")
  BY DEF Engine, EngineOn
<1>3. x.done = FALSE
  BY DEF Sound
<1> HIDE DEF u
<1>4. /\ Sound(f) /\ f.phase = "done" /\ f.chosen = u.chosen /\ f.out = u.out
      /\ SameBase(u, f) /\ SameData(u, f) /\ Stock(f) = Stock(u)
  BY <1>1 DEF Sound, SessionFields, SameBase, SameData, Stock
<1> HIDE DEF f
<1>5. /\ Sound(g) /\ g.phase = f.phase /\ g.done = TRUE /\ g.chosen = f.chosen /\ g.out = f.out
      /\ SameBase(f, g) /\ SameData(f, g) /\ Stock(g) = Stock(f)
  BY <1>4 DEF Sound, SessionFields, SameBase, SameData, Stock
<1> HIDE DEF g
<1>6. CASE First(x)[1] = "finish"
  <2> DEFINE k == Result(f, "ok")
             r == Result(g, "ok")
  <2>1. k.status = "ok" /\ k.x = f /\ r.status = "ok" /\ r.x = g /\ Established(k) = r
    BY DEF Result, Established, g
  <2>2. Engine(x, "server") = k
    BY <1>2, <1>6
  <2> HIDE DEF k, r
  <2>3. HandshakeCall(x, "server") = r
    BY <2>1, <2>2 DEF HandshakeCall, OsslOutcome, StOutcome, SchannelOutcome, Continued
  <2>4. Turn(x, r, "ok", "done", x.chosen, TRUE)
    BY <1>1, <1>4, <1>5, <2>1 DEF Turn, Others, SameBase, SameTalk, SameData
  <2> QED BY <1>1, <1>4, <1>5, <1>6, <2>1, <2>3, <2>4
<1>7. CASE First(x)[1] = "alert"
  <2> DEFINE r == Result(u, "failed")
  <2>1. r.status = "failed" /\ r.x = u
    BY DEF Result
  <2>2. Engine(x, "server") = r
    BY <1>2, <1>7
  <2> HIDE DEF r
  <2>3. HandshakeCall(x, "server") = r
    BY <2>1, <2>2 DEF HandshakeCall, OsslOutcome, StOutcome, SchannelOutcome, Continued
  <2>4. Turn(x, r, "failed", "sent", x.chosen, FALSE)
    BY <1>1, <1>3, <2>1 DEF Turn, Others, SameBase, SameTalk, SameData
  <2> QED BY <1>1, <1>7, <2>1, <2>3, <2>4
<1> QED BY <1>6, <1>7

\* A session that stores what its call left and sends what is queued.
LEMMA SendStoredIs ==
  ASSUME SessionTypeOK, NEW e \in Sides, NEW x, NEW flush \in BOOLEAN, Sound(x),
         x.be = session[e].be, x.hello = session[e].hello,
         ~flush => Content(x.out) = <<>>, SendStored(e, x, flush)
  PROVE  /\ Peer(e) \in Sides /\ Peer(e) # e /\ Peer(Peer(e)) = e /\ DOMAIN session' = Sides
         /\ session'[Peer(e)] = session[Peer(e)] /\ IsSession(session'[e]) /\ Others(x, session'[e])
         /\ Stock(session'[e]) = Stock(x) /\ wire' \in [Sides -> Seq(Units)] /\ wire'[e] = wire[e]
         /\ Pipe(e)' = Stock(x) \o wire[e]
         /\ Pipe(Peer(e))' = IF cut THEN Pipe(Peer(e)) ELSE Pipe(Peer(e)) \o Content(x.out)
<1> DEFINE o == Peer(e)
           y == IF flush THEN [x EXCEPT !.out = Discard(@, Len(Content(@)))] ELSE x
           c == Content(x.out)
<1>1. o \in Sides /\ o # e /\ Peer(o) = e
  BY DEF Sides, Peer
<1>2. session' = [session EXCEPT ![e] = y] /\ wire' = IF flush /\ ~cut THEN [wire EXCEPT ![o] = @ \o c] ELSE wire
  BY DEF SendStored
<1>3. c \in Seq(Units) /\ IsBuf(x.out)
  BY ContentIs DEF Sound
<1>4. IsSession(y) /\ Others(x, y) /\ Stock(y) = Stock(x)
  <2>1. CASE flush
    <3> DEFINE z == [x EXCEPT !.out = Discard(@, Len(Content(@)))]
    <3>1. z.out = Discard(x.out, Len(c)) /\ z.in = x.in /\ z.rec = x.rec /\ DOMAIN z = SessionFields /\ Others(x, z)
      BY DEF Sound, SessionFields, Others, SameBase, SameTalk, SameData
    <3>2. y = z
      BY <2>1
    <3> HIDE DEF z, y
    <3>3. Len(c) \in 0..Len(c)
      BY <1>3
    <3>4. IsBuf(z.out) /\ Content(z.out) = SubSeq(c, Len(c) + 1, Len(c))
      BY <1>3, <3>1, <3>3, DiscardIs
    <3>5. Content(z.out) = <<>>
      BY <1>3, <3>4, SubSeqEmpty
    <3>6. Sound(z) /\ Stock(z) = Stock(x)
      BY <3>1, <3>4 DEF Sound, Stock, Others, SameBase, SameTalk, SameData
    <3> QED BY <3>1, <3>2, <3>5, <3>6 DEF IsSession
  <2>2. CASE ~flush
    <3>1. y = x
      BY <2>2
    <3> QED BY <2>2, <3>1 DEF IsSession, Others, SameBase, SameTalk, SameData
  <2> QED BY <2>1, <2>2
<1> HIDE DEF y
<1>5. /\ DOMAIN session = Sides /\ wire \in [Sides -> Seq(Units)]
  BY DEF SessionTypeOK
<1>6. /\ DOMAIN session' = Sides /\ session'[e] = y /\ session'[o] = session[o]
  BY <1>1, <1>2, <1>5
<1>7. wire[o] \in Seq(Units) /\ wire[o] \o c \in Seq(Units)
  BY <1>1, <1>3, <1>5, Joined
<1> HIDE DEF c
<1>8. wire' \in [Sides -> Seq(Units)] /\ wire'[e] = wire[e] /\ wire'[o] = IF flush /\ ~cut THEN wire[o] \o c ELSE wire[o]
  BY <1>1, <1>2, <1>5, <1>7
<1>9. Pipe(e)' = Stock(x) \o wire[e]
  BY <1>4, <1>6, <1>8 DEF Pipe
<1>10. Pipe(o)' = IF cut THEN Pipe(o) ELSE Pipe(o) \o c
  <2> DEFINE s == Stock(session[o])
             v == wire[o]
  <2>1. s \in Seq(Units) /\ v \in Seq(Units) /\ c \in Seq(Units)
    BY <1>1, <1>3, <1>7, StockIs DEF SessionTypeOK, IsSession, c
  <2>2. Pipe(o)' = s \o wire'[o] /\ Pipe(o) = s \o v
    BY <1>6 DEF Pipe
  <2> HIDE DEF s, v
  <2>3. (s \o v) \o c = s \o (v \o c)
    BY <2>1, Regrouped
  <2>4. CASE flush \/ cut
    BY <2>2, <2>3, <2>4, <1>8 DEF v
  <2>5. CASE ~flush /\ ~cut
    <3>1. c = <<>>
      BY <2>5 DEF c
    <3>2. v \o <<>> = v
      BY <2>1, ConcatEmptySeq
    <3> QED BY <2>2, <2>3, <2>5, <3>1, <3>2, <1>8 DEF v
  <2> QED BY <2>4, <2>5
<1> QED BY <1>1, <1>4, <1>6, <1>8, <1>9, <1>10 DEF c

\* What every step of a read keeps: r is the session, w what the peer wrote, tail
\* what is still on the wire.
Reads(x, r, sent, close_sent, tail, whole) ==
    /\ Sound(r) /\ SameBase(x, r) /\ SameTalk(x, r) /\ r.out = x.out
    /\ Stock(r) \o tail \in Seq(Units) /\ OnlyData(Stock(r) \o tail)
    /\ Stock(x) \o tail = <<>> => Stock(r) \o tail = <<>>
    /\ Arrives(sent, close_sent, r.got, r.plain, r.closed, Stock(r) \o tail, whole)

LEMMA OnlyDataLeft ==
  ASSUME NEW p \in Seq(Units), Len(p) >= 2, OnlyData(p)
  PROVE  OnlyData(Dropped(p)) /\ p[1][1] \in {"data", "close"}
<1>1. \A j \in Whole(Dropped(p)) : j + 1 \in Whole(p) /\ Kind(Dropped(p), j) = Kind(p, j + 1)
  BY KindDrop
<1>2. 1 \in Whole(p) /\ Kind(p, 1) = p[1][1]
  BY KindDrop
<1> QED BY <1>1, <1>2 DEF OnlyData

\* A read starts: what is there has been pulled in.
LEMMA ReadBegins ==
  ASSUME NEW x, Sound(x), NEW sent, NEW cs, NEW tail \in Seq(Units), NEW whole,
         OnlyData(Stock(x) \o tail),
         Arrives(sent, cs, x.got, x.plain, x.closed, Stock(x) \o tail, whole)
  PROVE  Reads(x, Pulled(x), sent, cs, tail, whole) /\ Settled(Pulled(x))
<1> DEFINE r == Pulled(x)
<1>1. /\ Sound(r) /\ Stock(r) = Stock(x) /\ Settled(r) /\ Others(x, r) /\ r.out = x.out
  BY PulledIs
<1>2. Stock(x) \in Seq(Units)
  BY StockIs
<1>3. Stock(x) \o tail \in Seq(Units)
  BY <1>2, Joined
<1> HIDE DEF r
<1> QED BY <1>1, <1>3 DEF Reads, Others, SameData, r

\* A record is decrypted: it is data or a close_notify.
LEMMA ReadDecrypts ==
  ASSUME NEW x, NEW r, NEW sent \in Seq(Nat), NEW cs \in BOOLEAN, NEW tail \in Seq(Units), NEW whole \in BOOLEAN,
         Reads(x, r, sent, cs, tail, whole), Settled(r), HasRecord(r)
  PROVE  /\ ~Broken(r) /\ Reads(x, Decrypted(r), sent, cs, tail, whole)
         /\ Decrypted(r).plain # <<>> \/ Decrypted(r).closed
<1> DEFINE s == Stock(r)
           p == s \o tail
           u == Used(r)
           f == First(r)
           d == f[2]
<1>1. /\ Sound(r) /\ SameBase(x, r) /\ SameTalk(x, r) /\ r.out = x.out
      /\ p \in Seq(Units) /\ OnlyData(p) /\ (Stock(x) \o tail = <<>> => p = <<>>)
      /\ Arrives(sent, cs, r.got, r.plain, r.closed, p, whole)
  BY DEF Reads
<1>2. f = s[1] /\ Len(s) >= 2 /\ s \in Seq(Units)
  BY <1>1, FirstIs, StockIs
<1>3. /\ Sound(u) /\ Stock(u) = Dropped(s) /\ Others(r, u) /\ u.out = r.out
  BY <1>1, UsedIs
<1> HIDE DEF f, s, u
<1>4. Len(p) = Len(s) + Len(tail) /\ p[1] = s[1] /\ Len(s) \in Nat /\ Len(tail) \in Nat
  <2>1. /\ Len(s \o tail) = Len(s) + Len(tail) /\ Len(s) \in Nat /\ Len(tail) \in Nat
        /\ \A i \in 1..Len(s) : (s \o tail)[i] = s[i]
    BY <1>2, Joined
  <2>2. 1 \in 1..Len(s)
    BY <1>2, <2>1
  <2> QED BY <2>1, <2>2
<1>5. Dropped(p) = Stock(u) \o tail
  <2>1. 2 \in 0..Len(s)
    BY <1>2, <1>4
  <2>2. SubSeq(s \o tail, 2 + 1, Len(s \o tail)) = SubSeq(s, 2 + 1, Len(s)) \o tail
    BY <1>2, <2>1, DropOfJoined
  <2>3. 2 + 1 = 3
    OBVIOUS
  <2>4. SubSeq(s \o tail, 3, Len(s \o tail)) = SubSeq(s, 3, Len(s)) \o tail
    BY <2>2, <2>3
  <2> QED BY <1>3, <2>4, Zenon DEF Dropped
<1> HIDE DEF p
<1>6. Len(p) >= 2 /\ p[1] = f /\ p # <<>>
  BY <1>1, <1>2, <1>4
<1>7. Dropped(p) \in Seq(Units) /\ OnlyData(Dropped(p)) /\ p[1][1] \in {"data", "close"}
  BY <1>1, <1>6, DroppedIs, OnlyDataLeft
<1>8. r.got \in Seq(Nat) /\ r.plain \in Seq(Nat) /\ r.closed \in BOOLEAN
  BY <1>1 DEF Sound
<1>9. /\ p[1][1] = "data" => /\ p[1][2] \in Seq(Nat) /\ Len(p[1][2]) > 0
                             /\ Arrives(sent, cs, r.got, r.plain \o p[1][2], r.closed, Dropped(p), whole)
      /\ p[1][1] = "close" =>
           \A now \in BOOLEAN : now => Arrives(sent, cs, r.got, r.plain, now, Dropped(p), whole)
  <2> DEFINE got == r.got
             plain == r.plain
             closed == r.closed
  <2>1. /\ p \in Seq(Units) /\ Len(p) >= 2 /\ got \in Seq(Nat) /\ plain \in Seq(Nat) /\ closed \in BOOLEAN
        /\ Arrives(sent, cs, got, plain, closed, p, whole)
    BY <1>1, <1>6, <1>8
  <2> HIDE DEF got, plain, closed
  <2> DEFINE q == p
  <2>a. q \in Seq(Units) /\ Len(q) >= 2 /\ Arrives(sent, cs, got, plain, closed, q, whole)
    BY <2>1
  <2> HIDE DEF q
  <2>b. /\ ~closed
        /\ q[1][1] = "data" => /\ q[1][2] \in Seq(Nat) /\ Len(q[1][2]) > 0
                               /\ Arrives(sent, cs, got, plain \o q[1][2], closed, Dropped(q), whole)
        /\ q[1][1] = "close" =>
             \A now \in BOOLEAN : now => Arrives(sent, cs, got, plain, now, Dropped(q), whole)
        /\ q[1][1] \notin {"data", "close"} => Arrives(sent, cs, got, plain, closed, Dropped(q), whole)
    BY <2>1, <2>a, ArrivesTake
  <2>2. /\ p[1][1] = "data" => /\ p[1][2] \in Seq(Nat) /\ Len(p[1][2]) > 0
                               /\ Arrives(sent, cs, got, plain \o p[1][2], closed, Dropped(p), whole)
        /\ p[1][1] = "close" =>
             \A now \in BOOLEAN : now => Arrives(sent, cs, got, plain, now, Dropped(p), whole)
    BY <2>b DEF q
  <2> QED BY <2>2 DEF got, plain, closed
<1>10. ~Broken(r)
  BY <1>6, <1>7 DEF Broken, f
<1>11. SameBase(x, u) /\ SameTalk(x, u) /\ u.out = x.out /\ SameData(r, u)
  BY <1>1, <1>3 DEF Others, SameBase, SameTalk
<1>12. CASE f[1] = "data"
  <2> DEFINE y == [u EXCEPT !.plain = @ \o d]
  <2>1. Decrypted(r) = y
    BY <1>12 DEF Decrypted, f, u
  <2>2. d \in Seq(Nat) /\ Len(d) > 0
    BY <1>6, <1>9, <1>12
  <2> HIDE DEF d
  <2>3. u.plain \o d \in Seq(Nat) /\ Len(u.plain \o d) > 0
    <3>1. u.plain \in Seq(Nat)
      BY <1>3 DEF Sound
    <3>2. u.plain \o d \in Seq(Nat) /\ Len(u.plain \o d) = Len(u.plain) + Len(d) /\ Len(u.plain) \in Nat /\ Len(d) \in Nat
      BY <2>2, <3>1, Joined
    <3> QED BY <2>2, <3>2
  <2>4. /\ DOMAIN y = SessionFields /\ y.plain = u.plain \o d /\ y.in = u.in /\ y.out = u.out /\ y.rec = u.rec
        /\ y.got = u.got /\ y.closed = u.closed /\ SameBase(u, y) /\ SameTalk(u, y)
    BY <1>3 DEF Sound, SessionFields, SameBase, SameTalk
  <2> HIDE DEF y
  <2>5. Sound(y) /\ Stock(y) = Stock(u)
    BY <1>3, <2>3, <2>4 DEF Sound, Stock, SameBase, SameTalk
  <2>6. Arrives(sent, cs, y.got, y.plain, y.closed, Stock(y) \o tail, whole)
    BY <1>5, <1>6, <1>9, <1>11, <1>12, <2>4, <2>5 DEF SameData, d
  <2>7. Reads(x, y, sent, cs, tail, whole)
    BY <1>1, <1>5, <1>6, <1>7, <1>11, <2>4, <2>5, <2>6 DEF Reads, SameBase, SameTalk
  <2>8. y.plain # <<>>
    BY <2>3, <2>4
  <2> QED BY <1>10, <2>1, <2>7, <2>8
<1>13. CASE f[1] = "close"
  <2> DEFINE y == [u EXCEPT !.closed = TRUE]
  <2>1. Decrypted(r) = y
    BY <1>13 DEF Decrypted, f, u
  <2>4. /\ DOMAIN y = SessionFields /\ y.plain = u.plain /\ y.in = u.in /\ y.out = u.out /\ y.rec = u.rec
        /\ y.got = u.got /\ y.closed = TRUE /\ SameBase(u, y) /\ SameTalk(u, y)
    BY <1>3 DEF Sound, SessionFields, SameBase, SameTalk
  <2> HIDE DEF y
  <2>5. Sound(y) /\ Stock(y) = Stock(u)
    BY <1>3, <2>4 DEF Sound, Stock, SameBase, SameTalk
  <2>6. Arrives(sent, cs, y.got, y.plain, y.closed, Stock(y) \o tail, whole)
    BY <1>5, <1>6, <1>9, <1>11, <1>13, <2>4, <2>5 DEF SameData
  <2>7. Reads(x, y, sent, cs, tail, whole)
    BY <1>1, <1>5, <1>6, <1>7, <1>11, <2>4, <2>5, <2>6 DEF Reads, SameBase, SameTalk
  <2> QED BY <1>10, <2>1, <2>4, <2>7
<1> QED BY <1>6, <1>7, <1>12, <1>13

\* The program is given what there is, up to max.
LEMMA ReadGives ==
  ASSUME NEW x, NEW r, NEW sent \in Seq(Nat), NEW cs \in BOOLEAN, NEW tail \in Seq(Units), NEW whole \in BOOLEAN,
         Reads(x, r, sent, cs, tail, whole), NEW max \in Nat
  PROVE  Reads(x, Give(r, max), sent, cs, tail, whole)
<1> DEFINE m == IF Len(r.plain) < max THEN Len(r.plain) ELSE max
           y == Taken(r, m)
           g == r.got \o SubSeq(r.plain, 1, m)
           h == SubSeq(r.plain, m + 1, Len(r.plain))
<1>1. /\ Sound(r) /\ SameBase(x, r) /\ SameTalk(x, r) /\ r.out = x.out
      /\ Arrives(sent, cs, r.got, r.plain, r.closed, Stock(r) \o tail, whole)
  BY DEF Reads
<1>2. r.got \in Seq(Nat) /\ r.plain \in Seq(Nat) /\ r.closed \in BOOLEAN
  BY <1>1 DEF Sound
<1>3. m \in 0..Len(r.plain)
  <2> DEFINE l == Len(r.plain)
  <2>1. l \in Nat
    BY <1>2
  <2>2. m = IF l < max THEN l ELSE max
    OBVIOUS
  <2> HIDE DEF l, m
  <2>3. m \in 0..l
    BY <2>1, <2>2
  <2> QED BY <2>3 DEF l
<1>4. Give(r, max) = y
  BY DEF Give
<1> HIDE DEF m
<1>5. g \in Seq(Nat) /\ h \in Seq(Nat) /\ Arrives(sent, cs, g, h, r.closed, Stock(r) \o tail, whole)
  BY <1>1, <1>2, <1>3, ArrivesGive
<1>6. /\ DOMAIN y = SessionFields /\ y.plain = h /\ y.got = g /\ y.closed = r.closed
      /\ y.in = r.in /\ y.out = r.out /\ y.rec = r.rec /\ SameBase(r, y) /\ SameTalk(r, y)
  BY <1>1 DEF Sound, SessionFields, SameBase, SameTalk, Taken
<1> HIDE DEF y, g, h
<1>7. Sound(y) /\ Stock(y) = Stock(r)
  BY <1>1, <1>5, <1>6 DEF Sound, Stock, SameBase, SameTalk
<1>8. Reads(x, y, sent, cs, tail, whole)
  BY <1>1, <1>5, <1>6, <1>7 DEF Reads, SameBase, SameTalk
<1> QED BY <1>4, <1>8

LEMMA ReadPulls ==
  ASSUME NEW x, NEW r, NEW sent \in Seq(Nat), NEW cs \in BOOLEAN, NEW tail \in Seq(Units), NEW whole \in BOOLEAN,
         Reads(x, r, sent, cs, tail, whole)
  PROVE  /\ Reads(x, Pulled(r), sent, cs, tail, whole) /\ Settled(Pulled(r))
         /\ Pulled(r).plain = r.plain /\ Pulled(r).closed = r.closed
<1> DEFINE y == Pulled(r)
<1>1. /\ Sound(r) /\ SameBase(x, r) /\ SameTalk(x, r) /\ r.out = x.out
      /\ Arrives(sent, cs, r.got, r.plain, r.closed, Stock(r) \o tail, whole)
  BY DEF Reads
<1>2. /\ Sound(y) /\ Stock(y) = Stock(r) /\ Settled(y) /\ Others(r, y) /\ y.out = r.out
  BY <1>1, PulledIs
<1> HIDE DEF y
<1>3. y.got = r.got /\ y.plain = r.plain /\ y.closed = r.closed
  BY <1>2 DEF Others, SameData
<1>4. Reads(x, y, sent, cs, tail, whole)
  BY <1>1, <1>2, <1>3 DEF Reads, Others, SameBase, SameTalk
<1> QED BY <1>2, <1>3, <1>4 DEF y

\* What a read answers: it wants more only when nothing whole is there, and
\* reports a close only when all was given.
Answered(x, a, sent, cs, tail, whole) ==
    /\ Reads(x, a.x, sent, cs, tail, whole)
    /\ a.status \in {"count", "want", "closed"}
    /\ a.status = "closed" => a.x.closed /\ a.x.plain = <<>>
    /\ a.status = "want" => Len(Stock(a.x)) <= 1 /\ ~a.x.closed /\ a.x.plain = <<>>

LEMMA ReadReports ==
  ASSUME NEW x, NEW r, NEW sent \in Seq(Nat), NEW cs \in BOOLEAN, NEW tail \in Seq(Units), NEW whole \in BOOLEAN,
         Reads(x, r, sent, cs, tail, whole), NEW max \in Nat,
         r.plain = <<>> /\ ~r.closed => Len(Stock(r)) <= 1
  PROVE  Answered(x, Report(r, max), sent, cs, tail, whole)
<1>1. CASE r.plain # <<>>
  <2> DEFINE g == Give(r, max)
             a == Result(g, "count")
  <2>1. Report(r, max) = a
    BY <1>1 DEF Report
  <2>2. Reads(x, g, sent, cs, tail, whole)
    BY ReadGives
  <2> HIDE DEF g
  <2>3. a.x = g /\ a.status = "count"
    BY DEF Result
  <2> HIDE DEF a
  <2> QED BY <2>1, <2>2, <2>3 DEF Answered
<1>2. CASE r.plain = <<>>
  <2> DEFINE a == Result(r, IF r.closed THEN "closed" ELSE "want")
  <2>1. Report(r, max) = a
    BY <1>2 DEF Report
  <2>2. a.x = r /\ a.status = IF r.closed THEN "closed" ELSE "want"
    BY DEF Result
  <2> HIDE DEF a
  <2>3. CASE r.closed
    <3>1. a.status = "closed"
      BY <2>2, <2>3
    <3> QED BY <1>2, <2>1, <2>2, <2>3, <3>1 DEF Answered
  <2>4. CASE ~r.closed
    <3>1. a.status = "want"
      BY <2>2, <2>4
    <3> QED BY <1>2, <2>1, <2>2, <2>4, <3>1 DEF Answered
  <2> QED BY <2>3, <2>4
<1> QED BY <1>1, <1>2

LEMMA NothingWhole ==
  ASSUME NEW r, Sound(r), Settled(r), ~HasRecord(r)
  PROVE  Len(Stock(r)) <= 1
<1> DEFINE l == Len(Stock(r))
<1>1. l \in Nat
  BY StockIs
<1>2. ~(l >= 2)
  BY DEF Settled
<1> HIDE DEF l
<1>3. l <= 1
  BY <1>1, <1>2
<1> QED BY <1>3 DEF l

LEMMA StSteps ==
  ASSUME NEW x, NEW r, NEW sent \in Seq(Nat), NEW cs \in BOOLEAN, NEW tail \in Seq(Units), NEW whole \in BOOLEAN,
         Reads(x, r, sent, cs, tail, whole), Settled(r), NEW max \in Nat \ {0}
  PROVE  LET y == StStep(r, max)
         IN  /\ Reads(x, y, sent, cs, tail, whole) /\ Settled(y)
             /\ y.plain = <<>> /\ ~y.closed => ~HasRecord(y)
<1> DEFINE y == StStep(r, max)
<1>1. CASE Len(r.plain) < max /\ HasRecord(r) /\ ~Broken(r) /\ ~r.closed
  <2> DEFINE d == Decrypted(r)
  <2>1. y = Pulled(d)
    BY <1>1 DEF StStep
  <2>2. Reads(x, d, sent, cs, tail, whole) /\ (d.plain # <<>> \/ d.closed)
    BY <1>1, ReadDecrypts
  <2> HIDE DEF d
  <2> HIDE DEF y
  <2>3. /\ Reads(x, Pulled(d), sent, cs, tail, whole) /\ Settled(Pulled(d))
        /\ Pulled(d).plain = d.plain /\ Pulled(d).closed = d.closed
    BY <2>2, ReadPulls
  <2>4. /\ Reads(x, y, sent, cs, tail, whole) /\ Settled(y)
        /\ (y.plain = <<>> /\ ~y.closed => ~HasRecord(y))
    BY <2>1, <2>2, <2>3
  <2> QED BY <2>4 DEF y
<1>2. CASE ~(Len(r.plain) < max /\ HasRecord(r) /\ ~Broken(r) /\ ~r.closed)
  <2>1. y = r
    BY <1>2 DEF StStep
  <2>2. HasRecord(r) => ~Broken(r)
    BY ReadDecrypts
  <2>3. r.plain = <<>> => Len(r.plain) < max
    <3>1. Len(<<>>) = 0
      BY EmptySeq
    <3> QED BY <3>1
  <2> HIDE DEF y
  <2>4. /\ Reads(x, y, sent, cs, tail, whole) /\ Settled(y)
        /\ (y.plain = <<>> /\ ~y.closed => ~HasRecord(y))
    BY <1>2, <2>1, <2>2, <2>3
  <2> QED BY <2>4 DEF y
<1> QED BY <1>1, <1>2

\* One read, on any of the backends.
LEMMA ReadIs ==
  ASSUME NEW x, Sound(x), NEW sent \in Seq(Nat), NEW cs \in BOOLEAN, NEW tail \in Seq(Units), NEW whole \in BOOLEAN,
         OnlyData(Stock(x) \o tail), NEW max \in Nat \ {0},
         Arrives(sent, cs, x.got, x.plain, x.closed, Stock(x) \o tail, whole)
  PROVE  Answered(x, ReadCall(Pulled(x), max), sent, cs, tail, whole)
<1> DEFINE r == Pulled(x)
           d == Decrypted(r)
<1>1. Reads(x, r, sent, cs, tail, whole) /\ Settled(r)
  BY ReadBegins
<1> HIDE DEF r
<1>2. Sound(r)
  BY <1>1 DEF Reads
<1>3. ~HasRecord(r) => Len(Stock(r)) <= 1
  BY <1>1, <1>2, NothingWhole
<1>4. HasRecord(r) => ~Broken(r) /\ Reads(x, d, sent, cs, tail, whole) /\ (d.plain # <<>> \/ d.closed)
  BY <1>1, ReadDecrypts
<1> HIDE DEF d
<1>5. max \in Nat
  OBVIOUS
<1>6. HasRecord(r) => Answered(x, Report(d, max), sent, cs, tail, whole)
  BY <1>4, <1>5, ReadReports
<1>7. (r.plain = <<>> /\ ~r.closed => ~HasRecord(r)) => Answered(x, Report(r, max), sent, cs, tail, whole)
  BY <1>1, <1>3, <1>5, ReadReports
<1>8. CASE r.be = "schannel"
  <2>1. ReadCall(r, max) = SchannelRead(r, max)
    BY <1>8 DEF ReadCall
  <2>2. CASE r.plain # <<>> \/ ~HasRecord(r)
    <3>1. SchannelRead(r, max) = Report(r, max)
      BY <2>2 DEF SchannelRead, Broken
    <3> QED BY <1>7, <2>1, <2>2, <3>1 DEF r
  <2>3. CASE ~(r.plain # <<>> \/ ~HasRecord(r))
    <3>1. SchannelRead(r, max) = Report(d, max)
      BY <1>4, <2>3 DEF SchannelRead, d
    <3> QED BY <1>6, <2>1, <2>3, <3>1 DEF r
  <2> QED BY <2>2, <2>3
<1>9. CASE r.be = "openssl"
  <2>1. ReadCall(r, max) = OsslRead(r, max)
    BY <1>9 DEF ReadCall
  <2>2. CASE r.plain # <<>> \/ r.closed \/ ~HasRecord(r)
    <3>1. OsslRead(r, max) = Report(r, max)
      BY <2>2 DEF OsslRead, Broken
    <3> QED BY <1>7, <2>1, <2>2, <3>1 DEF r
  <2>3. CASE ~(r.plain # <<>> \/ r.closed \/ ~HasRecord(r))
    <3>1. OsslRead(r, max) = Report(d, max)
      BY <1>4, <2>3 DEF OsslRead, d
    <3> QED BY <1>6, <2>1, <2>3, <3>1 DEF r
  <2> QED BY <2>2, <2>3
<1>10. CASE r.be \notin {"schannel", "openssl"}
  <2> DEFINE s == StStep(r, max)
             t == StStep(s, max)
  <2>1. ReadCall(r, max) = StReport(t, max)
    BY <1>10 DEF ReadCall, StRead
  <2>2. Reads(x, s, sent, cs, tail, whole) /\ Settled(s)
    BY <1>1, StSteps
  <2> HIDE DEF s
  <2>3. /\ Reads(x, t, sent, cs, tail, whole) /\ Settled(t)
        /\ t.plain = <<>> /\ ~t.closed => ~HasRecord(t)
    BY <2>2, StSteps
  <2> HIDE DEF t
  <2>4. Sound(t)
    BY <2>3 DEF Reads
  <2>5. t.plain = <<>> /\ ~t.closed => Len(Stock(t)) <= 1
    BY <2>3, <2>4, NothingWhole
  <2>6. Answered(x, Report(t, max), sent, cs, tail, whole)
    BY <1>5, <2>3, <2>5, ReadReports
  <2>7. StReport(t, max) = Report(t, max)
    BY <2>3 DEF StReport, Broken
  <2> QED BY <2>1, <2>6, <2>7 DEF r
<1> QED BY <1>8, <1>9, <1>10

\* One write: the bytes it takes are the next ones, in one record.
LEMMA WriteIs ==
  ASSUME MessagesHold, NEW x, Sound(x), Content(x.out) = <<>>, NEW n \in {1, 2},
         \A i \in 1..Len(x.sent) : x.sent[i] = i
  PROVE  LET y == WriteCall(x, n)
         IN  /\ Sound(y) /\ Stock(y) = Stock(x) /\ SameTalk(x, y) /\ SameData(x, y)
             /\ y.be = x.be /\ y.hello = x.hello /\ y.close_sent = x.close_sent /\ y.call = x.call
             /\ y.ended = x.ended /\ y.socket = x.socket
             /\ \A i \in 1..Len(y.sent) : y.sent[i] = i
             /\ \E b \in Seq(Nat) : /\ Content(y.out) = Record("data", b) /\ Len(b) > 0
                                    /\ Len(y.sent) = Len(x.sent) + Len(b)
                                    /\ \A i \in 1..Len(b) : b[i] = Len(x.sent) + i
<1> DEFINE a == Accepted(x, n)
           l == Len(x.sent)
           b == [i \in 1..a |-> l + i]
           m == Emit(x, "data", b)
           y == Written(x, b)
<1>1. a \in Nat /\ a > 0
  BY DEF Accepted, MessagesHold
<1>2. x.sent \in Seq(Nat) /\ l \in Nat
  BY DEF Sound
<1>3. WriteCall(x, n) = y
  BY DEF WriteCall
<1> HIDE DEF a
<1>4. b \in Seq(Nat) /\ Len(b) = a /\ \A i \in 1..a : b[i] = l + i
  <2> HIDE DEF l
  <2>1. \A i \in 1..a : l + i \in Nat
    BY <1>1, <1>2
  <2>2. b \in [1..a -> Nat]
    BY <2>1
  <2> QED BY <1>1, <2>2
<1> HIDE DEF b
<1>5. b \in Payloads
  BY <1>4 DEF Payloads
<1>6. Sound(m) /\ Content(m.out) = Record("data", b) /\ Others(x, m) /\ Stock(m) = Stock(x)
  BY <1>5, EmitIs
<1> HIDE DEF m
<1>7. y = [m EXCEPT !.sent = @ \o b]
  BY DEF Written, m
<1> HIDE DEF y
<1>8. /\ DOMAIN y = SessionFields /\ y.sent = m.sent \o b /\ y.in = m.in /\ y.out = m.out /\ y.rec = m.rec
      /\ SameTalk(m, y) /\ SameData(m, y)
      /\ y.be = m.be /\ y.hello = m.hello /\ y.close_sent = m.close_sent /\ y.call = m.call
      /\ y.ended = m.ended /\ y.socket = m.socket
  BY <1>6, <1>7 DEF Sound, SessionFields, SameTalk, SameData
<1>9. m.sent = x.sent
  BY <1>6 DEF Others, SameBase
<1>10. /\ y.sent \in Seq(Nat) /\ Len(y.sent) = l + a
       /\ \A i \in 1..l : y.sent[i] = x.sent[i]
       /\ \A i \in 1..a : y.sent[l + i] = b[i]
  <2>1. /\ x.sent \o b \in Seq(Nat) /\ Len(x.sent \o b) = Len(x.sent) + Len(b)
        /\ \A i \in 1..Len(x.sent) : (x.sent \o b)[i] = x.sent[i]
        /\ \A i \in 1..Len(b) : (x.sent \o b)[Len(x.sent) + i] = b[i]
    BY <1>2, <1>4, Joined
  <2> QED BY <1>4, <1>8, <1>9, <2>1
<1>11. Sound(y) /\ Stock(y) = Stock(m)
  BY <1>6, <1>8, <1>10 DEF Sound, Stock, SameTalk, SameData
<1>12. \A i \in 1..l : x.sent[i] = i
  OBVIOUS
<1> HIDE DEF l
<1>13. ASSUME NEW i \in 1..Len(y.sent) PROVE y.sent[i] = i
  <2>1. CASE i <= l
    <3>1. i \in 1..l
      BY <1>2, <1>10, <2>1
    <3> QED BY <1>10, <1>12, <3>1
  <2>2. CASE ~(i <= l)
    <3> DEFINE j == i - l
    <3>1. j \in 1..a /\ i = l + j
      BY <1>1, <1>2, <1>10, <2>2
    <3> HIDE DEF j
    <3> QED BY <1>4, <1>10, <3>1
  <2> QED BY <2>1, <2>2
<1>14. SameTalk(x, y) /\ SameData(x, y) /\ y.be = x.be /\ y.hello = x.hello /\ y.close_sent = x.close_sent
       /\ y.call = x.call /\ y.ended = x.ended /\ y.socket = x.socket
  BY <1>6, <1>8 DEF Others, SameBase, SameTalk, SameData
<1>15. /\ Content(y.out) = Record("data", b) /\ Len(b) > 0
       /\ Len(y.sent) = l + Len(b)
       /\ \A i \in 1..Len(b) : b[i] = l + i
  BY <1>1, <1>4, <1>6, <1>8, <1>10
<1>16. \E b_1 \in Seq(Nat) : /\ Content(y.out) = Record("data", b_1) /\ Len(b_1) > 0
                             /\ Len(y.sent) = Len(x.sent) + Len(b_1)
                             /\ \A i \in 1..Len(b_1) : b_1[i] = Len(x.sent) + i
  BY <1>4, <1>15 DEF l
<1> QED BY <1>3, <1>6, <1>11, <1>13, <1>14, <1>16

\* What a session that stores x has put on the stream since it was `old'.
Puts(old, x) ==
    \/ Content(x.out) = <<>> /\ x.sent = old.sent /\ x.close_sent = old.close_sent
    \/ /\ ~old.close_sent /\ Adds(old.sent, x.sent, x.close_sent, Content(x.out))
       /\ \E k \in {"hello", "flight", "finish", "alert", "data", "close"} : \E v \in Payloads :
            Content(x.out) = Record(k, v)

LEMMA PipeIs ==
  ASSUME SessionTypeOK, NEW e \in Sides
  PROVE  /\ Pipe(e) \in Seq(Units) /\ Stock(session[e]) \in Seq(Units) /\ wire[e] \in Seq(Units)
         /\ Sound(session[e]) /\ Content(session[e].out) = <<>>
<1>1. IsSession(session[e]) /\ wire[e] \in Seq(Units)
  BY DEF SessionTypeOK
<1>2. Stock(session[e]) \in Seq(Units)
  BY <1>1, StockIs DEF IsSession
<1>3. Stock(session[e]) \o wire[e] \in Seq(Units)
  BY <1>1, <1>2, Joined
<1> QED BY <1>1, <1>2, <1>3 DEF Pipe, IsSession

\* The writer's side of Arrives, for whatever a call has put on the stream.
LEMMA ArrivesPuts ==
  ASSUME NEW old, NEW x, Sound(old), Sound(x), Puts(old, x), NEW w, Sound(w),
         NEW p \in Seq(Units), NEW whole, whole \in BOOLEAN,
         Arrives(old.sent, old.close_sent, w.got, w.plain, w.closed, p, whole)
  PROVE  Arrives(x.sent, x.close_sent, w.got, w.plain, w.closed,
                 IF whole THEN p \o Content(x.out) ELSE p, whole)
<1> DEFINE s == old.sent
           s2 == x.sent
           cs == old.close_sent
           cs2 == x.close_sent
           g == w.got
           l == w.plain
           c == w.closed
           o == Content(x.out)
<1>1. s \in Seq(Nat) /\ s2 \in Seq(Nat) /\ cs \in BOOLEAN /\ cs2 \in BOOLEAN /\ g \in Seq(Nat) /\ l \in Seq(Nat) /\ c \in BOOLEAN
  BY DEF Sound
<1>2. o \in Seq(Units)
  BY ContentIs DEF Sound
<1>3. CASE o = <<>> /\ s2 = s /\ cs2 = cs
  <2>1. p \o <<>> = p
    BY ConcatEmptySeq
  <2> QED BY <1>3, <2>1
<1>4. CASE ~(o = <<>> /\ s2 = s /\ cs2 = cs)
  <2>1. /\ ~cs /\ Adds(s, s2, cs2, o)
        /\ \E k \in {"hello", "flight", "finish", "alert", "data", "close"} : \E v \in Payloads :
            o = Record(k, v)
    BY <1>4 DEF Puts
  <2>2. PICK k \in {"hello", "flight", "finish", "alert", "data", "close"}, v \in Payloads : o = Record(k, v)
    BY <2>1
  <2>3. Len(o) = 2
    BY <2>2, RecordIs
  <2>4. Arrives(s, cs, g, l, c, p, whole)
    OBVIOUS
  <2>5. ~cs /\ Adds(s, s2, cs2, o)
    BY <2>1
  <2> HIDE DEF s, s2, cs, cs2, g, l, c, o
  <2>6. CASE whole
    <3>1. Len(o) = 2 => Arrives(s2, cs2, g, l, c, p \o o, whole)
      BY <1>1, <1>2, <2>4, <2>5, <2>6, ArrivesPut
    <3> QED BY <2>3, <2>6, <3>1 DEF s, s2, cs, cs2, g, l, c, o
  <2>7. CASE ~whole
    <3>1. Len(s) <= Len(s2)
      <4>1. Len(s) \in Nat /\ Len(s2) \in Nat
        BY <1>1
      <4>2. o[1][1] = "data" => Len(o[1][2]) \in Nat /\ Len(s2) = Len(s) + Len(o[1][2])
        BY <2>5 DEF Adds
      <4>3. o[1][1] # "data" => s2 = s
        BY <2>5 DEF Adds
      <4> QED BY <4>1, <4>2, <4>3
    <3>2. \A i \in 1..Len(s2) : s2[i] = i
      BY <2>5 DEF Adds
    <3>3. Arrives(s2, cs2, g, l, c, p, whole)
      BY <1>1, <2>4, <2>5, <2>7, <3>1, <3>2, ArrivesLost
    <3> QED BY <2>7, <3>3 DEF s, s2, cs, cs2, g, l, c, o
  <2> QED BY <2>6, <2>7
<1> QED BY <1>3, <1>4

\* What a call leaves to DataInv: what it read, and what it put on the stream.
LEMMA DataStored ==
  ASSUME SessionTypeOK, DataInv, NEW e \in Sides, NEW x, NEW flush \in BOOLEAN, Sound(x),
         x.be = session[e].be, x.hello = session[e].hello,
         ~flush => Content(x.out) = <<>>, SendStored(e, x, flush), cut' = cut, Puts(session[e], x),
         Arrives(session[Peer(e)].sent, session[Peer(e)].close_sent, x.got, x.plain, x.closed,
                 Stock(x) \o wire[e], ~cut)
  PROVE  DataInv'
<1> DEFINE o == Peer(e)
           y == session'[e]
           old == session[e]
           w == session[o]
           whole == ~cut
<1>1. /\ o \in Sides /\ o # e /\ Peer(o) = e /\ session'[o] = w /\ Others(x, y)
      /\ Pipe(e)' = Stock(x) \o wire[e]
      /\ Pipe(o)' = IF cut THEN Pipe(o) ELSE Pipe(o) \o Content(x.out)
  BY SendStoredIs
<1>2. /\ y.got = x.got /\ y.plain = x.plain /\ y.closed = x.closed /\ y.sent = x.sent /\ y.close_sent = x.close_sent
  BY <1>1 DEF Others, SameBase, SameData
<1>3. Sound(old) /\ Sound(w) /\ Pipe(o) \in Seq(Units) /\ whole \in BOOLEAN
  BY <1>1, PipeIs
<1>4. Arrives(old.sent, old.close_sent, w.got, w.plain, w.closed, Pipe(o), whole)
  BY <1>1 DEF DataInv
<1>5. Arrives(w.sent, w.close_sent, y.got, y.plain, y.closed, Pipe(e)', whole')
  BY <1>1, <1>2
<1>6. Arrives(y.sent, y.close_sent, w.got, w.plain, w.closed, Pipe(o)', whole')
  <2>1. Pipe(o)' = IF whole THEN Pipe(o) \o Content(x.out) ELSE Pipe(o)
    BY <1>1
  <2>2. whole' = whole /\ Puts(old, x)
    OBVIOUS
  <2> HIDE DEF old, w, whole, o, y
  <2>3. Arrives(x.sent, x.close_sent, w.got, w.plain, w.closed,
                 IF whole THEN Pipe(o) \o Content(x.out) ELSE Pipe(o), whole)
    BY <1>3, <1>4, <2>2, ArrivesPuts
  <2> QED BY <1>2, <2>1, <2>2, <2>3
<1>7. ASSUME NEW d \in Sides
      PROVE  Arrives(session'[Peer(d)].sent, session'[Peer(d)].close_sent, session'[d].got, session'[d].plain,
                     session'[d].closed, Pipe(d)', ~cut')
  <2>1. d = e \/ d = o
    BY DEF Sides, Peer
  <2>2. CASE d = e
    BY <1>1, <1>5, <2>2
  <2>3. CASE d = o
    <3>1. Peer(d) = e /\ session'[d] = w
      BY <1>1, <2>3
    <3> QED BY <1>6, <2>3, <3>1
  <2> QED BY <2>1, <2>2, <2>3
<1> QED BY <1>7 DEF DataInv

LEMMA TypeStored ==
  ASSUME SessionTypeOK, NEW e \in Sides, NEW x, NEW flush \in BOOLEAN, Sound(x),
         x.be = session[e].be, x.hello = session[e].hello,
         ~flush => Content(x.out) = <<>>, SendStored(e, x, flush), UNCHANGED <<trust, cut>>,
         fin' \in [Sides -> BOOLEAN]
  PROVE  SessionTypeOK'
<1> DEFINE o == Peer(e)
           y == session'[e]
<1>1. /\ o \in Sides /\ o # e /\ DOMAIN session' = Sides /\ session'[o] = session[o] /\ IsSession(y)
      /\ Others(x, y) /\ wire' \in [Sides -> Seq(Units)]
  BY SendStoredIs
<1>2. y.be = session[e].be /\ y.hello = session[e].hello
  BY <1>1 DEF Others, SameBase
<1>3. \A d \in Sides : d = e \/ d = o
  BY DEF Sides, Peer
<1>4. \A d \in Sides : session'[d].be = session[d].be /\ session'[d].hello = session[d].hello /\ IsSession(session'[d])
  BY <1>1, <1>2, <1>3 DEF SessionTypeOK
<1>5. "client" \in Sides
  BY DEF Sides
<1> QED BY <1>1, <1>4, <1>5 DEF SessionTypeOK

-----------------------------------------------------------------------------
\* The handshake.  c and v are the client and the server before a step, c2 and v2
\* after it; p and q what is on its way to the server and to the client.
LEMMA KindIsFirst ==
  ASSUME NEW p
  PROVE  Kind(p, 1) = p[1][1]
<1>1. 2 * 1 - 1 = 1
  OBVIOUS
<1> QED BY <1>1 DEF Kind

LEMMA OnlyOne ==
  ASSUME NEW U, NEW p \in Seq(U), Len(p) <= 2
  PROVE  \A j \in Whole(p) : j = 1
<1> DEFINE l == Len(p)
<1>1. l \in Nat /\ l <= 2
  OBVIOUS
<1> HIDE DEF l
<1>2. ASSUME NEW j \in 1..l, 2 * j <= l + 1 PROVE j = 1
  BY <1>1, <1>2
<1> QED BY <1>2 DEF Whole, l

LEMMA NoneLeft ==
  ASSUME NEW U, NEW p \in Seq(U)
  PROVE  Len(p) = 2 => Dropped(p) = <<>>
<1>1. SubSeq(p, 3, 2) = <<>>
  BY SubSeqEmpty
<1> QED BY <1>1 DEF Dropped

LEMMA NoKinds == OnlyData(<<>>) /\ Whole(<<>>) = {} /\ Len(<<>>) = 0
  BY DEF OnlyData, Whole

LEMMA Two == \A l : l = 2 => l <= 2 /\ l >= 2
  OBVIOUS

LEMMA PhaseFirst ==
  ASSUME NEW c, NEW v, NEW p, NEW q, NEW whole, NEW ok, Phases(c, v, p, q, whole, ok), c.phase = "start"
  PROVE  p = <<>> /\ q = <<>>
BY DEF Phases

LEMMA PhaseHello ==
  ASSUME NEW c, NEW v, NEW c2, NEW p, NEW q, NEW whole, NEW ok, whole \in BOOLEAN, ok \in BOOLEAN,
         NEW r \in Seq(Units), r[1][1] = "hello", r[1][2] = c.hello,
         Phases(c, v, p, q, whole, ok), c.phase = "start",
         c2.phase = "sent", c2.done = FALSE, c2.hello = c.hello, NEW p2, p2 = IF whole THEN r ELSE <<>>
  PROVE  Len(r) = 2 => Phases(c2, v, p2, q, whole, ok)
<1>1. v.phase = "start" /\ p = <<>> /\ q = <<>> /\ ~v.done
  BY DEF Phases
<1>2. ASSUME Len(r) = 2
      PROVE  /\ Len(p2) <= 2 /\ (p2 # <<>> => p2 = r)
             /\ whole => Len(p2) = 2
  <2>1. CASE whole
    <3>1. p2 = r
      BY <2>1
    <3> QED BY <1>2, <2>1, <3>1, Two, Zenon
  <2>2. CASE ~whole
    <3>1. p2 = <<>>
      BY <2>2
    <3> QED BY <2>2, <3>1, NoKinds
  <2> QED BY <2>1, <2>2
<1>3. ASSUME Len(r) = 2 PROVE Phases(c2, v, p2, q, whole, ok)
  BY <1>1, <1>2, <1>3 DEF Phases
<1> QED BY <1>3

LEMMA PhaseFlight ==
  ASSUME NEW c, NEW v, NEW p, NEW q \in Seq(Units), NEW whole, NEW ok, whole \in BOOLEAN, ok \in BOOLEAN,
         Phases(c, v, p, q, whole, ok), c.phase = "sent", Len(q) >= 2
  PROVE  v.phase = "sent" /\ p = <<>> /\ Dropped(q) = <<>> /\ q[1][1] = "flight" /\ q[1][2] = v.chosen
<1>1. q # <<>>
  BY EmptySeq
<1>2. v.phase = "sent"
  BY <1>1 DEF Phases
<1>3. p = <<>> /\ Len(q) <= 2 /\ q[1][1] = "flight" /\ q[1][2] = v.chosen
  BY <1>1, <1>2 DEF Phases
<1> DEFINE l == Len(q)
<1>4. l \in Nat /\ l >= 2 /\ l <= 2
  BY <1>3
<1> HIDE DEF l
<1>5. l = 2
  BY <1>4
<1> QED BY <1>2, <1>3, <1>5, NoneLeft DEF l

LEMMA PhaseAnswered ==
  ASSUME NEW c, NEW v, NEW c2, NEW p, NEW q, NEW whole, NEW ok, whole \in BOOLEAN, ok \in BOOLEAN,
         NEW r \in Seq(Units), Phases(c, v, p, q, whole, ok), c.phase = "sent", v.phase = "sent",
         c2.hello = c.hello, c2.chosen = v.chosen, c2.done = ok, c2.phase \in {"auth", "done"},
         ok => c2.phase = "done",
         c2.phase = "done" => Len(r) = 2 /\ r[1][1] = "finish",
         c2.phase = "auth" => r = <<>> \/ (Len(r) = 2 /\ r[1][1] = "alert"),
         NEW p2, p2 = IF whole THEN r ELSE <<>>
  PROVE  Phases(c2, v, p2, <<>>, whole, ok)
<1>1. ~v.done
  BY DEF Phases
<1>2. /\ p2 \in Seq(Units) /\ Len(p2) <= 2 /\ (p2 # <<>> => p2 = r)
      /\ c2.phase = "done" /\ whole => Len(p2) >= 2
  <2>1. CASE whole /\ r # <<>>
    <3>1. Len(r) = 2 /\ p2 = r
      BY <2>1
    <3>2. p2 \in Seq(Units)
      BY <3>1
    <3> QED BY <3>1, <3>2, Two, Zenon
  <2>2. CASE ~whole \/ r = <<>>
    <3>1. p2 = <<>>
      BY <2>2
    <3>2. <<>> \in Seq(Units)
      BY EmptySeq
    <3>3. ~(c2.phase = "done" /\ whole)
      BY <2>2, NoKinds
    <3> QED BY <3>1, <3>2, <3>3, NoKinds
  <2> QED BY <2>1, <2>2
<1>3. \A j \in Whole(p2) : j = 1
  BY <1>2, OnlyOne
<1>4. p2 # <<>> => Kind(p2, 1) = IF c2.phase = "done" THEN "finish" ELSE "alert"
  BY <1>2, KindIsFirst
<1>5. \A j \in Whole(p2) : j > 1 => Kind(p2, j) \in {"data", "close"}
  BY <1>3
<1> QED BY <1>1, <1>2, <1>4, <1>5 DEF Phases

LEMMA PhaseServed ==
  ASSUME NEW c, NEW v, NEW p \in Seq(Units), NEW q, NEW whole, NEW ok, whole \in BOOLEAN, ok \in BOOLEAN,
         Phases(c, v, p, q, whole, ok), v.phase = "start", Len(p) >= 2
  PROVE  /\ c.phase = "sent" /\ q = <<>> /\ Dropped(p) = <<>> /\ p[1][1] = "hello" /\ p[1][2] = c.hello
<1>1. p # <<>>
  BY EmptySeq
<1>2. c.phase = "sent" /\ q = <<>> /\ Len(p) <= 2 /\ p[1][1] = "hello" /\ p[1][2] = c.hello
  BY <1>1 DEF Phases
<1> DEFINE l == Len(p)
<1>3. l \in Nat /\ l >= 2 /\ l <= 2
  BY <1>2
<1> HIDE DEF l
<1>4. l = 2
  BY <1>3
<1> QED BY <1>2, <1>4, NoneLeft DEF l

LEMMA PhaseOffered ==
  ASSUME NEW c, NEW v, NEW v2, NEW p, NEW q, NEW whole, NEW ok, whole \in BOOLEAN, ok \in BOOLEAN,
         NEW r \in Seq(Units), Phases(c, v, p, q, whole, ok), v.phase = "start", c.phase = "sent",
         v2.phase = "sent", v2.done = FALSE, r[1][1] = "flight", r[1][2] = v2.chosen,
         NEW q2, q2 = IF whole THEN r ELSE <<>>
  PROVE  Len(r) = 2 => Phases(c, v2, <<>>, q2, whole, ok)
<1>1. ASSUME Len(r) = 2
      PROVE  /\ Len(q2) <= 2 /\ (q2 # <<>> => q2 = r)
             /\ whole => Len(q2) = 2
  <2>1. CASE whole
    <3>1. q2 = r
      BY <2>1
    <3> QED BY <1>1, <2>1, <3>1, Two, Zenon
  <2>2. CASE ~whole
    <3>1. q2 = <<>>
      BY <2>2
    <3> QED BY <2>2, <3>1, NoKinds
  <2> QED BY <2>1, <2>2
<1>2. ASSUME Len(r) = 2 PROVE Phases(c, v2, <<>>, q2, whole, ok)
  BY <1>1, <1>2 DEF Phases
<1> QED BY <1>2

\* The server reads what answers its flight.
LEMMA PhaseAnswer ==
  ASSUME NEW c, NEW v, NEW p \in Seq(Units), NEW q, NEW whole, NEW ok, whole \in BOOLEAN, ok \in BOOLEAN,
         Phases(c, v, p, q, whole, ok), v.phase = "sent", Len(p) >= 2,
         c.phase \in {"start", "sent", "auth", "done"}
  PROVE  /\ q = <<>> /\ c.chosen = v.chosen /\ p[1][1] \in {"finish", "alert"}
         /\ p[1][1] = "finish" => c.phase = "done" /\ OnlyData(Dropped(p))
         /\ p[1][1] = "alert" => c.phase = "auth" /\ Dropped(p) = <<>>
<1>1. p # <<>>
  BY EmptySeq
<1>2. c.phase # "sent" /\ c.phase # "start"
  BY <1>1 DEF Phases
<1>3. c.phase \in {"auth", "done"}
  BY <1>2 DEF Phases
<1>4. /\ q = <<>> /\ c.chosen = v.chosen
      /\ p[1][1] = IF c.phase = "done" THEN "finish" ELSE "alert"
      /\ \A j \in Whole(p) : j > 1 => Kind(p, j) \in {"data", "close"}
      /\ c.phase = "auth" => Len(p) <= 2
  BY <1>1, <1>3, KindIsFirst DEF Phases
<1>5. \A j \in Whole(Dropped(p)) : j + 1 \in Whole(p) /\ Kind(Dropped(p), j) = Kind(p, j + 1)
  BY KindDrop
<1>6. OnlyData(Dropped(p))
  <2>1. \A j \in Whole(Dropped(p)) : j + 1 > 1
    BY DEF Whole
  <2> QED BY <1>4, <1>5, <2>1 DEF OnlyData
<1>7. c.phase = "auth" => Dropped(p) = <<>>
  <2> DEFINE l == Len(p)
  <2>1. l \in Nat /\ l >= 2 /\ (c.phase = "auth" => l <= 2)
    BY <1>4
  <2> HIDE DEF l
  <2>2. c.phase = "auth" => l = 2
    BY <2>1
  <2> QED BY <2>2, NoneLeft DEF l
<1> QED BY <1>3, <1>4, <1>6, <1>7

\* The server is done; or it gives up.
LEMMA PhaseFinished ==
  ASSUME NEW c, NEW v, NEW v2, NEW p, NEW p2, NEW whole, NEW ok,
         Phases(c, v, p, <<>>, whole, ok), v.phase = "sent", c.chosen = v.chosen, c.phase = "done",
         v2.phase = "done", v2.done = TRUE, v2.chosen = v.chosen, OnlyData(p2)
  PROVE  Phases(c, v2, p2, <<>>, whole, ok)
BY NoKinds DEF Phases

LEMMA PhaseRefused ==
  ASSUME NEW c, NEW v, NEW v2, NEW p, NEW whole, NEW ok,
         Phases(c, v, p, <<>>, whole, ok), v.phase = "sent", c.chosen = v.chosen, c.phase = "auth",
         v2.phase = "sent", v2.done = FALSE, v2.chosen = v.chosen
  PROVE  Phases(c, v2, <<>>, <<>>, whole, ok)
<1>1. Kind(<<>>, 1) = <<>>[1][1]
  BY KindIsFirst
<1> QED BY NoKinds DEF Phases

\* Nothing was said.
LEMMA PhaseKept ==
  ASSUME NEW c, NEW v, NEW c2, NEW v2, NEW p, NEW q, NEW whole, NEW ok,
         Phases(c, v, p, q, whole, ok), c2.hello = c.hello,
         c2.phase = c.phase, c2.done = c.done, c2.chosen = c.chosen,
         v2.phase = v.phase, v2.done = v.done, v2.chosen = v.chosen
  PROVE  Phases(c2, v2, p, q, whole, ok)
BY DEF Phases

\* Reads, writes and closes only move data; a cut only loses some of it.
LEMMA OnlyDataPut ==
  ASSUME NEW p \in Seq(Units), NEW r \in Seq(Units), NEW k \in Nat, Len(p) = 2 * k
  PROVE  Len(r) = 2 =>
           /\ OnlyData(p) /\ r[1][1] \in {"data", "close"} => OnlyData(p \o r)
           /\ (\A j \in Whole(p) : j > 1 => Kind(p, j) \in {"data", "close"}) /\ r[1][1] \in {"data", "close"}
                => \A j \in Whole(p \o r) : j > 1 => Kind(p \o r, j) \in {"data", "close"}
<1>1. Len(r) = 2 => /\ \A j \in Whole(p \o r) : \/ j \in Whole(p) /\ Kind(p \o r, j) = Kind(p, j)
                                                \/ j = k + 1
                    /\ Kind(p \o r, k + 1) = r[1][1]
  BY KindPut
<1> DEFINE w == p \o r
<1> HIDE DEF w
<1>2. Len(r) = 2 => /\ \A j \in Whole(w) : \/ j \in Whole(p) /\ Kind(w, j) = Kind(p, j)
                                           \/ j = k + 1
                    /\ Kind(w, k + 1) = r[1][1]
  BY <1>1 DEF w
<1>3. Len(r) = 2 /\ OnlyData(p) /\ r[1][1] \in {"data", "close"} => OnlyData(w)
  BY <1>2 DEF OnlyData
<1>4. Len(r) = 2 /\ (\A j \in Whole(p) : j > 1 => Kind(p, j) \in {"data", "close"}) /\ r[1][1] \in {"data", "close"}
        => \A j \in Whole(w) : j > 1 => Kind(w, j) \in {"data", "close"}
  BY <1>2
<1> QED BY <1>3, <1>4 DEF w

LEMMA PhaseClientReads ==
  ASSUME NEW c, NEW v, NEW c2, NEW p, NEW q, NEW q2, NEW whole, NEW ok, Phases(c, v, p, q, whole, ok), c.done
  PROVE  /\ OnlyData(q)
         /\ /\ c2.hello = c.hello /\ c2.phase = c.phase /\ c2.done = c.done /\ c2.chosen = c.chosen
            /\ OnlyData(q2) /\ (q = <<>> => q2 = <<>>)
            => Phases(c2, v, p, q2, whole, ok)
<1>1. c.phase = "done" /\ v.phase \in {"sent", "done"}
  BY DEF Phases
<1>2. OnlyData(q)
  BY <1>1, NoKinds DEF Phases
<1> QED BY <1>1, <1>2 DEF Phases

LEMMA PhaseServerReads ==
  ASSUME NEW c, NEW v, NEW v2, NEW p, NEW q, NEW p2, NEW whole, NEW ok, Phases(c, v, p, q, whole, ok), v.done
  PROVE  /\ OnlyData(p)
         /\ /\ v2.phase = v.phase /\ v2.done = v.done /\ v2.chosen = v.chosen /\ OnlyData(p2)
            => Phases(c, v2, p2, q, whole, ok)
<1>1. v.phase = "done"
  BY DEF Phases
<1> QED BY <1>1 DEF Phases

\* A stream of whole records; a record of data or a close_notify, or nothing.
Even(p) == \E k \in Nat : Len(p) = 2 * k
Onto(p, r, to, whole) == to = IF whole THEN p \o r ELSE p
Piece(r) == r = <<>> \/ (Len(r) = 2 /\ r[1][1] \in {"data", "close"})

LEMMA PhaseClientWrites ==
  ASSUME NEW c, NEW v, NEW c2, NEW p \in Seq(Units), NEW q, NEW r \in Seq(Units), NEW whole, NEW ok,
         whole \in BOOLEAN, Phases(c, v, p, q, whole, ok), c.done,
         whole => Even(p), Piece(r), NEW to, Onto(p, r, to, whole),
         c2.hello = c.hello, SameTalk(c, c2)
  PROVE  Phases(c2, v, to, q, whole, ok)
<1> DEFINE p2 == p \o r
<1>1. c.phase = "done" /\ v.phase \in {"sent", "done"}
  BY DEF Phases
<1>2. CASE ~whole \/ r = <<>>
  <2>1. p \o <<>> = p
    BY ConcatEmptySeq
  <2>2. to = p
    BY <1>2, <2>1 DEF Onto
  <2>3. Phases(c2, v, p, q, whole, ok)
    BY PhaseKept DEF SameTalk
  <2> QED BY <2>2, <2>3
<1>3. CASE whole /\ r # <<>>
  <2>1. PICK k \in Nat : Len(p) = 2 * k
    BY <1>3 DEF Even
  <2>2. Len(r) = 2 /\ r[1][1] \in {"data", "close"}
    BY <1>3 DEF Piece
  <2>3. /\ OnlyData(p) => OnlyData(p2)
        /\ (\A j \in Whole(p) : j > 1 => Kind(p, j) \in {"data", "close"})
              => \A j \in Whole(p2) : j > 1 => Kind(p2, j) \in {"data", "close"}
    BY <2>1, <2>2, OnlyDataPut
  <2>4. /\ Len(p2) = Len(p) + Len(r) /\ Len(p) \in Nat /\ Len(r) \in Nat
        /\ \A i \in 1..Len(p) : p2[i] = p[i]
    BY Joined
  <2> HIDE DEF p2
  <2>5. v.phase = "sent" => /\ q = <<>> /\ c.chosen = v.chosen /\ Len(p) >= 2 /\ p # <<>> /\ Kind(p, 1) = "finish"
                            /\ \A j \in Whole(p) : j > 1 => Kind(p, j) \in {"data", "close"}
    <3>1. v.phase = "sent" => Len(p) >= 2
      BY <1>1, <1>3 DEF Phases
    <3>2. Len(p) >= 2 => p # <<>>
      BY NoKinds
    <3> QED BY <1>1, <3>1, <3>2 DEF Phases
  <2>6. v.phase = "sent" => Len(p2) >= 2 /\ Kind(p2, 1) = "finish"
    <3>1. Len(p) >= 2 => 1 \in 1..Len(p)
      BY <2>4
    <3>2. Kind(p, 1) = p[1][1] /\ Kind(p2, 1) = p2[1][1]
      BY KindIsFirst
    <3> DEFINE l == Len(p)
               m == Len(r)
    <3>3. l \in Nat /\ m \in Nat /\ Len(p2) = l + m
      BY <2>4
    <3> HIDE DEF l, m
    <3>4. l >= 2 => Len(p2) >= 2
      BY <3>3
    <3> QED BY <2>4, <2>5, <3>1, <3>2, <3>4 DEF l
  <2>7. v.phase = "sent" => \A j \in Whole(p2) : j > 1 => Kind(p2, j) \in {"data", "close"}
    BY <2>3, <2>5
  <2>8. v.phase = "done" => OnlyData(p2) /\ OnlyData(q) /\ c.chosen = v.chosen
    BY <2>3 DEF Phases
  <2>9. Phases(c2, v, p2, q, whole, ok)
    BY <1>1, <2>5, <2>6, <2>7, <2>8 DEF Phases, SameTalk
  <2> QED BY <1>3, <2>9 DEF p2, Onto
<1> QED BY <1>2, <1>3

LEMMA PhaseServerWrites ==
  ASSUME NEW c, NEW v, NEW v2, NEW p, NEW q \in Seq(Units), NEW r \in Seq(Units), NEW whole, NEW ok,
         whole \in BOOLEAN, Phases(c, v, p, q, whole, ok), v.done,
         whole => Even(q), Piece(r), NEW to, Onto(q, r, to, whole),
         SameTalk(v, v2)
  PROVE  Phases(c, v2, p, to, whole, ok)
<1> DEFINE q2 == q \o r
<1>1. v.phase = "done" /\ OnlyData(q)
  BY DEF Phases
<1>2. CASE ~whole \/ r = <<>>
  <2>1. q \o <<>> = q
    BY ConcatEmptySeq
  <2>2. to = q
    BY <1>2, <2>1 DEF Onto
  <2>3. Phases(c, v2, p, q, whole, ok)
    BY PhaseKept DEF SameTalk
  <2> QED BY <2>2, <2>3
<1>3. CASE whole /\ r # <<>>
  <2>1. PICK k \in Nat : Len(q) = 2 * k
    BY <1>3 DEF Even
  <2>2. Len(r) = 2 /\ r[1][1] \in {"data", "close"}
    BY <1>3 DEF Piece
  <2>3. OnlyData(q2)
    BY <1>1, <2>1, <2>2, OnlyDataPut
  <2> HIDE DEF q2
  <2>4. Phases(c, v2, p, q2, whole, ok)
    BY <1>1, <2>3 DEF Phases, SameTalk
  <2> QED BY <1>3, <2>4 DEF q2, Onto
<1> QED BY <1>2, <1>3

LEMMA CutShort ==
  ASSUME NEW p \in Seq(Units), NEW m \in 0..Len(p)
  PROVE  LET w == SubSeq(p, 1, m)
         IN  /\ w \in Seq(Units) /\ (Len(p) <= 2 => Len(w) <= 2) /\ (p = <<>> => w = <<>>)
             /\ w # <<>> => p # <<>> /\ w[1] = p[1]
             /\ \A j \in Whole(w) : j \in Whole(p) /\ Kind(w, j) = Kind(p, j)
             /\ OnlyData(p) => OnlyData(w)
<1> DEFINE w == SubSeq(p, 1, m)
           l == Len(p)
<1>1. l \in Nat /\ w \in Seq(Units) /\ Len(w) = m /\ \A i \in 1..m : w[i] = p[i]
  BY CutInTwo
<1>2. \A j \in Whole(w) : j \in Whole(p) /\ Kind(w, j) = Kind(p, j)
  BY KindCut
<1> HIDE DEF w, l
<1>3. m \in 0..l
  BY DEF l
<1>4. l <= 2 => Len(w) <= 2
  BY <1>1, <1>3
<1>5. p = <<>> => w = <<>>
  BY <1>1, <1>3, NoKinds, EmptySeq DEF l
<1>6. w # <<>> => w[1] = p[1]
  <2>1. w # <<>> => m # 0
    BY <1>1, EmptySeq
  <2> QED BY <1>1, <1>3, <2>1
<1>7. OnlyData(p) => OnlyData(w)
  BY <1>2 DEF OnlyData
<1> QED BY <1>1, <1>2, <1>4, <1>5, <1>6, <1>7 DEF w, l

LEMMA PhaseCut ==
  ASSUME NEW c, NEW v, NEW p \in Seq(Units), NEW q \in Seq(Units), NEW a \in 0..Len(p), NEW b \in 0..Len(q),
         NEW whole, NEW ok, NEW still, still \in BOOLEAN, ~still, Phases(c, v, p, q, whole, ok)
  PROVE  Phases(c, v, SubSeq(p, 1, a), SubSeq(q, 1, b), still, ok)
<1> DEFINE p2 == SubSeq(p, 1, a)
           q2 == SubSeq(q, 1, b)
<1>1. /\ Len(p) <= 2 => Len(p2) <= 2
      /\ p = <<>> => p2 = <<>>
      /\ p2 # <<>> => p # <<>> /\ p2[1] = p[1]
      /\ \A j \in Whole(p2) : j \in Whole(p) /\ Kind(p2, j) = Kind(p, j)
      /\ OnlyData(p) => OnlyData(p2)
  BY CutShort
<1>2. /\ Len(q) <= 2 => Len(q2) <= 2
      /\ q = <<>> => q2 = <<>>
      /\ q2 # <<>> => q # <<>> /\ q2[1] = q[1]
      /\ OnlyData(q) => OnlyData(q2)
  BY CutShort
<1>3. Kind(p, 1) = p[1][1] /\ Kind(p2, 1) = p2[1][1]
  BY KindIsFirst
<1> HIDE DEF p2, q2
<1>4. v.phase = "start" =>
             /\ c.phase \in {"start", "sent"} /\ q2 = <<>> /\ Len(p2) <= 2
             /\ p2 # <<>> => c.phase = "sent" /\ p2[1][1] = "hello" /\ p2[1][2] = c.hello
  BY <1>1, <1>2 DEF Phases
<1>5. v.phase = "sent" /\ c.phase = "sent" =>
             /\ p2 = <<>> /\ Len(q2) <= 2
             /\ q2 # <<>> => q2[1][1] = "flight" /\ q2[1][2] = v.chosen
  BY <1>1, <1>2 DEF Phases
<1>6. v.phase = "sent" /\ c.phase \in {"auth", "done"} =>
             /\ q2 = <<>> /\ c.chosen = v.chosen
             /\ p2 # <<>> => Kind(p2, 1) = IF c.phase = "done" THEN "finish" ELSE "alert"
             /\ \A j \in Whole(p2) : j > 1 => Kind(p2, j) \in {"data", "close"}
             /\ c.phase = "auth" => Len(p2) <= 2
  BY <1>1, <1>2, <1>3 DEF Phases
<1>7. v.phase = "done" =>
             c.phase = "done" /\ c.chosen = v.chosen /\ OnlyData(p2) /\ OnlyData(q2)
  BY <1>1, <1>2 DEF Phases
<1>8. Phases(c, v, p2, q2, still, ok)
  BY <1>4, <1>5, <1>6, <1>7 DEF Phases
<1> QED BY <1>8 DEF p2, q2

-----------------------------------------------------------------------------
\* What a side has pulled in, and what is on its way to it.
LEMMA TakenIs ==
  ASSUME SessionTypeOK, DataInv, NEW e \in Sides, NEW x, Sound(x), Settled(x),
         Stock(x) = Stock(session[e]), SameData(session[e], x)
  PROVE  /\ HasRecord(x) => /\ Len(Pipe(e)) >= 2 /\ First(x) = Pipe(e)[1]
                            /\ Dropped(Stock(x)) \o wire[e] = Dropped(Pipe(e))
         /\ ~HasRecord(x) => Len(Stock(x)) <= 1
         /\ Stock(x) \o wire[e] = Pipe(e)
         /\ LET w == session[Peer(e)]
            IN  /\ Arrives(w.sent, w.close_sent, x.got, x.plain, x.closed, Pipe(e), ~cut)
                /\ Len(Pipe(e)) >= 2 /\ Pipe(e)[1][1] \notin {"data", "close"} =>
                     Arrives(w.sent, w.close_sent, x.got, x.plain, x.closed, Dropped(Pipe(e)), ~cut)
<1> DEFINE s == Stock(x)
           t == wire[e]
           p == Pipe(e)
           w == session[Peer(e)]
           whole == ~cut
<1>1. p \in Seq(Units) /\ s \in Seq(Units) /\ t \in Seq(Units) /\ p = s \o t
  BY PipeIs DEF Pipe
<1>2. ~HasRecord(x) => Len(s) <= 1
  BY NothingWhole
<1>3. HasRecord(x) => First(x) = s[1] /\ Len(s) >= 2
  BY FirstIs
<1>4. Arrives(w.sent, w.close_sent, x.got, x.plain, x.closed, p, whole)
  BY DEF DataInv, SameData
<1>5. Peer(e) \in Sides
  BY DEF Sides, Peer
<1>6. /\ w.sent \in Seq(Nat) /\ w.close_sent \in BOOLEAN /\ x.got \in Seq(Nat) /\ x.plain \in Seq(Nat)
      /\ x.closed \in BOOLEAN /\ whole \in BOOLEAN
  <2>1. Sound(w)
    BY <1>5, PipeIs
  <2> QED BY <2>1 DEF Sound
<1> HIDE DEF s, t, p, w, whole
<1>7. /\ Len(p) = Len(s) + Len(t) /\ Len(s) \in Nat /\ Len(t) \in Nat
      /\ \A i \in 1..Len(s) : p[i] = s[i]
  BY <1>1, Joined
<1>8. HasRecord(x) => Len(p) >= 2 /\ First(x) = p[1] /\ Dropped(s) \o t = Dropped(p)
  <2> SUFFICES ASSUME HasRecord(x) PROVE Len(p) >= 2 /\ First(x) = p[1] /\ Dropped(s) \o t = Dropped(p)
    OBVIOUS
  <2> DEFINE l == Len(s)
             m == Len(t)
  <2>1. l \in Nat /\ m \in Nat /\ l >= 2 /\ Len(p) = l + m
    BY <1>3, <1>7
  <2> HIDE DEF l, m
  <2>2. Len(p) >= 2 /\ 2 \in 0..l /\ 1 \in 1..l
    BY <2>1
  <2>3. SubSeq(s \o t, 2 + 1, Len(s \o t)) = SubSeq(s, 2 + 1, Len(s)) \o t
    <3>1. 2 \in 0..Len(s)
      BY <2>2 DEF l
    <3> QED BY <1>1, <3>1, DropOfJoined
  <2>4. Dropped(s) \o t = Dropped(p)
    <3>1. \A z : Dropped(z) = SubSeq(z, 2 + 1, Len(z))
      BY DEF Dropped
    <3> QED BY <1>1, <2>3, <3>1
  <2>5. First(x) = p[1]
    BY <1>3, <1>7, <2>2 DEF l
  <2> QED BY <2>2, <2>4, <2>5
<1>9. Len(p) >= 2 /\ p[1][1] \notin {"data", "close"} =>
         Arrives(w.sent, w.close_sent, x.got, x.plain, x.closed, Dropped(p), whole)
  <2> DEFINE s1 == w.sent
             c1 == w.close_sent
             g1 == x.got
             l1 == x.plain
             d1 == x.closed
  <2>1. /\ s1 \in Seq(Nat) /\ c1 \in BOOLEAN /\ g1 \in Seq(Nat) /\ l1 \in Seq(Nat) /\ d1 \in BOOLEAN
        /\ whole \in BOOLEAN /\ Arrives(s1, c1, g1, l1, d1, p, whole)
    BY <1>4, <1>6
  <2> HIDE DEF s1, c1, g1, l1, d1
  <2>2. ASSUME Len(p) >= 2, p[1][1] \notin {"data", "close"}
        PROVE  Arrives(s1, c1, g1, l1, d1, Dropped(p), whole)
    <3>1. p \in Seq(Units) /\ Len(p) >= 2
      BY <1>1, <2>2
    <3>2. /\ ~d1
          /\ p[1][1] = "data" => /\ p[1][2] \in Seq(Nat) /\ Len(p[1][2]) > 0
                                 /\ Arrives(s1, c1, g1, l1 \o p[1][2], d1, Dropped(p), whole)
          /\ p[1][1] = "close" =>
               \A now \in BOOLEAN : now => Arrives(s1, c1, g1, l1, now, Dropped(p), whole)
          /\ p[1][1] \notin {"data", "close"} => Arrives(s1, c1, g1, l1, d1, Dropped(p), whole)
      BY <2>1, <3>1, ArrivesTake
    <3> QED BY <2>2, <3>2
  <2> QED BY <2>2 DEF s1, c1, g1, l1, d1
<1> QED BY <1>1, <1>2, <1>4, <1>8, <1>9 DEF s, t, p, w, whole

\* What a call of the handshake leaves to the invariants: x is what it stores,
\* status what it returns.
Agreed(e, x) ==
    LET mine == Stock(x) \o wire[e]
        theirs == IF ~cut THEN Pipe(Peer(e)) \o Content(x.out) ELSE Pipe(Peer(e))
    IN  IF e = "client" THEN Phases(x, session.server, theirs, mine, ~cut, trust)
        ELSE Phases(session.client, x, mine, theirs, ~cut, trust)
Turned(e, x, status) ==
    /\ Sound(x) /\ SameBase(session[e], x) /\ SameData(session[e], x)
    /\ status \in {"ok", "want", "failed"}
    /\ status = "ok" <=> x.done
    /\ status = "want" => Len(Stock(x)) <= 1 /\ x.phase \in {"start", "sent"}
    /\ status = "failed" => ~trust
    /\ Puts(session[e], x) /\ Agreed(e, x)
    /\ Arrives(session[Peer(e)].sent, session[Peer(e)].close_sent, x.got, x.plain, x.closed,
               Stock(x) \o wire[e], ~cut)

\* A message of the handshake is no data, and comes before there is any.
LEMMA PutsMessage ==
  ASSUME NEW old, NEW x, SameBase(old, x), old.sent = <<>>, ~old.close_sent, old.close_sent \in BOOLEAN,
         Content(x.out) = <<>> \/ \E k \in {"hello", "flight", "finish", "alert"} : \E v \in Payloads :
                                     Content(x.out) = Record(k, v)
  PROVE  Puts(old, x)
<1>1. x.sent = old.sent /\ x.close_sent = old.close_sent
  BY DEF SameBase
<1>2. CASE Content(x.out) = <<>>
  BY <1>1, <1>2 DEF Puts
<1>3. ASSUME NEW k \in {"hello", "flight", "finish", "alert"}, NEW v \in Payloads, Content(x.out) = Record(k, v)
      PROVE  Puts(old, x)
  <2> DEFINE r == Content(x.out)
  <2>1. r[1][1] = k
    BY <1>3, RecordIs
  <2> HIDE DEF r
  <2>2. \A i \in 1..Len(x.sent) : x.sent[i] = i
    <3>1. Len(x.sent) = 0
      BY <1>1, NoKinds
    <3> QED BY <3>1
  <2>3. Adds(old.sent, x.sent, x.close_sent, r)
    BY <1>1, <2>1, <2>2 DEF Adds
  <2> QED BY <1>3, <2>3 DEF Puts, r
<1> QED BY <1>2, <1>3

LEMMA ClientTurns ==
  ASSUME SessionTypeOK, DataInv, PhaseInv, StandsInv, session["client"].call = "handshake"
  PROVE  LET r == HandshakeCall(Pulled(session["client"]), "client")
         IN  Turned("client", r.x, r.status)
<1> DEFINE e == "client"
           x0 == session["client"]
           v == session["server"]
           x == Pulled(x0)
           r == HandshakeCall(x, e)
           y == r.x
           p == Pipe("server")
           q == Pipe("client")
           w == wire["client"]
           whole == ~cut
           o == Content(y.out)
           p2 == IF whole THEN p \o o ELSE p
           q2 == Stock(y) \o w
           ok == trust
<1>1. /\ e \in Sides /\ Peer(e) = "server" /\ "server" \in Sides
      /\ Sound(x0) /\ Content(x0.out) = <<>> /\ p \in Seq(Units) /\ q \in Seq(Units)
      /\ whole \in BOOLEAN /\ ok \in BOOLEAN /\ x0.hello \in Hellos
  <2>1. e \in Sides /\ Peer(e) = "server" /\ "server" \in Sides
    BY DEF Sides, Peer
  <2> QED BY <2>1, PipeIs DEF SessionTypeOK
<1>2. x0.done = FALSE /\ x0.sent = <<>> /\ x0.close_sent = FALSE /\ x0.phase \in {"start", "sent"}
  <2>1. ~x0.done
    BY <1>1 DEF StandsInv, Stands
  <2>2. x0.done \in BOOLEAN /\ x0.close_sent \in BOOLEAN
    BY <1>1 DEF Sound
  <2> QED BY <1>1, <2>1, <2>2 DEF StandsInv, Stands
<1>3. /\ Sound(x) /\ Stock(x) = Stock(x0) /\ Settled(x) /\ Others(x0, x) /\ x.out = x0.out
  BY <1>1, PulledIs
<1>4. Phases(x0, v, p, q, whole, ok)
  BY DEF PhaseInv
<1> HIDE DEF x
<1>5. /\ SameBase(x0, x) /\ SameData(x0, x) /\ x.done = FALSE /\ x.phase = x0.phase /\ x.hello = x0.hello
      /\ x.chosen = x0.chosen /\ Content(x.out) = <<>> /\ ~x.done
  BY <1>1, <1>2, <1>3 DEF Others, SameBase, SameTalk
<1>6. /\ HasRecord(x) => /\ Len(q) >= 2 /\ First(x) = q[1]
                         /\ Dropped(Stock(x)) \o w = Dropped(q)
      /\ ~HasRecord(x) => Len(Stock(x)) <= 1
      /\ Stock(x) \o w = q
      /\ Arrives(v.sent, v.close_sent, x.got, x.plain, x.closed, q, whole)
      /\ Len(q) >= 2 /\ q[1][1] \notin {"data", "close"} =>
           Arrives(v.sent, v.close_sent, x.got, x.plain, x.closed, Dropped(q), whole)
  BY <1>1, <1>3, <1>5, TakenIs
<1> HIDE DEF p, q, w, whole, r
\* What is left to show of each case.
<1>7. ASSUME Sound(y), SameBase(x, y), SameData(x, y), r.status \in {"ok", "want", "failed"},
             r.status = "ok" <=> y.done,
             r.status = "want" => Len(Stock(y)) <= 1 /\ y.phase \in {"start", "sent"},
             r.status = "failed" => ~ok,
             o = <<>> \/ \E k \in {"hello", "flight", "finish", "alert"} : \E z \in Payloads : o = Record(k, z),
             Phases(y, v, p2, q2, whole, ok),
             Arrives(v.sent, v.close_sent, x.got, x.plain, x.closed, q2, whole)
      PROVE  Turned(e, y, r.status)
  <2>1. SameBase(x0, y) /\ SameData(x0, y)
    BY <1>5, <1>7 DEF SameBase, SameData
  <2>2. Puts(x0, y)
    BY <1>2, <1>7, <2>1, PutsMessage
  <2>3. Agreed(e, y)
    BY <1>1, <1>7 DEF Agreed, p, w, whole
  <2>4. Arrives(session[Peer(e)].sent, session[Peer(e)].close_sent, y.got, y.plain, y.closed, Stock(y) \o wire[e], ~cut)
    BY <1>1, <1>7 DEF SameData, w, whole
  <2> HIDE DEF y
  <2> QED BY <1>7, <2>1, <2>2, <2>3, <2>4 DEF Turned, ok
<1> HIDE DEF x0, v, y, o, p2, q2, ok
<1>8. ASSUME x.phase = "start" PROVE Turned(e, y, r.status)
  <2>1. Turn(x, r, "want", "sent", x.chosen, FALSE) /\ Stock(y) = Stock(x) /\ o = Record("hello", x.hello)
    BY <1>1, <1>3, <1>5, <1>8, SaysHello DEF r, y, o
  <2>2. r.status = "want" /\ Sound(y) /\ SameBase(x, y) /\ SameData(x, y) /\ y.phase = "sent" /\ y.done = FALSE
    BY <2>1 DEF Turn, y
  <2>3. x.hello \in Payloads
    BY <1>1, <1>5 DEF Payloads
  <2>4. o \in Seq(Units) /\ o[1][1] = "hello" /\ o[1][2] = x0.hello /\ y.hello = x0.hello
    BY <1>5, <2>1, <2>2, <2>3, RecordIs DEF SameBase
  <2>5. Len(o) = 2
    BY <2>1, <2>3, RecordIs
  <2>6. p = <<>> /\ q = <<>> /\ x0.phase = "start"
    BY <1>4, <1>5, <1>8, PhaseFirst
  <2>7. p2 = IF whole THEN o ELSE <<>>
    BY <2>4, <2>6, ConcatEmptySeq DEF p2
  <2>8. q2 = q
    BY <1>6, <2>1 DEF q2
  <2>9. Len(o) = 2 => Phases(y, v, p2, q, whole, ok)
    BY <1>1, <1>4, <2>2, <2>4, <2>6, <2>7, PhaseHello
  <2>10. Phases(y, v, p2, q2, whole, ok)
    BY <2>5, <2>8, <2>9
  <2>11. Len(Stock(y)) <= 1
    <3>1. ~(Len(q) >= 2)
      BY <2>6, NoKinds
    <3> QED BY <1>6, <2>1, <3>1
  <2>12. Arrives(v.sent, v.close_sent, x.got, x.plain, x.closed, q2, whole)
    BY <1>6, <2>8
  <2>13. \E k \in {"hello", "flight", "finish", "alert"} : \E z \in Payloads : o = Record(k, z)
    BY <2>1, <2>3
  <2> QED BY <1>7, <2>2, <2>10, <2>11, <2>12, <2>13
<1>9. ASSUME x.phase = "sent" /\ ~HasRecord(x) PROVE Turned(e, y, r.status)
  <2>1. Turn(x, r, "want", x.phase, x.chosen, FALSE) /\ Stock(y) = Stock(x) /\ o = <<>>
    BY <1>1, <1>3, <1>5, <1>9, AwaitsMore DEF r, y, o
  <2>2. /\ r.status = "want" /\ Sound(y) /\ SameBase(x, y) /\ SameData(x, y) /\ y.phase = "sent" /\ y.done = FALSE
        /\ y.chosen = x.chosen
    BY <1>9, <2>1 DEF Turn, y
  <2>3. y.hello = x0.hello /\ y.phase = x0.phase /\ y.done = x0.done /\ y.chosen = x0.chosen
    BY <1>2, <1>5, <1>9, <2>2 DEF SameBase
  <2>4. q2 = q /\ o = <<>> /\ Len(Stock(y)) <= 1
    BY <1>6, <1>9, <2>1 DEF q2
  <2>5. p2 = p
    BY <1>1, <2>4, ConcatEmptySeq DEF p2
  <2>6. Phases(y, v, p, q, whole, ok)
    BY <1>4, <2>3, PhaseKept
  <2>7. Phases(y, v, p2, q2, whole, ok)
    BY <2>4, <2>5, <2>6
  <2>8. Arrives(v.sent, v.close_sent, x.got, x.plain, x.closed, q2, whole)
    BY <1>6, <2>4
  <2> QED BY <1>7, <2>2, <2>4, <2>7, <2>8
<1>10. ASSUME x.phase = "sent" /\ HasRecord(x) PROVE Turned(e, y, r.status)
  <2>1. Len(q) >= 2 /\ First(x) = q[1] /\ Dropped(Stock(x)) \o w = Dropped(q)
    BY <1>6, <1>10
  <2>2. v.phase = "sent" /\ p = <<>> /\ Dropped(q) = <<>> /\ q[1][1] = "flight" /\ q[1][2] = v.chosen
    <3>1. x0.phase = "sent" /\ Len(q) >= 2
      BY <1>5, <1>10, <2>1
    <3> QED BY <1>1, <1>4, <3>1, PhaseFlight
  <2>3. First(x)[1] = "flight" /\ First(x)[2] = v.chosen
    BY <2>1, <2>2
  <2>4. /\ trust => Turn(x, r, "ok", "done", First(x)[2], TRUE) /\ o = Record("finish", "")
        /\ ~trust => \/ /\ Turn(x, r, "failed", "auth", First(x)[2], FALSE)
                        /\ o = <<>> \/ o = Record("alert", "")
                     \/ /\ Turn(x, r, "failed", "done", First(x)[2], FALSE)
                        /\ o = Record("finish", "")
        /\ Stock(y) = Dropped(Stock(x))
    BY <1>3, <1>5, <1>10, <2>3, AnswersFlight DEF r, y, o
  <2>5. /\ Sound(y) /\ SameBase(x, y) /\ SameData(x, y) /\ y.chosen = v.chosen /\ y.done = ok
        /\ ok => r.status = "ok" /\ y.phase = "done"
        /\ ~ok => r.status = "failed" /\ y.phase \in {"auth", "done"}
        /\ y.phase = "done" => o = Record("finish", "")
        /\ y.phase = "auth" => o = <<>> \/ o = Record("alert", "")
    BY <1>1, <2>3, <2>4 DEF Turn, y, ok
  <2>6. q2 = <<>> /\ y.hello = x0.hello /\ x0.phase = "sent"
    BY <1>5, <1>10, <2>1, <2>2, <2>4, <2>5 DEF SameBase, q2
  <2>7. "" \in Payloads
    BY DEF Payloads
  <2>8. /\ Record("finish", "") \in Seq(Units) /\ Len(Record("finish", "")) = 2 /\ Record("finish", "")[1][1] = "finish"
        /\ Record("alert", "") \in Seq(Units) /\ Len(Record("alert", "")) = 2 /\ Record("alert", "")[1][1] = "alert"
    BY <2>7, RecordIs
  <2>9. /\ o \in Seq(Units)
        /\ y.phase = "done" => Len(o) = 2 /\ o[1][1] = "finish"
        /\ y.phase = "auth" => o = <<>> \/ (Len(o) = 2 /\ o[1][1] = "alert")
    <3>1. <<>> \in Seq(Units)
      BY EmptySeq
    <3> QED BY <2>5, <2>8, <3>1, Zenon
  <2>10. y.phase \in {"auth", "done"} /\ (ok => y.phase = "done")
    BY <1>1, <2>5
  <2>11. p2 = IF whole THEN o ELSE <<>>
    BY <2>2, <2>9, ConcatEmptySeq DEF p2
  <2>12. Phases(y, v, p2, <<>>, whole, ok)
    <3>1. y.hello = x0.hello /\ y.chosen = v.chosen /\ y.done = ok /\ x0.phase = "sent" /\ v.phase = "sent"
      BY <2>2, <2>5, <2>6
    <3> QED BY <1>1, <1>4, <2>9, <2>10, <2>11, <3>1, PhaseAnswered
  <2>13. Phases(y, v, p2, q2, whole, ok)
    BY <2>6, <2>12
  <2>14. Arrives(v.sent, v.close_sent, x.got, x.plain, x.closed, q2, whole)
    BY <1>6, <2>1, <2>2, <2>6
  <2>15. o = <<>> \/ \E k \in {"hello", "flight", "finish", "alert"} : \E z \in Payloads : o = Record(k, z)
    BY <2>5, <2>7, <2>10
  <2>16. /\ r.status \in {"ok", "want", "failed"} /\ (r.status = "ok" <=> y.done)
         /\ r.status # "want" /\ (r.status = "failed" => ~ok)
    BY <1>1, <2>5
  <2> QED BY <1>7, <2>5, <2>13, <2>14, <2>15, <2>16
<1>11. x.phase \in {"start", "sent"}
  BY <1>2, <1>5
<1>12. Turned(e, y, r.status)
  BY <1>8, <1>9, <1>10, <1>11
<1> QED BY <1>12 DEF r, x, y, x0

LEMMA ServerTurns ==
  ASSUME SessionTypeOK, DataInv, PhaseInv, StandsInv, session["server"].call = "handshake"
  PROVE  LET r == HandshakeCall(Pulled(session["server"]), "server")
         IN  Turned("server", r.x, r.status)
<1> DEFINE e == "server"
           x0 == session["server"]
           c == session["client"]
           x == Pulled(x0)
           r == HandshakeCall(x, e)
           y == r.x
           p == Pipe("server")
           q == Pipe("client")
           w == wire["server"]
           whole == ~cut
           o == Content(y.out)
           p2 == Stock(y) \o w
           q2 == IF whole THEN q \o o ELSE q
           ok == trust
<1>1. /\ e \in Sides /\ Peer(e) = "client" /\ "client" \in Sides
      /\ Sound(x0) /\ Content(x0.out) = <<>> /\ p \in Seq(Units) /\ q \in Seq(Units)
      /\ whole \in BOOLEAN /\ ok \in BOOLEAN /\ c.hello \in Hellos /\ x0.be \in BackendNames
      /\ c.phase \in {"start", "sent", "auth", "done"}
  <2>1. e \in Sides /\ Peer(e) = "client" /\ "client" \in Sides
    BY DEF Sides, Peer
  <2>2. c.phase \in {"start", "sent", "auth", "done"}
    BY <2>1, PipeIs DEF Sound
  <2> QED BY <2>1, <2>2, PipeIs DEF SessionTypeOK
<1>2. x0.done = FALSE /\ x0.sent = <<>> /\ x0.close_sent = FALSE /\ x0.phase \in {"start", "sent"}
  <2>1. ~x0.done
    BY <1>1 DEF StandsInv, Stands
  <2>2. x0.done \in BOOLEAN /\ x0.close_sent \in BOOLEAN
    BY <1>1 DEF Sound
  <2> QED BY <1>1, <2>1, <2>2 DEF StandsInv, Stands
<1>3. /\ Sound(x) /\ Stock(x) = Stock(x0) /\ Settled(x) /\ Others(x0, x) /\ x.out = x0.out
  BY <1>1, PulledIs
<1>4. Phases(c, x0, p, q, whole, ok)
  BY DEF PhaseInv
<1> HIDE DEF x
<1>5. /\ SameBase(x0, x) /\ SameData(x0, x) /\ x.done = FALSE /\ x.phase = x0.phase /\ x.be = x0.be
      /\ x.chosen = x0.chosen /\ Content(x.out) = <<>> /\ ~x.done
  BY <1>1, <1>2, <1>3 DEF Others, SameBase, SameTalk
<1>6. /\ HasRecord(x) => /\ Len(p) >= 2 /\ First(x) = p[1]
                         /\ Dropped(Stock(x)) \o w = Dropped(p)
      /\ ~HasRecord(x) => Len(Stock(x)) <= 1
      /\ Stock(x) \o w = p
      /\ Arrives(c.sent, c.close_sent, x.got, x.plain, x.closed, p, whole)
      /\ Len(p) >= 2 /\ p[1][1] \notin {"data", "close"} =>
           Arrives(c.sent, c.close_sent, x.got, x.plain, x.closed, Dropped(p), whole)
  BY <1>1, <1>3, <1>5, TakenIs
<1> HIDE DEF p, q, w, whole, r
<1>7. ASSUME Sound(y), SameBase(x, y), SameData(x, y), r.status \in {"ok", "want", "failed"},
             r.status = "ok" <=> y.done,
             r.status = "want" => Len(Stock(y)) <= 1 /\ y.phase \in {"start", "sent"},
             r.status = "failed" => ~ok,
             o = <<>> \/ \E k \in {"hello", "flight", "finish", "alert"} : \E z \in Payloads : o = Record(k, z),
             Phases(c, y, p2, q2, whole, ok),
             Arrives(c.sent, c.close_sent, x.got, x.plain, x.closed, p2, whole)
      PROVE  Turned(e, y, r.status)
  <2>1. SameBase(x0, y) /\ SameData(x0, y)
    BY <1>5, <1>7 DEF SameBase, SameData
  <2>2. Puts(x0, y)
    BY <1>2, <1>7, <2>1, PutsMessage
  <2>3. Agreed(e, y)
    BY <1>1, <1>7 DEF Agreed, q, w, whole
  <2>4. Arrives(session[Peer(e)].sent, session[Peer(e)].close_sent, y.got, y.plain, y.closed, Stock(y) \o wire[e], ~cut)
    BY <1>1, <1>7 DEF SameData, w, whole
  <2> HIDE DEF y
  <2> QED BY <1>7, <2>1, <2>2, <2>3, <2>4 DEF Turned, ok
<1> HIDE DEF x0, c, y, o, p2, q2, ok
<1>8. ASSUME ~HasRecord(x) PROVE Turned(e, y, r.status)
  <2>1. Turn(x, r, "want", x.phase, x.chosen, FALSE) /\ Stock(y) = Stock(x) /\ o = <<>>
    BY <1>1, <1>2, <1>3, <1>5, <1>8, AwaitsMore DEF r, y, o
  <2>2. /\ r.status = "want" /\ Sound(y) /\ SameBase(x, y) /\ SameData(x, y) /\ y.phase = x.phase /\ y.done = FALSE
        /\ y.chosen = x.chosen
    BY <2>1 DEF Turn, y
  <2>3. y.phase = x0.phase /\ y.done = x0.done /\ y.chosen = x0.chosen /\ y.phase \in {"start", "sent"}
    BY <1>2, <1>5, <2>2
  <2>4. p2 = p /\ o = <<>> /\ Len(Stock(y)) <= 1
    BY <1>6, <1>8, <2>1 DEF p2
  <2>5. q2 = q
    BY <1>1, <2>4, ConcatEmptySeq DEF q2
  <2>6. Phases(c, y, p, q, whole, ok)
    BY <1>4, <2>3, PhaseKept
  <2>7. Phases(c, y, p2, q2, whole, ok)
    BY <2>4, <2>5, <2>6
  <2>8. Arrives(c.sent, c.close_sent, x.got, x.plain, x.closed, p2, whole)
    BY <1>6, <2>4
  <2> QED BY <1>7, <2>2, <2>3, <2>4, <2>7, <2>8
<1>9. ASSUME x.phase = "start", HasRecord(x) PROVE Turned(e, y, r.status)
  <2>1. Len(p) >= 2 /\ First(x) = p[1] /\ Dropped(Stock(x)) \o w = Dropped(p)
    BY <1>6, <1>9
  <2>2. c.phase = "sent" /\ q = <<>> /\ Dropped(p) = <<>> /\ p[1][1] = "hello" /\ p[1][2] = c.hello
    <3>1. x0.phase = "start" /\ Len(p) >= 2
      BY <1>5, <1>9, <2>1
    <3> QED BY <1>1, <1>4, <3>1, PhaseServed
  <2>3. First(x)[1] = "hello" /\ First(x)[2] \in Hellos
    BY <1>1, <2>1, <2>2
  <2>4. /\ \E pick : Turn(x, r, "want", "sent", pick, FALSE) /\ o = Record("flight", pick)
        /\ Stock(y) = Dropped(Stock(x))
    BY <1>1, <1>3, <1>5, <1>9, <2>3, AnswersHello DEF r, y, o
  <2>5. PICK pick : Turn(x, r, "want", "sent", pick, FALSE) /\ o = Record("flight", pick)
    BY <2>4
  <2>6. /\ r.status = "want" /\ Sound(y) /\ SameBase(x, y) /\ SameData(x, y) /\ y.phase = "sent" /\ y.done = FALSE
        /\ y.chosen = pick
    BY <2>5 DEF Turn, y
  <2>7. p2 = <<>> /\ x0.phase = "start"
    BY <1>5, <1>9, <2>1, <2>2, <2>4 DEF p2
  <2>8. pick \in Payloads
    <3>1. o \in Seq(Units)
      BY <2>6, ContentIs DEF Sound, o
    <3>2. Len(Record("flight", pick)) = 2 /\ Record("flight", pick)[1] = <<"flight", pick, 1>>
      BY DEF Record
    <3>3. 1 \in 1..Len(Record("flight", pick))
      BY <3>2
    <3>4. <<"flight", pick, 1>> \in Units
      BY <2>5, <3>1, <3>2, <3>3
    <3> QED BY <3>4 DEF Units
  <2>9. o \in Seq(Units) /\ o[1][1] = "flight" /\ o[1][2] = y.chosen
    BY <2>5, <2>6, <2>8, RecordIs
  <2>10. Len(o) = 2
    BY <2>5, <2>8, RecordIs
  <2>11. q2 = IF whole THEN o ELSE <<>>
    BY <2>2, <2>9, ConcatEmptySeq DEF q2
  <2>12. Len(o) = 2 => Phases(c, y, <<>>, q2, whole, ok)
    BY <1>1, <1>4, <2>2, <2>6, <2>7, <2>9, <2>11, PhaseOffered
  <2>13. Phases(c, y, p2, q2, whole, ok)
    BY <2>7, <2>10, <2>12
  <2>14. Arrives(c.sent, c.close_sent, x.got, x.plain, x.closed, p2, whole)
    BY <1>6, <2>1, <2>2, <2>7
  <2>15. Len(Stock(y)) <= 1
    <3>1. Stock(y) \in Seq(Units) /\ w \in Seq(Units)
      BY <1>1, <2>6, StockIs, PipeIs DEF w
    <3>2. Len(Stock(y) \o w) = Len(Stock(y)) + Len(w) /\ Len(Stock(y)) \in Nat /\ Len(w) \in Nat
      BY <3>1, Joined
    <3>3. Len(Stock(y) \o w) = 0
      BY <2>7, NoKinds DEF p2
    <3> QED BY <3>2, <3>3
  <2>16. \E k \in {"hello", "flight", "finish", "alert"} : \E z \in Payloads : o = Record(k, z)
    BY <2>5, <2>8
  <2> QED BY <1>7, <2>6, <2>13, <2>14, <2>15, <2>16
<1>10. ASSUME x.phase = "sent", HasRecord(x) PROVE Turned(e, y, r.status)
  <2>1. Len(p) >= 2 /\ First(x) = p[1] /\ Dropped(Stock(x)) \o w = Dropped(p)
    BY <1>6, <1>10
  <2>2. /\ q = <<>> /\ c.chosen = x0.chosen /\ p[1][1] \in {"finish", "alert"}
        /\ p[1][1] = "finish" => c.phase = "done" /\ OnlyData(Dropped(p))
        /\ p[1][1] = "alert" => c.phase = "auth" /\ Dropped(p) = <<>>
    <3>1. x0.phase = "sent" /\ Len(p) >= 2
      BY <1>5, <1>10, <2>1
    <3> QED BY <1>1, <1>4, <3>1, PhaseAnswer
  <2>3. First(x)[1] \in {"finish", "alert"} /\ First(x)[1] = p[1][1]
    BY <2>1, <2>2
  <2>4. /\ First(x)[1] = "finish" => Turn(x, r, "ok", "done", x.chosen, TRUE)
        /\ First(x)[1] = "alert" => Turn(x, r, "failed", "sent", x.chosen, FALSE)
        /\ Stock(y) = Dropped(Stock(x)) /\ o = <<>>
    BY <1>3, <1>5, <1>10, <2>3, EndsServer DEF r, y, o
  <2>5. Sound(y) /\ SameBase(x, y) /\ SameData(x, y) /\ y.chosen = x0.chosen
    BY <1>5, <2>3, <2>4 DEF Turn, y
  <2>6. p2 = Dropped(p) /\ q2 = <<>> /\ x0.phase = "sent"
    <3>1. <<>> \o <<>> = <<>>
      BY EmptySeq, ConcatEmptySeq
    <3> QED BY <1>5, <1>10, <2>1, <2>2, <2>4, <3>1 DEF p2, q2
  <2>7. Arrives(c.sent, c.close_sent, x.got, x.plain, x.closed, p2, whole)
    BY <1>6, <2>1, <2>2, <2>6
  <2>8. Phases(c, x0, p, <<>>, whole, ok)
    BY <1>4, <2>2
  <2>9. CASE First(x)[1] = "finish"
    <3>1. r.status = "ok" /\ y.phase = "done" /\ y.done = TRUE
      BY <2>4, <2>9 DEF Turn, y
    <3>2. c.phase = "done" /\ OnlyData(p2)
      BY <2>2, <2>3, <2>6, <2>9
    <3>3. Phases(c, y, p2, <<>>, whole, ok)
      BY <2>2, <2>5, <2>6, <2>8, <3>1, <3>2, PhaseFinished
    <3>4. Phases(c, y, p2, q2, whole, ok)
      BY <2>6, <3>3
    <3> QED BY <1>7, <2>4, <2>5, <2>7, <3>1, <3>4
  <2>10. CASE First(x)[1] = "alert"
    <3>1. r.status = "failed" /\ y.phase = "sent" /\ y.done = FALSE
      BY <2>4, <2>10 DEF Turn, y
    <3>2. c.phase = "auth" /\ p2 = <<>>
      BY <2>2, <2>3, <2>6, <2>10
    <3>3. ~ok
      BY <1>4, <3>2 DEF Phases
    <3>4. Phases(c, y, <<>>, <<>>, whole, ok)
      BY <2>2, <2>5, <2>6, <2>8, <3>1, <3>2, PhaseRefused
    <3>5. Phases(c, y, p2, q2, whole, ok)
      BY <2>6, <3>2, <3>4
    <3> QED BY <1>7, <2>4, <2>5, <2>7, <3>1, <3>3, <3>5
  <2> QED BY <2>3, <2>9, <2>10
<1>11. x.phase \in {"start", "sent"}
  BY <1>2, <1>5
<1>12. Turned(e, y, r.status)
  BY <1>8, <1>9, <1>10, <1>11
<1> QED BY <1>12 DEF r, x, y, x0

-----------------------------------------------------------------------------
\* A call that stores x keeps the invariant when what it read and put on the
\* stream (DataInv), where it leaves the handshake (PhaseInv), where the side
\* stands and how it may have ended are right.
LEMMA InvStored ==
  ASSUME SessionInv, NEW e \in Sides, NEW x, NEW flush \in BOOLEAN, Sound(x),
         x.be = session[e].be, x.hello = session[e].hello,
         ~flush => Content(x.out) = <<>>, SendStored(e, x, flush), UNCHANGED <<trust, cut>>,
         Puts(session[e], x), Agreed(e, x), Stands(x),
         Arrives(session[Peer(e)].sent, session[Peer(e)].close_sent, x.got, x.plain, x.closed,
                 Stock(x) \o wire[e], ~cut),
         fin' = fin \/ (/\ fin' = [fin EXCEPT ![Peer(e)] = TRUE] /\ (x.close_sent \/ ~x.socket)),
         session[e].close_sent => x.close_sent, session[e].socket, x.ended # "eof"
  PROVE  SessionInv'
<1> DEFINE o == Peer(e)
           y == session'[e]
<1>1. SessionTypeOK /\ DataInv /\ PhaseInv /\ StandsInv /\ EndInv
  BY DEF SessionInv
<1>2. fin \in [Sides -> BOOLEAN]
  BY <1>1 DEF SessionTypeOK
<1>3. fin' \in [Sides -> BOOLEAN]
  BY <1>2
<1>4. SessionTypeOK'
  BY <1>1, <1>3, TypeStored
<1>5. DataInv'
  BY <1>1, DataStored
<1>6. /\ o \in Sides /\ o # e /\ Peer(o) = e /\ session'[o] = session[o] /\ Others(x, y)
      /\ Stock(y) = Stock(x)
      /\ Pipe(e)' = Stock(x) \o wire[e]
      /\ Pipe(o)' = IF cut THEN Pipe(o) ELSE Pipe(o) \o Content(x.out)
  BY <1>1, SendStoredIs
<1>7. /\ y.hello = x.hello /\ y.phase = x.phase /\ y.done = x.done /\ y.chosen = x.chosen
      /\ y.sent = x.sent /\ y.got = x.got /\ y.plain = x.plain /\ y.closed = x.closed
      /\ y.close_sent = x.close_sent /\ y.call = x.call /\ y.ended = x.ended /\ y.socket = x.socket
  BY <1>6 DEF Others, SameBase, SameTalk, SameData
<1>8. \A d \in Sides : d = e \/ d = o
  BY DEF Sides, Peer
<1> HIDE DEF o, y
<1>9. StandsInv'
  <2>1. Stands(y)
    BY <1>6, <1>7 DEF Stands
  <2>2. Stands(session[o])
    BY <1>1, <1>6 DEF StandsInv
  <2>3. \A d \in Sides : Stands(session'[d])
    BY <1>6, <1>8, <2>1, <2>2 DEF y
  <2> QED BY <2>3 DEF StandsInv, Stands, Stock, Content
<1>10. EndInv'
  <2> SUFFICES ASSUME ~cut
               PROVE  \A d \in Sides :
                        /\ fin'[d] => session'[Peer(d)].close_sent \/ ~session'[Peer(d)].socket
                        /\ session'[d].done /\ session'[d].ended = "eof" => LeftBehind(session'[d], session'[Peer(d)])
    BY DEF EndInv, LeftBehind
  <2>1. \A d \in Sides :
          /\ fin[d] => session[Peer(d)].close_sent \/ ~session[Peer(d)].socket
          /\ session[d].done /\ session[d].ended = "eof" => LeftBehind(session[d], session[Peer(d)])
    BY <1>1 DEF EndInv
  <2>2. fin'[e] = fin[e] /\ (fin'[o] => fin[o] \/ x.close_sent \/ ~x.socket)
    BY <1>2, <1>6 DEF o
  <2>3. fin[e] => session[o].close_sent \/ ~session[o].socket
    BY <2>1 DEF o
  <2>4. fin[o] => session[e].close_sent
    BY <1>6, <2>1
  <2>5. ~(session[o].done /\ session[o].ended = "eof")
    BY <1>6, <2>1 DEF LeftBehind
  <2>6. fin'[o] => y.close_sent \/ ~y.socket
    BY <1>7, <2>2, <2>4
  <2>7. /\ fin'[e] => session'[Peer(e)].close_sent \/ ~session'[Peer(e)].socket
        /\ fin'[o] => session'[Peer(o)].close_sent \/ ~session'[Peer(o)].socket
        /\ ~(session'[o].done /\ session'[o].ended = "eof") /\ session'[e].ended # "eof"
    BY <1>6, <1>7, <2>2, <2>3, <2>5, <2>6 DEF y, o
  <2> QED BY <1>8, <2>7
<1>11. PhaseInv'
  <2> DEFINE c == session["client"]
             v == session["server"]
             ce == session'["client"]
             ve == session'["server"]
             p2 == Pipe("server")'
             q2 == Pipe("client")'
             w == Stock(x) \o wire[e]
             z == IF ~cut THEN Pipe(o) \o Content(x.out) ELSE Pipe(o)
             whole == ~cut
             ok == trust
  <2>1. Pipe(e)' = w /\ Pipe(o)' = z
    BY <1>6
  <2>2. Phases(ce, ve, p2, q2, whole, ok)
    <3>1. CASE e = "client"
      <4>1. o = "server" /\ ce = y /\ ve = v /\ q2 = w /\ p2 = z
        <5>1. o = "server"
          BY <3>1 DEF o, Peer
        <5> QED BY <1>6, <2>1, <3>1, <5>1 DEF y
      <4>2. Phases(x, v, z, w, whole, ok)
        BY <3>1 DEF Agreed, o
      <4> HIDE DEF c, v, ce, ve, p2, q2, w, z, whole, ok
      <4>3. Phases(y, v, z, w, whole, ok)
        BY <1>7, <4>2, PhaseKept
      <4> QED BY <4>1, <4>3
    <3>2. CASE e = "server"
      <4>1. o = "client" /\ ve = y /\ ce = c /\ p2 = w /\ q2 = z
        <5>1. o = "client"
          BY <3>2 DEF o, Peer
        <5> QED BY <1>6, <2>1, <3>2, <5>1 DEF y
      <4>2. Phases(c, x, w, z, whole, ok)
        BY <3>2 DEF Agreed, o
      <4> HIDE DEF c, v, ce, ve, p2, q2, w, z, whole, ok
      <4>3. Phases(c, y, w, z, whole, ok)
        BY <1>7, <4>2, PhaseKept
      <4> QED BY <4>1, <4>3
    <3> QED BY <3>1, <3>2 DEF Sides
  <2> QED BY <2>2 DEF PhaseInv
<1> QED BY <1>4, <1>5, <1>9, <1>10, <1>11 DEF SessionInv

\* A session whose call and end are set: what it has and says stays.
Resumed(x, z) ==
    /\ DOMAIN z = SessionFields /\ z.in = x.in /\ z.rec = x.rec /\ z.out = x.out
    /\ SameTalk(x, z) /\ SameData(x, z) /\ z.be = x.be /\ z.hello = x.hello /\ z.sent = x.sent
    /\ z.call \in Calls /\ z.ended \in Endings
    /\ z.socket \in BOOLEAN /\ z.close_sent \in BOOLEAN

LEMMA Resumes ==
  ASSUME NEW x, Sound(x), NEW z, Resumed(x, z)
  PROVE  /\ Sound(z) /\ Stock(z) = Stock(x) /\ z.out = x.out /\ SameTalk(x, z) /\ SameData(x, z)
         /\ z.be = x.be /\ z.hello = x.hello /\ z.sent = x.sent
<1>1. Sound(z)
  BY DEF Sound, SameTalk, SameData, Resumed
<1>2. Stock(z) = Stock(x)
  BY DEF Stock, Resumed
<1> QED BY <1>1, <1>2 DEF Resumed

\* The parts of a turn and of an answer that do not look at what Resumes sets.
LEMMA AgreedResumes ==
  ASSUME NEW e \in Sides, NEW x, NEW z, Agreed(e, x), Stock(z) = Stock(x), z.out = x.out,
         SameTalk(x, z), z.hello = x.hello
  PROVE  Agreed(e, z)
<1> DEFINE mine == Stock(x) \o wire[e]
           theirs == IF ~cut THEN Pipe(Peer(e)) \o Content(x.out) ELSE Pipe(Peer(e))
           c == session["client"]
           v == session["server"]
           whole == ~cut
           ok == trust
<1>1. z.phase = x.phase /\ z.done = x.done /\ z.chosen = x.chosen
  BY DEF SameTalk
<1>2. Stock(z) \o wire[e] = mine /\ (IF ~cut THEN Pipe(Peer(e)) \o Content(z.out) ELSE Pipe(Peer(e))) = theirs
  OBVIOUS
<1>3. CASE e = "client"
  <2>1. Phases(x, v, theirs, mine, whole, ok)
    BY <1>3 DEF Agreed
  <2>2. Phases(z, v, theirs, mine, whole, ok)
    <3> HIDE DEF mine, theirs, c, v, whole, ok
    <3> QED BY <1>1, <2>1, PhaseKept
  <2> QED BY <1>2, <1>3, <2>2 DEF Agreed
<1>4. CASE e = "server"
  <2>1. Phases(c, x, mine, theirs, whole, ok)
    BY <1>4 DEF Agreed
  <2>2. Phases(c, z, mine, theirs, whole, ok)
    <3> HIDE DEF mine, theirs, c, v, whole, ok
    <3> QED BY <1>1, <2>1, PhaseKept
  <2> QED BY <1>2, <1>4, <2>2 DEF Agreed
<1> QED BY <1>3, <1>4 DEF Sides

\* What drive_handshake stores for a status.
Concluded(x, status) ==
    CASE status = "ok" -> [x EXCEPT !.call = "none"]
      [] status = "want" -> [x EXCEPT !.call = "handshake pump"]
      [] status = "failed" -> [x EXCEPT !.call = "none", !.ended = "handshake", !.socket = FALSE]

LEMMA ConcludedIs ==
  ASSUME NEW x, Sound(x), NEW status \in {"ok", "want", "failed"}
  PROVE  LET z == Concluded(x, status)
         IN  /\ Sound(z) /\ Stock(z) = Stock(x) /\ z.out = x.out /\ SameTalk(x, z) /\ SameData(x, z)
             /\ z.be = x.be /\ z.hello = x.hello /\ z.sent = x.sent /\ z.close_sent = x.close_sent
             /\ z.call = IF status = "want" THEN "handshake pump" ELSE "none"
             /\ z.ended = IF status = "failed" THEN "handshake" ELSE x.ended
             /\ z.socket = IF status = "failed" THEN FALSE ELSE x.socket
<1> DEFINE z == Concluded(x, status)
<1>1. /\ DOMAIN z = SessionFields /\ z.in = x.in /\ z.rec = x.rec /\ z.out = x.out
      /\ SameTalk(x, z) /\ SameData(x, z) /\ z.be = x.be /\ z.hello = x.hello /\ z.sent = x.sent
      /\ z.close_sent = x.close_sent /\ z.call = IF status = "want" THEN "handshake pump" ELSE "none"
      /\ z.ended = IF status = "failed" THEN "handshake" ELSE x.ended
      /\ z.socket = IF status = "failed" THEN FALSE ELSE x.socket
  BY DEF Concluded, Sound, SessionFields, SameTalk, SameData
<1> HIDE DEF z
<1>2. Resumed(x, z)
  BY <1>1 DEF Resumed, Sound, Calls, Endings
<1> QED BY <1>1, <1>2, Resumes DEF z

\* What a call that has not begun to talk data leaves to Puts.
LEMMA PutsResumes ==
  ASSUME NEW old, NEW x, NEW z, Puts(old, x), z.out = x.out, z.sent = x.sent, z.close_sent = x.close_sent
  PROVE  Puts(old, z)
BY DEF Puts

LEMMA HandshakeKeeps ==
  ASSUME SessionInv, NEW e \in Sides, Handshake(e)
  PROVE  SessionInv'
<1> DEFINE old == session[e]
           r == HandshakeCall(Pulled(session[e]), e)
           x == r.x
           st == r.status
           z == Concluded(x, st)
           w == session[Peer(e)]
<1>1. SessionTypeOK /\ DataInv /\ PhaseInv /\ StandsInv /\ old.call = "handshake"
  BY DEF SessionInv, Handshake
<1>2. Turned(e, x, st)
  <2>1. CASE e = "client"
    BY <1>1, <2>1, ClientTurns
  <2>2. CASE e = "server"
    BY <1>1, <2>2, ServerTurns
  <2> QED BY <2>1, <2>2 DEF Sides
<1>3. /\ SendStored(e, z, TRUE) /\ UNCHANGED <<trust, cut>>
      /\ fin' = IF st = "failed" THEN [fin EXCEPT ![Peer(e)] = TRUE] ELSE fin
  BY DEF Handshake, Flushed, Concluded
<1> HIDE DEF z, st, x, r
<1>4. /\ Sound(x) /\ SameBase(old, x) /\ SameData(old, x) /\ st \in {"ok", "want", "failed"}
      /\ (st = "ok" <=> x.done)
      /\ (st = "want" => Len(Stock(x)) <= 1 /\ x.phase \in {"start", "sent"})
      /\ (st = "failed" => ~trust) /\ Puts(old, x) /\ Agreed(e, x)
      /\ Arrives(w.sent, w.close_sent, x.got, x.plain, x.closed, Stock(x) \o wire[e], ~cut)
  BY <1>2 DEF Turned
<1>5. /\ Sound(z) /\ Stock(z) = Stock(x) /\ z.out = x.out /\ SameTalk(x, z) /\ SameData(x, z)
      /\ z.be = x.be /\ z.hello = x.hello /\ z.sent = x.sent /\ z.close_sent = x.close_sent
      /\ z.call = IF st = "want" THEN "handshake pump" ELSE "none"
      /\ z.ended = IF st = "failed" THEN "handshake" ELSE x.ended
      /\ z.socket = IF st = "failed" THEN FALSE ELSE x.socket
  BY <1>4, ConcludedIs DEF z
<1>6. Agreed(e, z) /\ Puts(old, z)
  BY <1>4, <1>5, AgreedResumes, PutsResumes
<1>7. Arrives(w.sent, w.close_sent, z.got, z.plain, z.closed, Stock(z) \o wire[e], ~cut)
  BY <1>4, <1>5 DEF SameData
<1>8. /\ z.be = old.be /\ z.hello = old.hello /\ z.close_sent = old.close_sent /\ x.ended = old.ended
      /\ x.socket = old.socket
  BY <1>4, <1>5 DEF SameBase
<1>9. Stands(z)
  <2>1. Stands(old)
    BY <1>1 DEF StandsInv
  <2>2. Sound(old)
    BY <1>1, PipeIs
  <2>3. ~old.done /\ old.sent = <<>> /\ old.got = <<>> /\ old.plain = <<>> /\ ~old.close_sent /\ ~old.closed
        /\ old.ended = "open" /\ old.socket
    BY <1>1, <2>1 DEF Stands
  <2>4. z.sent = old.sent /\ z.got = old.got /\ z.plain = old.plain /\ z.closed = old.closed /\ z.done = x.done
        /\ z.phase = x.phase
    BY <1>4, <1>5 DEF SameBase, SameData, SameTalk
  <2>5. z.ended # "closed" /\ (z.done => z.ended = "open") /\ (z.call # "none" => z.ended = "open" /\ z.socket)
    BY <1>4, <1>5, <1>8, <2>3, <2>4
  <2>6. ~z.done => z.call \in {"none", "handshake", "handshake pump"}
    BY <1>5
  <2>7. z.done => z.call \in {"none", "read", "read pump"}
    BY <1>4, <1>5, <2>4
  <2>8. z.call \in {"handshake", "handshake pump"} => z.phase \in {"start", "sent"}
    BY <1>4, <1>5, <2>4
  <2>9. z.call \in {"handshake pump", "read pump"} => Len(Stock(z)) <= 1
    BY <1>4, <1>5
  <2>10. z.call # "read pump"
    BY <1>5
  <2> HIDE DEF old
  <2> QED BY <1>8, <2>3, <2>4, <2>5, <2>6, <2>7, <2>8, <2>9, <2>10 DEF Stands
<1>10. old.socket /\ z.ended # "eof"
  BY <1>1, <1>5, <1>8 DEF StandsInv, Stands
<1>11. fin' = fin \/ (fin' = [fin EXCEPT ![Peer(e)] = TRUE] /\ (z.close_sent \/ ~z.socket))
  BY <1>3, <1>5
<1> HIDE DEF w
<1>12. TRUE \in BOOLEAN /\ (old.close_sent => z.close_sent)
  BY <1>8
<1> QED BY <1>3, <1>5, <1>6, <1>7, <1>8, <1>9, <1>10, <1>11, <1>12, InvStored DEF w

-----------------------------------------------------------------------------
\* An established side only gets data, and may read some of it.
LEMMA AgreedReads ==
  ASSUME SessionTypeOK, PhaseInv, NEW e \in Sides, session[e].done, NEW x, x.hello = session[e].hello,
         SameTalk(session[e], x), Content(x.out) = <<>>, OnlyData(Stock(x) \o wire[e]),
         Pipe(e) = <<>> => Stock(x) \o wire[e] = <<>>
  PROVE  Agreed(e, x)
<1> DEFINE c == session["client"]
           v == session["server"]
           p == Pipe("server")
           q == Pipe("client")
           mine == Stock(x) \o wire[e]
           theirs == IF ~cut THEN Pipe(Peer(e)) \o Content(x.out) ELSE Pipe(Peer(e))
           whole == ~cut
           ok == trust
           old == session[e]
<1>1. Phases(c, v, p, q, whole, ok)
  BY DEF PhaseInv
<1>2. Peer(e) \in Sides
  BY DEF Sides, Peer
<1>3. theirs = Pipe(Peer(e))
  <2>1. Pipe(Peer(e)) \o <<>> = Pipe(Peer(e))
    BY <1>2, PipeIs, ConcatEmptySeq
  <2> QED BY <2>1
<1>4. x.phase = old.phase /\ x.done = old.done /\ x.chosen = old.chosen
  BY DEF SameTalk
<1>5. CASE e = "client"
  <2>1. theirs = p /\ old = c /\ Pipe(e) = q
    BY <1>3, <1>5 DEF Peer
  <2>2. c.done /\ x.hello = c.hello /\ OnlyData(mine) /\ (q = <<>> => mine = <<>>)
    BY <2>1
  <2>3. x.phase = c.phase /\ x.done = c.done /\ x.chosen = c.chosen
    BY <1>4, <2>1
  <2> HIDE DEF c, v, p, q, mine, theirs, whole, ok, old
  <2>4. Phases(x, v, p, mine, whole, ok)
    BY <1>1, <2>2, <2>3, PhaseClientReads
  <2> QED BY <1>5, <2>1, <2>4 DEF Agreed, mine, theirs, v, whole, ok
<1>6. CASE e = "server"
  <2>1. theirs = q /\ old = v /\ Pipe(e) = p
    BY <1>3, <1>6 DEF Peer
  <2>2. v.done /\ OnlyData(mine)
    BY <2>1
  <2>3. x.phase = v.phase /\ x.done = v.done /\ x.chosen = v.chosen
    BY <1>4, <2>1
  <2> HIDE DEF c, v, p, q, mine, theirs, whole, ok, old
  <2>4. Phases(c, x, mine, q, whole, ok)
    BY <1>1, <2>2, <2>3, PhaseServerReads
  <2> QED BY <1>6, <2>1, <2>4 DEF Agreed, mine, theirs, c, whole, ok
<1> QED BY <1>5, <1>6 DEF Sides

LEMMA DataComes ==
  ASSUME PhaseInv, NEW e \in Sides, session[e].done
  PROVE  OnlyData(Pipe(e))
<1> DEFINE c == session["client"]
           v == session["server"]
           p == Pipe("server")
           q == Pipe("client")
           whole == ~cut
           ok == trust
<1>1. Phases(c, v, p, q, whole, ok)
  BY DEF PhaseInv
<1>2. CASE e = "client"
  <2>1. c.done
    BY <1>2
  <2> HIDE DEF c, v, p, q, whole, ok
  <2>2. OnlyData(q)
    BY <1>1, <2>1, PhaseClientReads
  <2> QED BY <1>2, <2>2 DEF q
<1>3. CASE e = "server"
  <2>1. v.done
    BY <1>3
  <2> HIDE DEF c, v, p, q, whole, ok
  <2>2. OnlyData(p)
    BY <1>1, <2>1, PhaseServerReads
  <2> QED BY <1>3, <2>2 DEF p
<1> QED BY <1>2, <1>3 DEF Sides

\* It may put a record of data or a close_notify on the stream.
LEMMA AgreedWrites ==
  ASSUME SessionTypeOK, DataInv, PhaseInv, NEW e \in Sides, session[e].done, NEW x, x.hello = session[e].hello,
         SameTalk(session[e], x), Stock(x) = Stock(session[e]), Content(x.out) \in Seq(Units), Piece(Content(x.out))
  PROVE  Agreed(e, x)
<1> DEFINE c == session["client"]
           v == session["server"]
           p == Pipe("server")
           q == Pipe("client")
           o == Content(x.out)
           mine == Stock(x) \o wire[e]
           theirs == IF ~cut THEN Pipe(Peer(e)) \o o ELSE Pipe(Peer(e))
           whole == ~cut
           ok == trust
           old == session[e]
<1>1. Phases(c, v, p, q, whole, ok)
  BY DEF PhaseInv
<1>2. Peer(e) \in Sides /\ Peer(Peer(e)) = e /\ "server" \in Sides /\ "client" \in Sides
  BY DEF Sides, Peer
<1>3. mine = Pipe(e) /\ p \in Seq(Units) /\ q \in Seq(Units) /\ o \in Seq(Units)
  BY <1>2, PipeIs DEF Pipe
<1>5. whole => \A d \in Sides : Even(Pipe(d))
  <2> SUFFICES ASSUME whole, NEW d \in Sides PROVE Even(Pipe(d))
    OBVIOUS
  <2> DEFINE n == Len(session[Peer(d)].sent)
             b == Len(session[d].got) + Len(session[d].plain)
             a == Pipe(d)
  <2>1. Flows(a, b, n, ~cut)
    BY DEF DataInv, Arrives
  <2>2. ~cut = TRUE
    OBVIOUS
  <2> HIDE DEF a, b, n
  <2>3. Flows(a, b, n, TRUE)
    BY <2>1, <2>2
  <2> QED BY <2>3, FlowIsEven DEF a, Even
<1>6. whole \in BOOLEAN /\ Piece(o)
  OBVIOUS
<1>7. CASE e = "client"
  <2>1. Onto(p, o, theirs, whole) /\ old = c /\ mine = q
    BY <1>3, <1>7 DEF Peer, Onto
  <2>2. c.done /\ x.hello = c.hello
    BY <2>1
  <2>3. SameTalk(c, x)
    BY <2>1
  <2>4. whole => Even(p)
    BY <1>2, <1>5
  <2> HIDE DEF c, v, p, q, o, mine, theirs, whole, ok, old
  <2>5. Phases(x, v, theirs, q, whole, ok)
    BY <1>1, <1>3, <1>6, <2>1, <2>2, <2>3, <2>4, PhaseClientWrites
  <2>6. Phases(x, v, theirs, mine, whole, ok)
    BY <2>1, <2>5
  <2> QED BY <1>7, <2>6 DEF Agreed, mine, theirs, v, whole, ok, o
<1>8. CASE e = "server"
  <2>1. Onto(q, o, theirs, whole) /\ old = v /\ mine = p
    BY <1>3, <1>8 DEF Peer, Onto
  <2>2. v.done
    BY <2>1
  <2>3. SameTalk(v, x)
    BY <2>1
  <2>4. whole => Even(q)
    BY <1>2, <1>5
  <2> HIDE DEF c, v, p, q, o, mine, theirs, whole, ok, old
  <2>5. Phases(c, x, p, theirs, whole, ok)
    BY <1>1, <1>3, <1>6, <2>1, <2>2, <2>3, <2>4, PhaseServerWrites
  <2>6. Phases(c, x, mine, theirs, whole, ok)
    BY <2>1, <2>5
  <2> QED BY <1>8, <2>6 DEF Agreed, mine, theirs, c, whole, ok, o
<1> QED BY <1>7, <1>8 DEF Sides

\* What a side is told to know of what was written to it and by it.
LEMMA TalkIs ==
  ASSUME SessionInv, NEW e \in Sides
  PROVE  LET x == session[e]
             w == session[Peer(e)]
         IN  /\ Sound(x) /\ Content(x.out) = <<>> /\ Stands(x) /\ Sound(w) /\ wire[e] \in Seq(Units)
             /\ \A i \in 1..Len(x.sent) : x.sent[i] = i
             /\ Arrives(w.sent, w.close_sent, x.got, x.plain, x.closed, Stock(x) \o wire[e], ~cut)
<1> DEFINE x == session[e]
           w == session[Peer(e)]
<1>1. Peer(e) \in Sides /\ Peer(Peer(e)) = e
  BY DEF Sides, Peer
<1>2. SessionTypeOK /\ DataInv /\ StandsInv
  BY DEF SessionInv
<1>3. Sound(x) /\ Content(x.out) = <<>> /\ Sound(w) /\ wire[e] \in Seq(Units)
  BY <1>1, <1>2, PipeIs
<1>4. Stands(x)
  BY <1>2 DEF StandsInv
<1>5. Arrives(w.sent, w.close_sent, x.got, x.plain, x.closed, Stock(x) \o wire[e], ~cut)
  BY <1>2 DEF DataInv, Pipe
<1>6. \A i \in 1..Len(x.sent) : x.sent[i] = i
  <2>1. Arrives(x.sent, x.close_sent, w.got, w.plain, w.closed, Pipe(Peer(e)), ~cut)
    BY <1>1, <1>2 DEF DataInv
  <2> QED BY <2>1 DEF Arrives
<1> QED BY <1>3, <1>4, <1>5, <1>6

\* What a read stores for a status.
ReadLeft(x, status) ==
    CASE status = "count" -> [x EXCEPT !.call = "none"]
      [] status = "want" -> [x EXCEPT !.call = "read pump"]
      [] OTHER -> [x EXCEPT !.call = "none", !.ended = status]

LEMMA ReadLeftIs ==
  ASSUME NEW x, Sound(x), NEW status \in {"count", "want", "closed"}
  PROVE  LET z == ReadLeft(x, status)
         IN  /\ Resumed(x, z) /\ z.close_sent = x.close_sent /\ z.socket = x.socket
             /\ z.call = IF status = "want" THEN "read pump" ELSE "none"
             /\ z.ended = IF status = "closed" THEN "closed" ELSE x.ended
<1> DEFINE z == ReadLeft(x, status)
<1>1. /\ DOMAIN z = SessionFields /\ z.in = x.in /\ z.rec = x.rec /\ z.out = x.out
      /\ SameTalk(x, z) /\ SameData(x, z) /\ z.be = x.be /\ z.hello = x.hello /\ z.sent = x.sent
      /\ z.close_sent = x.close_sent /\ z.call = IF status = "want" THEN "read pump" ELSE "none"
      /\ z.ended = IF status = "closed" THEN "closed" ELSE x.ended
      /\ z.socket = x.socket
  BY DEF ReadLeft, Sound, SessionFields, SameTalk, SameData
<1> HIDE DEF z
<1>2. Resumed(x, z)
  BY <1>1 DEF Resumed, Sound, Calls, Endings
<1> QED BY <1>1, <1>2 DEF z

LEMMA ReadKeeps ==
  ASSUME SessionInv, NEW e \in Sides, Read(e)
  PROVE  SessionInv'
<1> DEFINE old == session[e]
           w == session[Peer(e)]
           tail == wire[e]
           whole == ~cut
           p == Stock(old) \o tail
<1>1. /\ SessionTypeOK /\ PhaseInv /\ old.done /\ old.ended = "open" /\ old.socket
      /\ UNCHANGED <<fin, trust, cut>>
  BY DEF SessionInv, Read, Usable
<1>2. /\ Sound(old) /\ Content(old.out) = <<>> /\ Stands(old) /\ Sound(w) /\ tail \in Seq(Units)
      /\ Arrives(w.sent, w.close_sent, old.got, old.plain, old.closed, p, whole)
  BY TalkIs
<1>3. OnlyData(p)
  BY <1>1, DataComes DEF Pipe
<1>4. PICK max \in 1..2 : SendStored(e, ReadLeft(ReadCall(Pulled(old), max).x, ReadCall(Pulled(old), max).status),
                                     ReadCall(Pulled(old), max).status = "want")
  BY DEF Read, ReadLeft
<1> DEFINE r == ReadCall(Pulled(old), max)
           x == r.x
           st == r.status
           z == ReadLeft(x, st)
           sent == w.sent
           cs == w.close_sent
<1>5. sent \in Seq(Nat) /\ cs \in BOOLEAN /\ max \in Nat \ {0} /\ whole \in BOOLEAN
  BY <1>2 DEF Sound
<1>6. Answered(old, r, sent, cs, tail, whole)
  <2> HIDE DEF old, sent, cs, tail, whole, w
  <2>1. OnlyData(Stock(old) \o tail) /\ Arrives(sent, cs, old.got, old.plain, old.closed, Stock(old) \o tail, whole)
    BY <1>2, <1>3 DEF sent, cs
  <2> QED BY <1>2, <1>5, <2>1, ReadIs
<1> HIDE DEF r
<1>7. /\ Sound(x) /\ SameBase(old, x) /\ SameTalk(old, x) /\ x.out = old.out
      /\ OnlyData(Stock(x) \o tail) /\ (p = <<>> => Stock(x) \o tail = <<>>)
      /\ Arrives(sent, cs, x.got, x.plain, x.closed, Stock(x) \o tail, whole)
      /\ st \in {"count", "want", "closed"}
      /\ (st = "closed" => x.closed /\ x.plain = <<>>)
      /\ (st = "want" => Len(Stock(x)) <= 1 /\ ~x.closed /\ x.plain = <<>>)
  BY <1>6 DEF Answered, Reads
<1> HIDE DEF x, st
<1>8. /\ Resumed(x, z) /\ z.close_sent = x.close_sent /\ z.socket = x.socket
      /\ z.call = IF st = "want" THEN "read pump" ELSE "none"
      /\ z.ended = IF st = "closed" THEN "closed" ELSE x.ended
  <2>1. Sound(x) /\ st \in {"count", "want", "closed"}
    BY <1>7
  <2> QED BY <2>1, ReadLeftIs
<1>9. SendStored(e, z, st = "want")
  BY <1>4 DEF r, x, st
<1> HIDE DEF z
<1>10. /\ Sound(z) /\ Stock(z) = Stock(x) /\ z.out = x.out /\ SameTalk(x, z) /\ SameData(x, z)
       /\ z.be = x.be /\ z.hello = x.hello /\ z.sent = x.sent
  BY <1>7, <1>8, Resumes
<1>11. /\ z.be = old.be /\ z.hello = old.hello /\ z.sent = old.sent /\ z.close_sent = old.close_sent
       /\ Content(z.out) = <<>> /\ x.ended = old.ended /\ z.socket = old.socket
  BY <1>2, <1>7, <1>8, <1>10 DEF SameBase
<1>12. Puts(old, z)
  BY <1>11 DEF Puts
<1>13. Agreed(e, z)
  <2>1. SameTalk(old, z)
    BY <1>7, <1>10 DEF SameTalk
  <2>2. /\ OnlyData(Stock(z) \o tail) /\ (Pipe(e) = <<>> => Stock(z) \o tail = <<>>)
    BY <1>7, <1>10 DEF Pipe
  <2> QED BY <1>1, <1>11, <2>1, <2>2, AgreedReads
<1>14. Arrives(w.sent, w.close_sent, z.got, z.plain, z.closed, Stock(z) \o wire[e], ~cut)
  BY <1>7, <1>10 DEF SameData
<1>15. Stands(z)
  <2>1. z.done
    BY <1>1, <1>7, <1>10 DEF SameTalk
  <2>2. z.call \in {"none", "read pump"} /\ (z.call = "read pump" => st = "want")
    BY <1>8
  <2>3. z.call = "read pump" => Len(Stock(z)) <= 1 /\ ~z.closed /\ z.plain = <<>>
    BY <1>7, <1>10, <2>2 DEF SameData
  <2>4. z.ended = "closed" => z.closed /\ z.plain = <<>>
    BY <1>1, <1>7, <1>8, <1>10, <1>11 DEF SameData
  <2>5. z.ended \in {"open", "closed"} /\ z.socket /\ (z.call # "none" => z.ended = "open")
    BY <1>1, <1>8, <1>11, <2>2
  <2> QED BY <2>1, <2>2, <2>3, <2>4, <2>5 DEF Stands
<1>16. z.ended # "eof"
  BY <1>1, <1>8, <1>11
<1> DEFINE flush == st = "want"
<1>17. flush \in BOOLEAN /\ SendStored(e, z, flush)
  BY <1>9
<1> HIDE DEF flush
<1> QED BY <1>1, <1>10, <1>11, <1>12, <1>13, <1>14, <1>15, <1>16, <1>17, InvStored

\* A call of an established side that puts a record of data or a close_notify on
\* the stream, or nothing.
LEMMA TalkKeeps ==
  ASSUME SessionInv, NEW e \in Sides, Usable(e), session[e].call = "none", NEW x, Sound(x),
         x.be = session[e].be, x.hello = session[e].hello, SameTalk(session[e], x), SameData(session[e], x),
         Stock(x) = Stock(session[e]), x.call = "none", x.ended = session[e].ended,
         Puts(session[e], x), Content(x.out) \in Seq(Units), Piece(Content(x.out)), SendStored(e, x, TRUE),
         UNCHANGED <<trust, cut>>, session[e].close_sent => x.close_sent,
         fin' = fin \/ (fin' = [fin EXCEPT ![Peer(e)] = TRUE] /\ x.close_sent)
  PROVE  SessionInv'
<1> DEFINE old == session[e]
           w == session[Peer(e)]
<1>1. /\ SessionTypeOK /\ DataInv /\ PhaseInv /\ old.done /\ old.ended = "open" /\ old.socket
  BY DEF SessionInv, Usable
<1>2. /\ Stands(old) /\ Arrives(w.sent, w.close_sent, old.got, old.plain, old.closed, Stock(old) \o wire[e], ~cut)
  BY TalkIs
<1>3. Agreed(e, x)
  BY <1>1, AgreedWrites
<1>4. Arrives(w.sent, w.close_sent, x.got, x.plain, x.closed, Stock(x) \o wire[e], ~cut)
  BY <1>2 DEF SameData
<1>5. x.done
  BY <1>1 DEF SameTalk
<1>6. Stands(x)
  BY <1>1, <1>5 DEF Stands
<1>7. TRUE \in BOOLEAN /\ x.ended # "eof"
  BY <1>1
<1> QED BY <1>1, <1>3, <1>4, <1>6, <1>7, InvStored

LEMMA SendBytesKeeps ==
  ASSUME MessagesHold, SessionInv, NEW e \in Sides, SendBytes(e)
  PROVE  SessionInv'
<1> DEFINE old == session[e]
<1>1. /\ Usable(e) /\ old.call = "none" /\ ~old.close_sent /\ UNCHANGED <<fin, trust, cut>>
  BY DEF SendBytes
<1>2. Sound(old) /\ Content(old.out) = <<>> /\ \A i \in 1..Len(old.sent) : old.sent[i] = i
  BY TalkIs
<1>3. PICK n \in {1, 2} : SendStored(e, WriteCall(old, n), TRUE)
  <2>1. \A n \in 1..2 : n \in {1, 2}
    OBVIOUS
  <2> QED BY <2>1 DEF SendBytes
<1> DEFINE x == WriteCall(old, n)
           o == Content(x.out)
<1>4. /\ Sound(x) /\ Stock(x) = Stock(old) /\ SameTalk(old, x) /\ SameData(old, x)
      /\ x.be = old.be /\ x.hello = old.hello /\ x.close_sent = old.close_sent /\ x.call = old.call
      /\ x.ended = old.ended
      /\ \A i \in 1..Len(x.sent) : x.sent[i] = i
      /\ \E b \in Seq(Nat) : /\ o = Record("data", b) /\ Len(b) > 0
                             /\ Len(x.sent) = Len(old.sent) + Len(b)
                             /\ \A i \in 1..Len(b) : b[i] = Len(old.sent) + i
  BY <1>2, WriteIs
<1>5. SendStored(e, x, TRUE)
  BY <1>3
<1> HIDE DEF x
<1>6. PICK b \in Seq(Nat) : /\ o = Record("data", b) /\ Len(b) > 0
                            /\ Len(x.sent) = Len(old.sent) + Len(b)
                            /\ \A i \in 1..Len(b) : b[i] = Len(old.sent) + i
  BY <1>4
<1>7. b \in Payloads
  BY DEF Payloads
<1>8. o \in Seq(Units) /\ Len(o) = 2 /\ o[1][1] = "data" /\ o[1][2] = b
  BY <1>6, <1>7, RecordIs
<1> HIDE DEF o
<1>9. Piece(o)
  BY <1>8 DEF Piece
<1>10. Adds(old.sent, x.sent, x.close_sent, o)
  <2>1. o[1][1] = "data" /\ o[1][2] = b /\ ~x.close_sent
    <3>1. o[1][1] = "data" /\ o[1][2] = b
      BY <1>8
    <3>2. ~x.close_sent
      BY <1>1, <1>4
    <3> QED BY <3>1, <3>2
  <2>2. ~("data" = "close")
    OBVIOUS
  <2> QED BY <1>4, <1>6, <2>1, <2>2 DEF Adds
<1>11. Puts(old, x)
  BY <1>1, <1>6, <1>7, <1>10 DEF Puts, o
<1>12. o \in Seq(Units)
  BY <1>8
<1> QED BY <1>1, <1>4, <1>5, <1>9, <1>11, <1>12, TalkKeeps DEF o

\* What shutdown_write and close store: the close_notify is queued once.
Closing(x, socket) ==
    [(IF x.close_sent THEN x ELSE Emit(x, "close", "")) EXCEPT !.close_sent = TRUE, !.socket = socket]

LEMMA ClosingIs ==
  ASSUME NEW x, Sound(x), Content(x.out) = <<>>, \A i \in 1..Len(x.sent) : x.sent[i] = i,
         NEW socket, socket \in BOOLEAN, NEW z, z = Closing(x, socket)
  PROVE  /\ Sound(z) /\ Stock(z) = Stock(x) /\ SameTalk(x, z) /\ SameData(x, z)
         /\ z.be = x.be /\ z.hello = x.hello /\ z.close_sent /\ z.call = x.call /\ z.ended = x.ended
         /\ Puts(x, z) /\ Content(z.out) \in Seq(Units) /\ Piece(Content(z.out))
<1> DEFINE m == IF x.close_sent THEN x ELSE Emit(x, "close", "")
           r == Record("close", "")
<1>1. "" \in Payloads
  BY DEF Payloads
<1>2. /\ Sound(m) /\ Others(x, m) /\ Stock(m) = Stock(x)
      /\ x.close_sent => Content(m.out) = <<>>
      /\ ~x.close_sent => Content(m.out) = r
  <2>1. CASE x.close_sent
    BY <2>1 DEF Others, SameBase, SameTalk, SameData
  <2>2. CASE ~x.close_sent
    BY <1>1, <2>2, EmitIs
  <2> QED BY <2>1, <2>2
<1>3. z = [m EXCEPT !.close_sent = TRUE, !.socket = socket]
  BY DEF Closing
<1> HIDE DEF m
<1>4. /\ DOMAIN z = SessionFields /\ z.in = m.in /\ z.rec = m.rec /\ z.out = m.out
      /\ SameTalk(m, z) /\ SameData(m, z) /\ z.be = m.be /\ z.hello = m.hello /\ z.sent = m.sent
      /\ z.close_sent = TRUE /\ z.call = m.call /\ z.ended = m.ended /\ z.socket = socket
  BY <1>2, <1>3 DEF Sound, SessionFields, SameTalk, SameData
<1>5. Resumed(m, z)
  BY <1>2, <1>4 DEF Resumed, Sound
<1>6. Sound(z) /\ Stock(z) = Stock(m) /\ z.out = m.out
  BY <1>2, <1>5, Resumes
<1>7. /\ Stock(z) = Stock(x) /\ SameTalk(x, z) /\ SameData(x, z) /\ z.be = x.be /\ z.hello = x.hello
      /\ z.call = x.call /\ z.ended = x.ended /\ z.sent = x.sent
  BY <1>2, <1>4, <1>6 DEF Others, SameBase, SameTalk, SameData
<1>8. CASE x.close_sent
  <2>1. Content(z.out) = <<>> /\ x.close_sent = TRUE
    BY <1>2, <1>6, <1>8 DEF Sound
  <2>2. z.sent = x.sent /\ z.close_sent = x.close_sent /\ z.close_sent
    BY <1>4, <1>7, <2>1
  <2>3. Puts(x, z)
    BY <2>1, <2>2 DEF Puts
  <2>4. Piece(Content(z.out))
    BY <2>1 DEF Piece
  <2>5. Content(z.out) \in Seq(Units)
    BY <2>1, EmptySeq
  <2> QED BY <1>6, <1>7, <2>2, <2>3, <2>4, <2>5
<1>9. CASE ~x.close_sent
  <2> DEFINE o == Content(z.out)
  <2>1. o = r
    BY <1>2, <1>6, <1>9
  <2>2. r \in Seq(Units) /\ Len(r) = 2 /\ r[1][1] = "close"
    BY <1>1, RecordIs
  <2> HIDE DEF r
  <2>3. Piece(r)
    BY <2>2 DEF Piece
  <2>4. Adds(x.sent, z.sent, z.close_sent, r)
    <3>1. r[1][1] = "close"
      BY <2>2
    <3>2. ~("close" = "data")
      OBVIOUS
    <3> QED BY <1>4, <1>7, <3>1, <3>2 DEF Adds
  <2> HIDE DEF o
  <2>5. Puts(x, z)
    <3>1. Adds(x.sent, z.sent, z.close_sent, Content(z.out))
      BY <2>1, <2>4 DEF o
    <3>2. Content(z.out) = Record("close", "")
      BY <2>1 DEF o, r
    <3> QED BY <1>1, <1>9, <3>1, <3>2 DEF Puts
  <2>6. r \in Seq(Units)
    BY <2>2
  <2> QED BY <1>4, <1>6, <1>7, <2>1, <2>3, <2>5, <2>6 DEF o
<1> QED BY <1>8, <1>9

LEMMA ShutdownKeeps ==
  ASSUME SessionInv, NEW e \in Sides, ShutdownWrite(e) \/ Close(e)
  PROVE  SessionInv'
<1> DEFINE old == session[e]
<1>1. /\ Usable(e) /\ old.call = "none" /\ UNCHANGED <<trust, cut>> /\ fin' = [fin EXCEPT ![Peer(e)] = TRUE]
  BY DEF ShutdownWrite, Close
<1>2. Sound(old) /\ Content(old.out) = <<>> /\ \A i \in 1..Len(old.sent) : old.sent[i] = i
  BY TalkIs
<1>3. PICK socket \in BOOLEAN : SendStored(e, Closing(old, socket), TRUE)
  <2>1. CASE Close(e)
    <3>1. SendStored(e, Closing(old, FALSE), TRUE)
      BY <2>1 DEF Close, Closing
    <3> QED BY <3>1
  <2>2. CASE ShutdownWrite(e)
    <3> DEFINE m == Emit(old, "close", "")
    <3>1. SendStored(e, [m EXCEPT !.close_sent = TRUE], TRUE) /\ ~old.close_sent
      BY <2>2 DEF ShutdownWrite
    <3>2. "" \in Payloads
      BY DEF Payloads
    <3>3. Sound(m)
      BY <1>2, <3>2, EmitIs
    <3>4. m.socket \in BOOLEAN
      BY <3>3 DEF Sound
    <3>5. Closing(old, m.socket) = [m EXCEPT !.close_sent = TRUE, !.socket = m.socket]
      BY <3>1 DEF Closing
    <3> HIDE DEF m
    <3>6. [m EXCEPT !.close_sent = TRUE, !.socket = m.socket] = [m EXCEPT !.close_sent = TRUE]
      BY <3>3 DEF Sound, SessionFields
    <3> QED BY <3>1, <3>4, <3>5, <3>6
  <2> QED BY <2>1, <2>2
<1> DEFINE x == Closing(old, socket)
<1>4. SendStored(e, x, TRUE)
  BY <1>3
<1>5. x = Closing(old, socket) /\ socket \in BOOLEAN
  OBVIOUS
<1> HIDE DEF x
<1>6. /\ Sound(x) /\ Stock(x) = Stock(old) /\ SameTalk(old, x) /\ SameData(old, x)
      /\ x.be = old.be /\ x.hello = old.hello /\ x.close_sent /\ x.call = old.call /\ x.ended = old.ended
      /\ Puts(old, x) /\ Content(x.out) \in Seq(Units) /\ Piece(Content(x.out))
  BY <1>2, <1>5, ClosingIs
<1> QED BY <1>1, <1>4, <1>6, TalkKeeps

\* A step that moves what is on its way and says nothing.
LEMMA PassingKeeps ==
  ASSUME SessionInv, NEW e \in Sides, DOMAIN session' = Sides, session'[Peer(e)] = session[Peer(e)],
         IsSession(session'[e]), session'[e].be = session[e].be, session'[e].hello = session[e].hello,
         session'[e].sent = session[e].sent, session'[e].close_sent = session[e].close_sent,
         SameTalk(session[e], session'[e]), SameData(session[e], session'[e]),
         Pipe(e)' = Pipe(e), Pipe(Peer(e))' = Pipe(Peer(e)), wire' \in [Sides -> Seq(Units)],
         fin' \in [Sides -> BOOLEAN], UNCHANGED <<trust, cut>>, Stands(session'[e]), EndInv'
  PROVE  SessionInv'
<1> DEFINE o == Peer(e)
           x == session[e]
           y == session'[e]
           w == session[o]
           whole == ~cut
           ok == trust
<1>1. SessionTypeOK /\ DataInv /\ PhaseInv /\ StandsInv
  BY DEF SessionInv
<1>2. o \in Sides /\ o # e /\ Peer(o) = e /\ \A d \in Sides : d = e \/ d = o
  BY DEF Sides, Peer
<1>3. /\ y.phase = x.phase /\ y.done = x.done /\ y.chosen = x.chosen /\ y.hello = x.hello
      /\ y.plain = x.plain /\ y.got = x.got /\ y.closed = x.closed /\ session'[o] = w
      /\ y.sent = x.sent /\ y.close_sent = x.close_sent /\ y.be = x.be
  BY DEF SameTalk, SameData
<1>4. SessionTypeOK'
  <2>1. \A d \in Sides : session'[d].be = session[d].be /\ session'[d].hello = session[d].hello /\ IsSession(session'[d])
    BY <1>1, <1>2, <1>3 DEF SessionTypeOK
  <2>2. "client" \in Sides
    BY DEF Sides
  <2> QED BY <1>1, <2>1, <2>2 DEF SessionTypeOK
<1>5. StandsInv'
  <2>1. Stands(w)
    BY <1>1, <1>2 DEF StandsInv
  <2>2. \A d \in Sides : Stands(session'[d])
    BY <1>2, <1>3, <2>1
  <2> QED BY <2>2 DEF StandsInv, Stands, Stock, Content
<1>6. DataInv'
  <2>1. Arrives(w.sent, w.close_sent, x.got, x.plain, x.closed, Pipe(e), whole)
    BY <1>1 DEF DataInv
  <2>2. Arrives(x.sent, x.close_sent, w.got, w.plain, w.closed, Pipe(o), whole)
    BY <1>1, <1>2 DEF DataInv
  <2>3. Arrives(w.sent, w.close_sent, y.got, y.plain, y.closed, Pipe(e)', whole')
    BY <1>3, <2>1
  <2>4. Arrives(y.sent, y.close_sent, w.got, w.plain, w.closed, Pipe(o)', whole')
    BY <1>3, <2>2
  <2>5. ASSUME NEW d \in Sides
        PROVE  Arrives(session'[Peer(d)].sent, session'[Peer(d)].close_sent, session'[d].got, session'[d].plain,
                       session'[d].closed, Pipe(d)', ~cut')
    <3>1. CASE d = e
      BY <1>3, <2>3, <3>1
    <3>2. CASE d = o
      <4>1. Peer(d) = e /\ session'[d] = w
        BY <1>2, <1>3, <3>2
      <4> QED BY <2>4, <3>2, <4>1
    <3> QED BY <1>2, <3>1, <3>2
  <2> QED BY <2>5 DEF DataInv
<1>7. PhaseInv'
  <2> DEFINE c == session["client"]
             v == session["server"]
             c2 == session'["client"]
             v2 == session'["server"]
             p == Pipe("server")
             q == Pipe("client")
             p2 == Pipe("server")'
             q2 == Pipe("client")'
  <2>1. Phases(c, v, p, q, whole, ok)
    BY <1>1 DEF PhaseInv
  <2>2. p2 = p /\ q2 = q
    <3>1. (e = "client" /\ o = "server") \/ (e = "server" /\ o = "client")
      BY DEF Sides, Peer
    <3> QED BY <3>1
  <2>3. /\ c2.hello = c.hello /\ c2.phase = c.phase /\ c2.done = c.done /\ c2.chosen = c.chosen
        /\ v2.phase = v.phase /\ v2.done = v.done /\ v2.chosen = v.chosen
    <3>1. (e = "client" /\ o = "server") \/ (e = "server" /\ o = "client")
      BY DEF Sides, Peer
    <3> QED BY <1>3, <3>1
  <2> HIDE DEF c, v, c2, v2, p, q, p2, q2, whole, ok
  <2>4. Phases(c2, v2, p, q, whole, ok)
    BY <2>1, <2>3, PhaseKept
  <2>5. Phases(c2, v2, p2, q2, whole, ok)
    BY <2>2, <2>4
  <2> QED BY <2>5 DEF PhaseInv, c2, v2, p2, q2, whole, ok
<1> QED BY <1>4, <1>5, <1>6, <1>7 DEF SessionInv

LEMMA NoPair ==
  ASSUME NEW l \in Nat, l <= 1
  PROVE  (\A j \in 1..l : l # 2 * j) /\ \A k \in Nat : l = 2 * k => k = 0
OBVIOUS

\* Nothing is cut, and less than a record is on its way to a side that has taken
\* all it holds.
ReadOut(x, w, p) ==
    /\ Arrives(w.sent, w.close_sent, x.got, x.plain, x.closed, p, TRUE)
    /\ ~x.closed /\ x.plain = <<>> /\ Len(p) \in Nat /\ Len(p) <= 1

\* It has read all that was written, and the writer has not said that it is done.
LEMMA ReadOutIsAll ==
  ASSUME NEW x, NEW w, NEW p, Sound(x), Sound(w), ReadOut(x, w, p)
  PROVE  ~w.close_sent /\ x.got = w.sent
<1>1. (\A j \in 1..Len(p) : Len(p) # 2 * j) /\ \A k \in Nat : Len(p) = 2 * k => k = 0
  BY NoPair DEF ReadOut
<1>2. ~w.close_sent
  <2>1. w.close_sent => x.closed \/ \E j \in Whole(p) : Len(p) = 2 * j
    BY DEF ReadOut, Arrives
  <2>2. \A j \in Whole(p) : j \in 1..Len(p)
    BY DEF Whole
  <2> QED BY <1>1, <2>1, <2>2 DEF ReadOut
<1>3. x.got \in Seq(Nat) /\ w.sent \in Seq(Nat) /\ Len(x.got) \in Nat /\ Len(w.sent) \in Nat /\ Len(x.plain) = 0
  <2>1. x.got \in Seq(Nat) /\ w.sent \in Seq(Nat) /\ x.plain = <<>>
    BY DEF Sound, ReadOut
  <2> QED BY <2>1, LenProperties, EmptySeq
<1>4. Len(x.got) = Len(w.sent)
  <2>1. Flows(p, Len(x.got) + Len(x.plain), Len(w.sent), TRUE)
    BY DEF ReadOut, Arrives
  <2>2. PICK k \in Nat : \E pos \in [0..k -> Nat] :
          Len(p) = 2 * k /\ pos[0] = Len(x.got) + Len(x.plain) /\ pos[k] = Len(w.sent)
    BY <2>1 DEF Flows
  <2>3. k = 0
    BY <1>1, <2>2
  <2>4. Len(x.got) + Len(x.plain) = Len(w.sent)
    BY <2>2, <2>3
  <2> QED BY <1>3, <2>4
<1>5. (\A i \in 1..Len(w.sent) : w.sent[i] = i) /\ (\A i \in 1..Len(x.got) : x.got[i] = i)
  BY DEF ReadOut, Arrives
<1>6. x.got = w.sent
  <2>1. \A i \in 1..Len(x.got) : x.got[i] = w.sent[i]
    BY <1>4, <1>5
  <2> QED BY <1>3, <1>4, <2>1, SeqEqual
<1> QED BY <1>2, <1>6

\* A side that waits for more when its stream has ended uncut has read all that
\* was written, and its peer is gone and never said that it was done.
LEMMA NothingMore ==
  ASSUME SessionInv, NEW e \in Sides, ~cut, session[e].call = "read pump", wire[e] = <<>>, fin[e]
  PROVE  LeftBehind(session[e], session[Peer(e)])
<1> DEFINE x == session[e]
           w == session[Peer(e)]
           p == Stock(x)
<1>1. /\ Sound(x) /\ Stands(x) /\ Sound(w)
      /\ Arrives(w.sent, w.close_sent, x.got, x.plain, x.closed, p \o wire[e], ~cut)
  BY TalkIs
<1>2. p \in Seq(Units) /\ p \o wire[e] = p
  <2>1. p \in Seq(Units)
    BY <1>1, StockIs
  <2>2. p \o <<>> = p
    BY <2>1, ConcatEmptySeq
  <2> QED BY <2>1, <2>2
<1>3. ~x.closed /\ x.plain = <<>> /\ Len(p) \in Nat /\ Len(p) <= 1
  BY <1>1, <1>2, LenProperties DEF Stands
<1>4. Arrives(w.sent, w.close_sent, x.got, x.plain, x.closed, p, TRUE)
  <2>1. (~cut) = TRUE
    OBVIOUS
  <2> QED BY <1>1, <1>2, <2>1
<1>5. ReadOut(x, w, p)
  BY <1>3, <1>4 DEF ReadOut
<1>6. w.close_sent \/ ~w.socket
  BY DEF SessionInv, EndInv
<1> HIDE DEF x, w, p
<1>7. ~w.close_sent /\ x.got = w.sent
  BY <1>1, <1>5, ReadOutIsAll
<1>8. LeftBehind(x, w)
  BY <1>6, <1>7 DEF LeftBehind
<1> QED BY <1>8 DEF x, w

\* A side that leaves a call, or leaves for good: it takes nothing and says nothing.
LEMMA LeavingKeeps ==
  ASSUME SessionInv, NEW e \in Sides, NEW z, session' = [session EXCEPT ![e] = z],
         Resumed(session[e], z), z.close_sent = session[e].close_sent, z.call = "none",
         z.socket => session[e].socket, z.ended = "closed" => session[e].ended = "closed",
         z.done => z.ended \in {"open", "closed", "eof", "timeout"},
         fin' = fin \/ (fin' = [fin EXCEPT ![Peer(e)] = TRUE] /\ ~z.socket),
         UNCHANGED <<wire, trust, cut>>,
         ~cut /\ z.done /\ z.ended = "eof" => LeftBehind(z, session[Peer(e)])
  PROVE  SessionInv'
<1> DEFINE o == Peer(e)
           x == session[e]
           w == session[o]
           y == session'[e]
<1>1. /\ SessionTypeOK /\ EndInv /\ DOMAIN session = Sides /\ wire \in [Sides -> Seq(Units)]
      /\ fin \in [Sides -> BOOLEAN]
  BY DEF SessionInv, SessionTypeOK
<1>2. o \in Sides /\ o # e /\ Peer(o) = e /\ \A d \in Sides : d = e \/ d = o
  BY DEF Sides, Peer
<1>3. Sound(x) /\ Content(x.out) = <<>> /\ Stands(x)
  BY TalkIs
<1>4. y = z /\ session'[o] = w /\ DOMAIN session' = Sides
  BY <1>1, <1>2
<1> HIDE DEF y
<1>5. /\ Sound(z) /\ Stock(z) = Stock(x) /\ z.out = x.out /\ SameTalk(x, z) /\ SameData(x, z)
      /\ z.be = x.be /\ z.hello = x.hello /\ z.sent = x.sent
  BY <1>3, Resumes
<1>6. IsSession(z)
  BY <1>3, <1>5 DEF IsSession
<1>7. Pipe(e)' = Pipe(e) /\ Pipe(o)' = Pipe(o)
  BY <1>4, <1>5 DEF Pipe, y
<1>8. Stands(z)
  BY <1>3, <1>5 DEF Stands, SameTalk, SameData
<1>9. fin' \in [Sides -> BOOLEAN] /\ wire' \in [Sides -> Seq(Units)]
  BY <1>1
<1>10. EndInv'
  <2> SUFFICES ASSUME ~cut
               PROVE  \A d \in Sides :
                        /\ fin'[d] => session'[Peer(d)].close_sent \/ ~session'[Peer(d)].socket
                        /\ session'[d].done /\ session'[d].ended = "eof" => LeftBehind(session'[d], session'[Peer(d)])
    BY DEF EndInv, LeftBehind
  <2>1. /\ fin[e] => w.close_sent \/ ~w.socket
        /\ fin[o] => x.close_sent \/ ~x.socket
        /\ w.done /\ w.ended = "eof" => LeftBehind(w, x)
    BY <1>1, <1>2 DEF EndInv
  <2>2. fin'[e] = fin[e] /\ (fin'[o] => fin[o] \/ ~z.socket)
    BY <1>1, <1>2
  <2>3. w.done /\ w.ended = "eof" => LeftBehind(w, z)
    BY <1>5, <2>1 DEF LeftBehind
  <2>4. fin'[o] => z.close_sent \/ ~z.socket
    BY <2>1, <2>2
  <2>5. /\ fin'[e] => session'[o].close_sent \/ ~session'[o].socket
        /\ fin'[o] => session'[e].close_sent \/ ~session'[e].socket
        /\ session'[e].done /\ session'[e].ended = "eof" => LeftBehind(session'[e], session'[o])
        /\ session'[o].done /\ session'[o].ended = "eof" => LeftBehind(session'[o], session'[e])
    BY <1>4, <2>1, <2>2, <2>3, <2>4 DEF y
  <2> HIDE DEF o, x, w
  <2> QED BY <1>2, <2>5 DEF o
<1> QED BY <1>2, <1>4, <1>5, <1>6, <1>7, <1>8, <1>9, <1>10, PassingKeeps DEF y

\* A pump that ends with an error.
LEMMA PumpEndsKeeps ==
  ASSUME SessionInv, NEW e \in Sides, session[e].call \in {"handshake pump", "read pump"},
         NEW why \in {"eof", "timeout", "protocol"}, PumpEnds(e, why),
         why = "protocol" => session[e].call = "handshake pump",
         why = "eof" => wire[e] = <<>> /\ fin[e]
  PROVE  SessionInv'
<1> DEFINE x == session[e]
           w == session[Peer(e)]
           gone == x.call = "handshake pump"
           y == IF gone THEN Freed(x) ELSE [x EXCEPT !.call = "none"]
           z == [y EXCEPT !.ended = why]
<1>1. /\ session' = [session EXCEPT ![e] = z] /\ UNCHANGED <<wire, trust, cut>>
      /\ fin' = IF y.socket THEN fin ELSE [fin EXCEPT ![Peer(e)] = TRUE]
  BY DEF PumpEnds
<1>2. /\ Sound(x) /\ Stands(x) /\ Sound(w)
      /\ Arrives(w.sent, w.close_sent, x.got, x.plain, x.closed, Stock(x) \o wire[e], ~cut)
  BY TalkIs
<1>3. /\ DOMAIN y = SessionFields /\ y.in = x.in /\ y.rec = x.rec /\ y.out = x.out
      /\ SameTalk(x, y) /\ SameData(x, y) /\ y.be = x.be /\ y.hello = x.hello /\ y.sent = x.sent
      /\ y.close_sent = x.close_sent /\ y.call = "none" /\ y.socket = IF gone THEN FALSE ELSE x.socket
  BY <1>2 DEF Freed, Sound, SessionFields, SameTalk, SameData
<1> HIDE DEF y
<1>4. /\ DOMAIN z = SessionFields /\ z.in = x.in /\ z.rec = x.rec /\ z.out = x.out
      /\ SameTalk(x, z) /\ SameData(x, z) /\ z.be = x.be /\ z.hello = x.hello /\ z.sent = x.sent
      /\ z.close_sent = x.close_sent /\ z.call = "none" /\ z.ended = why
      /\ z.socket = IF gone THEN FALSE ELSE x.socket
  BY <1>3 DEF SessionFields, SameTalk, SameData
<1>5. fin' = fin \/ (fin' = [fin EXCEPT ![Peer(e)] = TRUE] /\ ~z.socket)
  BY <1>1, <1>3, <1>4
<1>6. session' = [session EXCEPT ![e] = z]
  BY <1>1
<1> HIDE DEF z
<1>7. Resumed(x, z)
  BY <1>2, <1>4 DEF Resumed, Sound, Calls, Endings
<1>8. (z.socket => x.socket) /\ z.ended # "closed"
  BY <1>4
<1>9. x.done <=> x.call = "read pump"
  BY <1>2 DEF Stands
<1>10. z.done => z.ended \in {"open", "closed", "eof", "timeout"}
  BY <1>4, <1>9 DEF SameTalk
<1>11. ~cut /\ z.done /\ z.ended = "eof" => LeftBehind(z, w)
  <2> SUFFICES ASSUME ~cut, z.done, z.ended = "eof" PROVE LeftBehind(z, w)
    OBVIOUS
  <2>1. wire[e] = <<>> /\ fin[e] /\ x.call = "read pump"
    BY <1>4, <1>9 DEF SameTalk
  <2>2. LeftBehind(x, w)
    BY <2>1, NothingMore
  <2> QED BY <1>4, <2>2 DEF LeftBehind, SameData
<1> QED BY <1>1, <1>4, <1>5, <1>6, <1>7, <1>8, <1>10, <1>11, LeavingKeeps

\* The ends of a call or of a stream that neither a record nor the peer brings.
LEMMA EndsKeep ==
  ASSUME SessionInv, NEW e \in Sides, GivesUp(e) \/ TimesOut(e) \/ Abandon(e)
  PROVE  SessionInv'
<1>1. CASE GivesUp(e)
  <2>1. session[e].call = "handshake pump" /\ PumpEnds(e, "protocol")
    BY <1>1 DEF GivesUp
  <2> QED BY <2>1, PumpEndsKeeps
<1>2. CASE TimesOut(e)
  <2>1. session[e].call \in {"handshake pump", "read pump"} /\ PumpEnds(e, "timeout")
    BY <1>2 DEF TimesOut
  <2> QED BY <2>1, PumpEndsKeeps
<1>3. CASE Abandon(e)
  <2> DEFINE x == session[e]
             z == Freed(x)
  <2>1. /\ session' = [session EXCEPT ![e] = z] /\ UNCHANGED <<wire, trust, cut>>
        /\ fin' = [fin EXCEPT ![Peer(e)] = TRUE]
    BY <1>3 DEF Abandon
  <2>2. Sound(x) /\ Stands(x)
    BY TalkIs
  <2>3. /\ DOMAIN z = SessionFields /\ z.in = x.in /\ z.rec = x.rec /\ z.out = x.out
        /\ SameTalk(x, z) /\ SameData(x, z) /\ z.be = x.be /\ z.hello = x.hello /\ z.sent = x.sent
        /\ z.close_sent = x.close_sent /\ z.call = "none" /\ z.ended = x.ended /\ ~z.socket /\ z.socket \in BOOLEAN
    BY <2>2 DEF Freed, Sound, SessionFields, SameTalk, SameData
  <2> HIDE DEF z
  <2>4. Resumed(x, z)
    BY <2>2, <2>3 DEF Resumed, Sound, Calls
  <2>5. z.done => z.ended \in {"open", "closed", "eof", "timeout"}
    BY <2>2, <2>3 DEF Stands, SameTalk
  <2>6. ~cut /\ z.done /\ z.ended = "eof" => LeftBehind(z, session[Peer(e)])
    <3>1. ~cut /\ x.done /\ x.ended = "eof" => LeftBehind(x, session[Peer(e)])
      BY DEF SessionInv, EndInv
    <3> QED BY <2>3, <3>1 DEF LeftBehind, SameTalk, SameData
  <2> QED BY <2>1, <2>3, <2>4, <2>5, <2>6, LeavingKeeps
<1> QED BY <1>1, <1>2, <1>3

LEMMA PumpKeeps ==
  ASSUME SessionInv, NEW e \in Sides, Pump(e)
  PROVE  SessionInv'
<1> DEFINE o == Peer(e)
           x == session[e]
           w == session[o]
           t == wire[e]
<1>1. /\ SessionTypeOK /\ EndInv /\ DOMAIN session = Sides /\ wire \in [Sides -> Seq(Units)]
      /\ fin \in [Sides -> BOOLEAN]
  BY DEF SessionInv, SessionTypeOK
<1>2. o \in Sides /\ o # e /\ Peer(o) = e /\ \A d \in Sides : d = e \/ d = o
  BY DEF Sides, Peer
<1>3. /\ Sound(x) /\ Content(x.out) = <<>> /\ Stands(x) /\ t \in Seq(Units)
  BY TalkIs
<1>4. x.call \in {"handshake pump", "read pump"}
  BY DEF Pump
<1>5. \/ \E n \in 1..Len(t) : \E next \in {"read", "none", "handshake"} :
           /\ x.call = "read pump" <=> next # "handshake"
           /\ session' = [session EXCEPT ![e].in = BufPush(@, SubSeq(t, 1, n)), ![e].call = next]
           /\ wire' = [wire EXCEPT ![e] = SubSeq(@, n + 1, Len(@))]
           /\ UNCHANGED <<fin, trust, cut>>
      \/ t = <<>> /\ fin[e] /\ PumpEnds(e, "eof")
  BY DEF Pump, SocketEnd
<1>6. ASSUME NEW n \in 1..Len(t), NEW next \in {"read", "none", "handshake"}, x.call = "read pump" <=> next # "handshake",
             session' = [session EXCEPT ![e].in = BufPush(@, SubSeq(t, 1, n)), ![e].call = next],
             wire' = [wire EXCEPT ![e] = SubSeq(@, n + 1, Len(@))], UNCHANGED <<fin, trust, cut>>
      PROVE  SessionInv'
  <2> DEFINE a == SubSeq(t, 1, n)
             b == SubSeq(t, n + 1, Len(t))
             y == session'[e]
             f == BufPush(x.in, a)
  <2>1. n \in 0..Len(t)
    OBVIOUS
  <2>2. a \in Seq(Units) /\ b \in Seq(Units) /\ a \o b = t
    BY <1>3, <2>1, CutInTwo
  <2>3. wire'[e] = b /\ wire'[o] = wire[o]
    BY <1>1, <1>2, <1>6
  <2>4. /\ y = [x EXCEPT !.in = f, !.call = next]
        /\ session'[o] = w /\ DOMAIN session' = Sides
    BY <1>1, <1>2, <1>6
  <2>5. /\ DOMAIN y = SessionFields /\ y.in = f /\ y.rec = x.rec /\ y.out = x.out
        /\ y.call = next
        /\ SameTalk(x, y) /\ SameData(x, y) /\ y.be = x.be /\ y.hello = x.hello /\ y.sent = x.sent
        /\ y.close_sent = x.close_sent /\ y.ended = x.ended /\ y.socket = x.socket
    BY <1>3, <2>4 DEF Sound, SessionFields, SameTalk, SameData
  <2>6. IsBuf(f) /\ Content(f) = Content(x.in) \o a
    BY <1>3, <2>2, BufPushIs DEF Sound
  <2>7. x.rec \in Seq(Units) /\ Content(x.in) \in Seq(Units) /\ Stock(x) \in Seq(Units)
    BY <1>3, StockIs
  <2> HIDE DEF a, b, f, y, t
  <2>8. wire' \in [Sides -> Seq(Units)]
    <3>1. \A d \in Sides : wire'[d] \in Seq(Units)
      BY <1>1, <1>2, <2>2, <2>3
    <3>2. wire' = [d \in Sides |-> wire'[d]]
      BY <1>1, <1>6
    <3> QED BY <3>1, <3>2
  <2>9. Stock(y) = Stock(x) \o a
    <3> DEFINE c == Content(x.in)
               q == x.rec
    <3>1. Stock(y) = q \o (c \o a) /\ Stock(x) = q \o c
      BY <2>5, <2>6 DEF Stock
    <3>2. q \in Seq(Units) /\ c \in Seq(Units) /\ a \in Seq(Units)
      BY <2>2, <2>7
    <3> HIDE DEF c, q
    <3>3. (q \o c) \o a = q \o (c \o a)
      BY <3>2, Regrouped
    <3> QED BY <3>1, <3>3
  <2>10. Pipe(e)' = Pipe(e)
    <3>1. Pipe(e)' = Stock(y) \o b /\ Pipe(e) = Stock(x) \o t
      BY <2>3 DEF Pipe, y, t
    <3> DEFINE s == Stock(x)
    <3>2. s \in Seq(Units) /\ a \in Seq(Units) /\ b \in Seq(Units)
      BY <2>2, <2>7
    <3>3. Pipe(e)' = (s \o a) \o b /\ Pipe(e) = s \o t
      BY <2>9, <3>1
    <3> HIDE DEF s
    <3>4. (s \o a) \o b = s \o (a \o b)
      BY <3>2, Regrouped
    <3> QED BY <2>2, <3>3, <3>4
  <2>11. Pipe(o)' = Pipe(o)
    BY <2>3, <2>4 DEF Pipe
  <2>12. Sound(y)
    BY <1>3, <2>5, <2>6 DEF Sound, SameTalk, SameData, Calls
  <2>13. IsSession(y)
    BY <1>3, <2>5, <2>12 DEF IsSession
  <2>14. Stands(y)
    <3>1. y.phase = x.phase /\ y.done = x.done /\ y.closed = x.closed /\ y.got = x.got /\ y.plain = x.plain
      BY <2>5 DEF SameTalk, SameData
    <3>2. x.call = "read pump" => x.done
      BY <1>3 DEF Stands
    <3>3. x.call = "handshake pump" => ~x.done /\ x.phase \in {"start", "sent"}
      BY <1>3 DEF Stands
    <3>4. y.call = next /\ y.ended = x.ended /\ y.socket = x.socket /\ x.ended = "open" /\ x.socket
      BY <1>3, <1>4, <2>5 DEF Stands
    <3>7. x.call = "read pump" <=> next # "handshake"
      BY <1>6
    <3>5. y.done => y.call \in {"read", "none"}
      BY <1>4, <3>1, <3>2, <3>3, <3>4, <3>7
    <3>6. ~y.done => y.call = "handshake" /\ y.phase \in {"start", "sent"}
      BY <1>4, <3>1, <3>2, <3>3, <3>4, <3>7
    <3> QED BY <1>3, <2>5, <3>1, <3>4, <3>5, <3>6 DEF Stands
  <2>15. EndInv'
    <3>1. y.done = x.done /\ y.got = x.got
      BY <2>5 DEF SameTalk, SameData
    <3>2. \A g \in Sides : /\ session'[g].ended = session[g].ended /\ session'[g].close_sent = session[g].close_sent
                           /\ session'[g].socket = session[g].socket /\ session'[g].done = session[g].done
                           /\ session'[g].got = session[g].got /\ session'[g].sent = session[g].sent
      BY <1>2, <2>4, <2>5, <3>1 DEF y
    <3>3. \A d \in Sides : Peer(d) \in Sides
      BY DEF Sides, Peer
    <3>4. fin' = fin /\ cut' = cut
      BY <1>6
    <3>5. \A d \in Sides : ~cut =>
            /\ fin[d] => session[Peer(d)].close_sent \/ ~session[Peer(d)].socket
            /\ session[d].done /\ session[d].ended = "eof" => LeftBehind(session[d], session[Peer(d)])
      BY <1>1 DEF EndInv
    <3> QED BY <3>2, <3>3, <3>4, <3>5 DEF EndInv, LeftBehind
  <2>16. fin' \in [Sides -> BOOLEAN]
    BY <1>1, <1>6
  <2>17. UNCHANGED <<trust, cut>>
    BY <1>6
  <2> QED BY <1>1, <2>4, <2>5, <2>8, <2>10, <2>11, <2>13, <2>14, <2>15, <2>16, <2>17, PassingKeeps DEF y
<1>7. CASE t = <<>> /\ fin[e] /\ PumpEnds(e, "eof")
  BY <1>4, <1>7, PumpEndsKeeps
<1> QED BY <1>5, <1>6, <1>7

\* A concatenation whose second piece is cut short is cut short itself.
LEMMA TakeOfJoined ==
  ASSUME NEW U, NEW q \in Seq(U), NEW r \in Seq(U), NEW n \in 0..Len(r)
  PROVE  \E m \in 0..Len(q \o r) : q \o SubSeq(r, 1, n) = SubSeq(q \o r, 1, m)
<1> DEFINE w == q \o r
           a == SubSeq(r, 1, n)
           m == Len(q) + n
           l == SubSeq(w, 1, m)
<1>1. /\ w \in Seq(U) /\ Len(w) = Len(q) + Len(r) /\ Len(q) \in Nat /\ Len(r) \in Nat
      /\ \A i \in 1..Len(q) : w[i] = q[i]
      /\ \A i \in 1..Len(r) : w[Len(q) + i] = r[i]
  BY Joined
<1>2. a \in Seq(U) /\ Len(a) = n /\ \A i \in 1..n : a[i] = r[i]
  BY CutInTwo
<1>3. m \in 0..Len(w)
  BY <1>1
<1> HIDE DEF w, a
<1>4. l \in Seq(U) /\ Len(l) = m /\ \A i \in 1..m : l[i] = w[i]
  <2> HIDE DEF m
  <2> QED BY <1>1, <1>3, CutInTwo
<1> HIDE DEF l
<1>5. /\ q \o a \in Seq(U) /\ Len(q \o a) = Len(q) + n
      /\ \A i \in 1..Len(q) : (q \o a)[i] = q[i]
      /\ \A i \in 1..n : (q \o a)[Len(q) + i] = a[i]
  <2>1. a \in Seq(U)
    BY <1>2
  <2>2. /\ q \o a \in Seq(U) /\ Len(q \o a) = Len(q) + Len(a)
        /\ \A i \in 1..Len(q) : (q \o a)[i] = q[i]
        /\ \A i \in 1..Len(a) : (q \o a)[Len(q) + i] = a[i]
    BY <2>1, Joined
  <2> QED BY <1>2, <2>2
<1>6. ASSUME NEW i \in 1..Len(l) PROVE l[i] = (q \o a)[i]
  <2>1. CASE i <= Len(q)
    <3>1. i \in 1..Len(q) /\ i \in 1..m
      BY <1>1, <1>4, <2>1
    <3> QED BY <3>1, <1>1, <1>4, <1>5
  <2>2. CASE i > Len(q)
    <3> DEFINE j == i - Len(q)
    <3>1. j \in 1..n /\ j \in 1..Len(r) /\ i = Len(q) + j /\ i \in 1..m
      BY <1>1, <1>4, <2>2
    <3> HIDE DEF j
    <3> QED BY <3>1, <1>1, <1>2, <1>4, <1>5
  <2>3. i \in Int /\ Len(q) \in Int
    BY <1>1
  <2>4. i <= Len(q) \/ i > Len(q)
    BY <2>3
  <2> QED BY <2>1, <2>2, <2>4
<1>7. l = q \o a
  <2>1. Len(l) = Len(q \o a)
    BY <1>4, <1>5
  <2> QED BY <1>4, <1>5, <1>6, <2>1, SeqEqual
<1> QED BY <1>3, <1>7 DEF w, a, l

LEMMA CutKeeps ==
  ASSUME SessionInv, Cut
  PROVE  SessionInv'
<1>1. SessionTypeOK /\ DataInv /\ PhaseInv /\ StandsInv /\ wire \in [Sides -> Seq(Units)]
  BY DEF SessionInv, SessionTypeOK
<1>2. /\ ~cut /\ cut' = TRUE /\ fin' = [d \in Sides |-> TRUE] /\ session' = session /\ trust' = trust
  BY DEF Cut
<1>3. PICK keep \in 0..1 :
        wire' = [d \in Sides |-> IF keep < Len(wire[d]) THEN SubSeq(wire[d], 1, keep) ELSE wire[d]]
  BY DEF Cut
<1>4. ASSUME NEW d \in Sides
      PROVE  /\ wire'[d] \in Seq(Units)
             /\ \E m \in 0..Len(Pipe(d)) : Pipe(d)' = SubSeq(Pipe(d), 1, m)
  <2> DEFINE t == wire[d]
             s == Stock(session[d])
             l == Len(t)
  <2>1. t \in Seq(Units) /\ s \in Seq(Units)
    BY <1>1, PipeIs
  <2>2. wire'[d] = IF keep < l THEN SubSeq(t, 1, keep) ELSE t
    BY <1>3
  <2>3. l \in Nat
    BY <2>1, LenProperties
  <2>4. PICK n \in 0..l : wire'[d] = SubSeq(t, 1, n)
    <3>1. CASE keep < l
      <4>1. keep \in 0..l
        BY <2>3, <3>1
      <4> QED BY <2>2, <3>1, <4>1
    <3>2. CASE ~(keep < l)
      <4> HIDE DEF t
      <4>1. SubSeq(t, 1, l) = t /\ l \in 0..l
        BY <2>1, <2>3, SubSeqFull
      <4> QED BY <2>2, <3>2, <4>1
    <3> QED BY <3>1, <3>2
  <2>5. Pipe(d)' = s \o SubSeq(t, 1, n) /\ Pipe(d) = s \o t
    BY <1>2, <2>4 DEF Pipe
  <2> HIDE DEF s, t
  <2>6. SubSeq(t, 1, n) \in Seq(Units)
    BY <2>1, CutInTwo
  <2>7. \E m \in 0..Len(s \o t) : s \o SubSeq(t, 1, n) = SubSeq(s \o t, 1, m)
    BY <2>1, TakeOfJoined
  <2> QED BY <2>4, <2>5, <2>6, <2>7
<1>5. SessionTypeOK'
  <2>1. wire' \in [Sides -> Seq(Units)]
    BY <1>3, <1>4
  <2> QED BY <1>1, <1>2, <2>1 DEF SessionTypeOK
<1>6. StandsInv'
  BY <1>1, <1>2 DEF StandsInv
<1>7. EndInv'
  BY <1>2 DEF EndInv
<1>8. DataInv'
  <2> SUFFICES ASSUME NEW d \in Sides
               PROVE  Arrives(session[Peer(d)].sent, session[Peer(d)].close_sent, session[d].got, session[d].plain,
                              session[d].closed, Pipe(d)', ~cut')
    BY <1>2 DEF DataInv
  <2> DEFINE x == session[d]
             w == session[Peer(d)]
             sent == w.sent
             cs == w.close_sent
             got == x.got
             plain == x.plain
             closed == x.closed
             p == Pipe(d)
             whole == ~cut
             still == ~cut'
  <2>1. Peer(d) \in Sides
    BY DEF Sides, Peer
  <2>2. /\ sent \in Seq(Nat) /\ cs \in BOOLEAN /\ got \in Seq(Nat) /\ plain \in Seq(Nat) /\ closed \in BOOLEAN
        /\ p \in Seq(Units)
    BY <1>1, <2>1, PipeIs DEF Sound
  <2>3. Arrives(sent, cs, got, plain, closed, p, whole)
    BY <1>1 DEF DataInv
  <2>4. PICK m \in 0..Len(p) : Pipe(d)' = SubSeq(p, 1, m)
    BY <1>4
  <2>5. ~still /\ still \in BOOLEAN /\ whole \in BOOLEAN
    BY <1>2
  <2> HIDE DEF sent, cs, got, plain, closed, p, whole, still
  <2>6. Arrives(sent, cs, got, plain, closed, SubSeq(p, 1, m), still)
    BY <2>2, <2>3, <2>5, ArrivesCut
  <2> QED BY <2>4, <2>6 DEF sent, cs, got, plain, closed, still
<1>9. PhaseInv'
  <2> DEFINE c == session["client"]
             v == session["server"]
             p == Pipe("server")
             q == Pipe("client")
             whole == ~cut
             still == ~cut'
             ok == trust
  <2>1. Phases(c, v, p, q, whole, ok)
    BY <1>1 DEF PhaseInv
  <2>2. "client" \in Sides /\ "server" \in Sides
    BY DEF Sides
  <2>3. p \in Seq(Units) /\ q \in Seq(Units)
    BY <1>1, <2>2, PipeIs
  <2>4. PICK a \in 0..Len(p) : Pipe("server")' = SubSeq(p, 1, a)
    BY <1>4, <2>2
  <2>5. PICK b \in 0..Len(q) : Pipe("client")' = SubSeq(q, 1, b)
    BY <1>4, <2>2
  <2>6. ~still /\ still \in BOOLEAN
    BY <1>2
  <2> HIDE DEF c, v, p, q, whole, still, ok
  <2>7. Phases(c, v, SubSeq(p, 1, a), SubSeq(q, 1, b), still, ok)
    BY <2>1, <2>3, <2>6, PhaseCut
  <2> QED BY <1>2, <2>4, <2>5, <2>7 DEF PhaseInv, c, v, still, ok
<1> QED BY <1>5, <1>6, <1>7, <1>8, <1>9 DEF SessionInv

\* A session that has not begun.
Begun(x, be, h) ==
    /\ IsSession(x) /\ Stock(x) = <<>> /\ Stands(x) /\ x.be = be /\ x.hello = h /\ x.phase = "start"
    /\ x.done = FALSE /\ x.sent = <<>> /\ x.got = <<>> /\ x.plain = <<>> /\ x.closed = FALSE
    /\ x.close_sent = FALSE /\ x.ended = "open"

LEMMA BeginsSound ==
  ASSUME NEW be, NEW h
  PROVE  Begun(Session(be, h), be, h)
<1> DEFINE x == Session(be, h)
           b == EmptyBuf
<1>1. /\ DOMAIN x = SessionFields /\ x.in = b /\ x.out = b /\ x.rec = <<>> /\ x.be = be /\ x.hello = h
      /\ x.phase = "start" /\ x.done = FALSE /\ x.sent = <<>> /\ x.got = <<>> /\ x.plain = <<>>
      /\ x.closed = FALSE /\ x.close_sent = FALSE /\ x.ended = "open" /\ x.call = "handshake" /\ x.socket = TRUE
  BY DEF Session, SessionFields
<1>2. /\ DOMAIN b = {"d", "head", "cap"} /\ b.d = <<>> /\ b.head = 0
  BY DEF EmptyBuf
<1> HIDE DEF x, b
<1>3. <<>> \in Seq(Units) /\ Len(<<>>) = 0 /\ <<>> \in Seq(Nat) /\ <<>> \o <<>> = <<>>
  BY EmptySeq, NoKinds, ConcatEmptySeq
<1>4. IsBuf(b)
  BY <1>2, <1>3 DEF IsBuf
<1>5. Content(b) = <<>>
  BY <1>2, <1>4, ContentIs
<1>6. Sound(x)
  <2>1. IsBuf(x.in) /\ IsBuf(x.out)
    BY <1>1, <1>4
  <2>2. x.rec \in Seq(Units) /\ Len(x.rec) <= 2
    <3>1. Len(x.rec) = 0
      BY <1>1, <1>3
    <3> QED BY <1>1, <1>3, <3>1
  <2>3. x.plain \in Seq(Nat) /\ x.got \in Seq(Nat) /\ x.sent \in Seq(Nat)
    BY <1>1, <1>3
  <2> QED BY <1>1, <2>1, <2>2, <2>3 DEF Sound, Calls, Endings
<1>7. Stock(x) = <<>>
  BY <1>1, <1>3, <1>5 DEF Stock
<1>8. Stands(x)
  BY <1>1, <1>3, <1>7 DEF Stands
<1> QED BY <1>1, <1>5, <1>6, <1>7, <1>8 DEF IsSession, Begun, x

LEMMA SessionsBegin ==
  ASSUME SessionInit
  PROVE  SessionInv
<1>1. PICK b \in Backends, h \in Hellos :
        session = [client |-> Session(b[1], h), server |-> Session(b[2], NoHello)]
  BY DEF SessionInit, NoHello
<1> DEFINE c == session["client"]
           v == session["server"]
<1>2. c = Session(b[1], h) /\ v = Session(b[2], NoHello) /\ DOMAIN session = Sides
  BY <1>1 DEF Sides
<1>3. /\ wire = [d \in Sides |-> <<>>] /\ fin = [d \in Sides |-> FALSE] /\ trust \in BOOLEAN /\ cut = FALSE
  BY DEF SessionInit
<1> HIDE DEF c, v
<1>4. /\ IsSession(c) /\ Stock(c) = <<>> /\ Stands(c) /\ c.be = b[1] /\ c.hello = h /\ c.phase = "start"
      /\ c.done = FALSE /\ c.sent = <<>> /\ c.got = <<>> /\ c.plain = <<>> /\ c.closed = FALSE
      /\ c.close_sent = FALSE /\ c.ended = "open"
  <2>1. Begun(Session(b[1], h), b[1], h)
    BY BeginsSound
  <2> QED BY <1>2, <2>1 DEF Begun
<1>5. /\ IsSession(v) /\ Stock(v) = <<>> /\ Stands(v) /\ v.be = b[2] /\ v.phase = "start"
      /\ v.done = FALSE /\ v.sent = <<>> /\ v.got = <<>> /\ v.plain = <<>> /\ v.closed = FALSE
      /\ v.close_sent = FALSE /\ v.ended = "open"
  <2>1. Begun(Session(b[2], NoHello), b[2], NoHello)
    BY BeginsSound
  <2> QED BY <1>2, <2>1 DEF Begun
<1>6. Peer("client") = "server" /\ Peer("server") = "client" /\ Sides = {"client", "server"}
  BY DEF Peer, Sides
<1>7. <<>> \in Seq(Units) /\ <<>> \o <<>> = <<>>
  BY EmptySeq, ConcatEmptySeq
<1>8. wire["client"] = <<>> /\ wire["server"] = <<>> /\ wire \in [Sides -> Seq(Units)]
  BY <1>3, <1>6, <1>7
<1>9. Pipe("client") = <<>> /\ Pipe("server") = <<>>
  BY <1>4, <1>5, <1>7, <1>8 DEF Pipe, c, v
<1>10. SessionTypeOK
  <2>1. \A d \in Sides : IsSession(session[d]) /\ session[d].be \in BackendNames
    BY <1>4, <1>5, <1>6 DEF c, v, BackendNames
  <2>2. session.client.hello \in Hellos
    BY <1>4 DEF c
  <2>3. fin \in [Sides -> BOOLEAN]
    BY <1>3
  <2> QED BY <1>2, <1>3, <1>8, <2>1, <2>2, <2>3 DEF SessionTypeOK
<1>11. DataInv
  <2> DEFINE no == FALSE
             whole == ~cut
  <2>1. no \in BOOLEAN /\ ~no /\ whole \in BOOLEAN
    BY <1>3
  <2> HIDE DEF no, whole
  <2>2. Arrives(<<>>, no, <<>>, <<>>, no, <<>>, whole)
    BY <2>1, ArrivesAtFirst
  <2>3. /\ Arrives(v.sent, v.close_sent, c.got, c.plain, c.closed, Pipe("client"), whole)
        /\ Arrives(c.sent, c.close_sent, v.got, v.plain, v.closed, Pipe("server"), whole)
    BY <1>4, <1>5, <1>9, <2>2 DEF no
  <2> QED BY <1>6, <2>3 DEF DataInv, whole, c, v
<1>12. PhaseInv
  <2> DEFINE whole == ~cut
             ok == trust
             e == <<>>
  <2> HIDE DEF whole, ok
  <2>1. Len(e) <= 2
    BY NoKinds
  <2>2. Phases(c, v, e, e, whole, ok)
    BY <1>4, <1>5, <2>1 DEF Phases
  <2> QED BY <1>9, <2>2 DEF PhaseInv, whole, ok, c, v
<1>13. StandsInv
  BY <1>4, <1>5, <1>6 DEF StandsInv, c, v
<1>14. EndInv
  <2>1. ~("open" = "eof")
    OBVIOUS
  <2>2. \A d \in Sides : ~fin[d] /\ session[d].ended = "open"
    BY <1>3, <1>4, <1>5, <1>6 DEF c, v
  <2> QED BY <2>1, <2>2 DEF EndInv
<1> QED BY <1>10, <1>11, <1>12, <1>13, <1>14 DEF SessionInv

LEMMA SessionStutters ==
  ASSUME SessionInv, UNCHANGED sessionVars
  PROVE  SessionInv'
<1>1. /\ session' = session /\ wire' = wire /\ fin' = fin /\ trust' = trust /\ cut' = cut
  BY DEF sessionVars
<1>2. \A e \in Sides : Pipe(e)' = Pipe(e)
  BY <1>1 DEF Pipe
<1>3. "client" \in Sides /\ "server" \in Sides
  BY DEF Sides
<1>4. SessionTypeOK' /\ StandsInv' /\ EndInv'
  BY <1>1 DEF SessionInv, SessionTypeOK, StandsInv, EndInv
<1>5. DataInv'
  BY <1>1, <1>2 DEF SessionInv, DataInv
<1>6. PhaseInv'
  BY <1>1, <1>2, <1>3 DEF SessionInv, PhaseInv
<1> QED BY <1>4, <1>5, <1>6 DEF SessionInv

LEMMA SessionKeeps ==
  ASSUME MessagesHold, SessionInv, [SessionNext]_sessionVars
  PROVE  SessionInv'
<1>1. CASE UNCHANGED sessionVars
  BY <1>1, SessionStutters
<1>2. CASE Cut
  BY <1>2, CutKeeps
<1>3. ASSUME NEW e \in Sides, Handshake(e)
      PROVE  SessionInv'
  BY <1>3, HandshakeKeeps
<1>4. ASSUME NEW e \in Sides, Pump(e)
      PROVE  SessionInv'
  BY <1>4, PumpKeeps
<1>5. ASSUME NEW e \in Sides, Read(e)
      PROVE  SessionInv'
  BY <1>5, ReadKeeps
<1>6. ASSUME NEW e \in Sides, SendBytes(e)
      PROVE  SessionInv'
  BY <1>6, SendBytesKeeps
<1>7. ASSUME NEW e \in Sides, ShutdownWrite(e) \/ Close(e)
      PROVE  SessionInv'
  BY <1>7, ShutdownKeeps
<1>8. ASSUME NEW e \in Sides, GivesUp(e) \/ TimesOut(e) \/ Abandon(e)
      PROVE  SessionInv'
  BY <1>8, EndsKeep
<1> QED BY <1>1, <1>2, <1>3, <1>4, <1>5, <1>6, <1>7, <1>8 DEF SessionNext

LEMMA InvIsFaithful ==
  ASSUME SessionInv
  PROVE  PumpFaithful
<1>1. SessionTypeOK /\ DataInv /\ PhaseInv /\ StandsInv /\ EndInv
  BY DEF SessionInv
<1>2. ASSUME NEW e \in Sides
      PROVE  /\ IsPrefix(session[e].got, session[Peer(e)].sent)
             /\ session[e].ended = "closed" =>
                  session[Peer(e)].close_sent /\ session[e].got = session[Peer(e)].sent
  <2> DEFINE x == session[e]
             w == session[Peer(e)]
             sent == w.sent
             cs == w.close_sent
             got == x.got
             plain == x.plain
             closed == x.closed
             p == Pipe(e)
             whole == ~cut
  <2>1. /\ sent \in Seq(Nat) /\ cs \in BOOLEAN /\ got \in Seq(Nat) /\ plain \in Seq(Nat) /\ closed \in BOOLEAN
        /\ whole \in BOOLEAN
    BY <1>1, TalkIs DEF Sound
  <2>2. Arrives(sent, cs, got, plain, closed, p, whole)
    BY <1>1 DEF DataInv
  <2>3. x.ended = "closed" => closed /\ plain = <<>>
    BY <1>1 DEF StandsInv, Stands
  <2> HIDE DEF sent, cs, got, plain, closed, p, whole
  <2>4. IsPrefix(got, sent) /\ (closed /\ plain = <<>> => cs /\ got = sent)
    BY <2>1, <2>2, ArrivesInOrder
  <2>5. IsPrefix(got, sent) /\ (x.ended = "closed" => cs /\ got = sent)
    BY <2>3, <2>4
  <2> QED BY <2>5 DEF got, sent, cs
<1>3. TruncationIsReal
  <2>1. \A e \in Sides : session[e].done => session[e].ended \in {"open", "closed", "eof", "timeout"}
    BY <1>1 DEF StandsInv, Stands
  <2> QED BY <1>1, <2>1 DEF EndInv, LeftBehind, TruncationIsReal
<1>4. EstablishedIsAgreed
  <2> DEFINE c == session["client"]
             v == session["server"]
             p == Pipe("server")
             q == Pipe("client")
             whole == ~cut
             ok == trust
  <2>1. Phases(c, v, p, q, whole, ok)
    BY <1>1 DEF PhaseInv
  <2> HIDE DEF c, v, p, q, whole, ok
  <2>2. /\ c.done => ok /\ c.chosen = v.chosen
        /\ v.done /\ ok => c.done
    BY <2>1 DEF Phases
  <2> QED BY <2>2 DEF EstablishedIsAgreed, c, v, ok
<1> QED BY <1>2, <1>3, <1>4 DEF PumpFaithful, BytesInOrder, CleanEndIsComplete

\* Any two of the three backends, over a stream that delivers ciphertext in any
\* pieces and may be cut at any point: a side reads the bytes the other wrote, in
\* order, none lost and none twice; a clean end is reported only when all of them
\* were read and the peer said so; an established stream that reports a truncation
\* while nothing was cut has read all its peer wrote, and the peer was dropped
\* without a close_notify; and who is established agrees on the identity and the
\* protocol (the byte pump of beans_net_tls.c under std.tls, with its timeouts, its
\* rounds and the streams that are dropped).
THEOREM PumpFaithfulCorrect == ASSUME MessagesHold PROVE SessionSpec => []PumpFaithful
<1>1. SessionInit => SessionInv
  BY SessionsBegin
<1>2. SessionInv /\ [SessionNext]_sessionVars => SessionInv'
  BY SessionKeeps
<1>3. SessionInv => PumpFaithful
  BY InvIsFaithful
<1> QED BY <1>1, <1>2, <1>3, PTL DEF SessionSpec
=============================================================================
