--------------------------- MODULE Ownership_proofs ---------------------------
(***************************************************************************)
(* Proofs about who owns what.  HuskSweep: for any finite set of threads   *)
(* and any number of owner-local walks, no thread touches a shell that a   *)
(* sweep gave back.  FileHandles: for any threads, handles, descriptors,   *)
(* files and word, a descriptor and a mapping belong to one live handle,   *)
(* no access leaves its mapping, and a transfer that nobody disturbs moves *)
(* exactly its bytes, however the kernel cuts it.  WeakRefs: for any       *)
(* objects and hash function the table of weak references finds every      *)
(* entry, whatever was removed or moved, and no read revives the dead.     *)
(***************************************************************************)
EXTENDS HuskSweep, FileHandles, WeakRefs, QueueLemmas

(***************************************************************************)
(* HuskSweep                                                               *)
(***************************************************************************)
\* What is asked of the constants: a process has finitely many threads.
FiniteThreads == IsFiniteSet(Threads)

Sweeps == {"sweep", "sweep_check", "sweep_free"}

HuskTypeOK ==
    /\ rc \in Nat /\ walkers \in Nat /\ listed \in Nat
    /\ buf \in BOOLEAN /\ sweeping \in BOOLEAN
    /\ color \in {"black", "purple"} /\ mem \in {"live", "husk", "freed"}
    /\ pc \in [Threads -> {"owner", "park", "append", "dec", "finish", "gone",
                           "walk_check", "walking"} \union Sweeps]
    /\ back \in [Threads -> {"dec", "gone"}]

\* The threads that have not given back their reference, and those inside the
\* window of a walk.
Holds(t) == pc[t] \in {"owner", "park", "append", "dec"} \/ (back[t] = "dec" /\ pc[t] \in Sweeps)
Holders == {t \in Threads : Holds(t)}
Walkers == {t \in Threads : pc[t] \in {"walk_check", "walking"}}

\* The two counters are exact.
CountInv == rc = Cardinality(Holders) /\ walkers = Cardinality(Walkers)

\* The shell lives as long as somebody holds a reference or finishes its death,
\* which one thread at most does, after the last reference went.
LifeInv ==
    /\ \A t \in Threads : pc[t] = "finish" => Holders = {} /\ mem = "live"
    /\ \A t, u \in Threads : pc[t] = "finish" /\ pc[u] = "finish" => t = u
    /\ Holders # {} => mem = "live"

\* CC_BUF is set by one thread, which owes the entry until it has appended it;
\* a parked shell turns black when it is dead and not before.
EntryInv ==
    /\ \A t \in Threads : pc[t] = "append" => buf /\ listed = 0
    /\ \A t, u \in Threads : pc[t] = "append" /\ pc[u] = "append" => t = u
    /\ buf /\ (\A t \in Threads : pc[t] # "append") => listed = 1
    /\ ~buf => listed = 0
    /\ mem = "live" => (buf <=> color = "purple")
    /\ mem = "husk" => buf
    /\ mem = "freed" => ~buf

\* One thread at most sweeps, behind the flag, and no walk is under way while
\* it frees.
WindowInv ==
    /\ \A t \in Threads : pc[t] \in {"sweep_check", "sweep_free"} => sweeping
    /\ \A t, u \in Threads :
          pc[t] \in {"sweep_check", "sweep_free"} /\ pc[u] \in {"sweep_check", "sweep_free"} => t = u
    /\ WalkExcludesSweep

HuskInv == HuskTypeOK /\ CountInv /\ LifeInv /\ EntryInv /\ WindowInv

-----------------------------------------------------------------------------
\* What the counters say of the sets they count.
LEMMA CountFacts ==
    ASSUME FiniteThreads, CountInv
    PROVE  /\ rc = 0 <=> Holders = {}
           /\ walkers = 0 <=> Walkers = {}
           /\ \A t \in Holders : rc = 1 => Holders = {t}
           /\ rc \in Nat /\ walkers \in Nat
<1>1. IsFiniteSet(Holders) /\ IsFiniteSet(Walkers)
  BY FS_Subset DEF FiniteThreads, Holders, Walkers
<1>2. (rc = 0 <=> Holders = {}) /\ (walkers = 0 <=> Walkers = {})
  BY <1>1, FS_EmptySet DEF CountInv
<1>3. ASSUME NEW t \in Holders, rc = 1 PROVE Holders = {t}
  <2>1. PICK x : Holders = {x}
    BY <1>1, <1>3, FS_Singleton DEF CountInv
  <2> QED BY <2>1
<1>4. rc \in Nat /\ walkers \in Nat
  BY <1>1, FS_CardinalityType DEF CountInv
<1> QED BY <1>2, <1>3, <1>4

LEMMA SameCounts ==
    ASSUME CountInv, rc' = rc, walkers' = walkers, Holders' = Holders, Walkers' = Walkers
    PROVE  CountInv'
BY DEF CountInv

\* A thread that gives back its reference, enters a walk or leaves one.
LEMMA DropCount ==
    ASSUME FiniteThreads, CountInv, NEW t \in Holders, rc' = rc - 1, walkers' = walkers,
           Holders' = Holders \ {t}, Walkers' = Walkers
    PROVE  CountInv'
<1>1. IsFiniteSet(Holders)
  BY FS_Subset DEF FiniteThreads, Holders
<1>2. Cardinality(Holders \ {t}) = Cardinality(Holders) - 1
  BY <1>1, FS_RemoveElement
<1> QED BY <1>2 DEF CountInv

LEMMA EnterCount ==
    ASSUME FiniteThreads, CountInv, NEW t \in Threads, t \notin Walkers, rc' = rc,
           walkers' = walkers + 1, Holders' = Holders, Walkers' = Walkers \union {t}
    PROVE  CountInv'
<1>1. IsFiniteSet(Walkers)
  BY FS_Subset DEF FiniteThreads, Walkers
<1>2. Cardinality(Walkers \union {t}) = Cardinality(Walkers) + 1
  BY <1>1, FS_AddElement
<1> QED BY <1>2 DEF CountInv

LEMMA LeaveCount ==
    ASSUME FiniteThreads, CountInv, NEW t \in Walkers, rc' = rc, walkers' = walkers - 1,
           Holders' = Holders, Walkers' = Walkers \ {t}
    PROVE  CountInv'
<1>1. IsFiniteSet(Walkers)
  BY FS_Subset DEF FiniteThreads, Walkers
<1>2. Cardinality(Walkers \ {t}) = Cardinality(Walkers) - 1
  BY <1>1, FS_RemoveElement
<1> QED BY <1>2 DEF CountInv

LEMMA InitHusk == ASSUME FiniteThreads, Init PROVE HuskInv
<1>1. Holders = Threads /\ Walkers = {}
  BY DEF Init, Holders, Holds, Walkers
<1>2. Cardinality(Threads) \in Nat
  BY FS_CardinalityType DEF FiniteThreads
<1>3. CountInv
  BY <1>1, FS_EmptySet DEF Init, CountInv
<1>4. HuskTypeOK
  <2>1. rc \in Nat /\ walkers \in Nat /\ listed \in Nat
    BY <1>2 DEF Init
  <2>2. /\ pc \in [Threads -> {"owner", "park", "append", "dec", "finish", "gone",
                               "walk_check", "walking"} \union Sweeps]
        /\ back \in [Threads -> {"dec", "gone"}]
    BY DEF Init
  <2>3. /\ buf \in BOOLEAN /\ sweeping \in BOOLEAN
        /\ color \in {"black", "purple"} /\ mem \in {"live", "husk", "freed"}
    BY DEF Init
  <2> QED BY <2>1, <2>2, <2>3 DEF HuskTypeOK
<1>5. LifeInv /\ EntryInv /\ WindowInv
  BY DEF Init, LifeInv, EntryInv, WindowInv, WalkExcludesSweep
<1> QED BY <1>3, <1>4, <1>5 DEF HuskInv

\* The steps of beans_release.
LEMMA ReleaseStep ==
    ASSUME FiniteThreads, HuskInv, NEW t \in Threads,
           Load(t) \/ Park(t) \/ AppendRoots(t) \/ Decrement(t) \/ Finish(t)
    PROVE  HuskInv'
<1> USE DEF HuskInv, Goto, object, flags
<1>0. /\ rc = 0 <=> Holders = {}
      /\ \A u \in Holders : rc = 1 => Holders = {u}
  BY CountFacts
<1>1. CASE Load(t)
  <2>1. Holders' = Holders /\ Walkers' = Walkers
    BY <1>1 DEF Load, HuskTypeOK, Holders, Holds, Walkers
  <2>2. HuskTypeOK'
    BY <1>1 DEF Load, HuskTypeOK
  <2>3. CountInv'
    BY <1>1, <2>1, SameCounts DEF Load
  <2>4. LifeInv'
    BY <1>1, <2>1 DEF Load, HuskTypeOK, LifeInv
  <2>5. EntryInv'
    BY <1>1 DEF Load, HuskTypeOK, EntryInv
  <2>6. WindowInv'
    BY <1>1 DEF Load, HuskTypeOK, WindowInv, WalkExcludesSweep
  <2> QED BY <2>2, <2>3, <2>4, <2>5, <2>6
<1>2. CASE Park(t)
  <2>1. Holders' = Holders /\ Walkers' = Walkers /\ t \in Holders
    BY <1>2 DEF Park, HuskTypeOK, Holders, Holds, Walkers
  <2>2. HuskTypeOK'
    BY <1>2 DEF Park, HuskTypeOK
  <2>3. CountInv'
    BY <1>2, <2>1, SameCounts DEF Park
  <2>4. LifeInv'
    BY <1>2, <2>1 DEF Park, HuskTypeOK, LifeInv
  <2>5. EntryInv'
    BY <1>2, <2>1 DEF Park, AlreadyParked, HuskTypeOK, EntryInv, LifeInv
  <2>6. WindowInv'
    BY <1>2 DEF Park, HuskTypeOK, WindowInv, WalkExcludesSweep
  <2> QED BY <2>2, <2>3, <2>4, <2>5, <2>6
<1>3. CASE AppendRoots(t)
  <2>1. Holders' = Holders /\ Walkers' = Walkers
    BY <1>3 DEF AppendRoots, HuskTypeOK, Holders, Holds, Walkers, Sweeps
  <2>2. HuskTypeOK'
    BY <1>3 DEF AppendRoots, HuskTypeOK, Sweeps
  <2>3. CountInv'
    BY <1>3, <2>1, SameCounts DEF AppendRoots
  <2>4. LifeInv'
    BY <1>3, <2>1 DEF AppendRoots, HuskTypeOK, LifeInv
  <2>5. EntryInv'
    BY <1>3 DEF AppendRoots, HuskTypeOK, EntryInv
  <2>6. WindowInv'
    BY <1>3 DEF AppendRoots, HuskTypeOK, WindowInv, WalkExcludesSweep
  <2> QED BY <2>2, <2>3, <2>4, <2>5, <2>6
<1>4. CASE Decrement(t)
  <2>1. t \in Holders /\ Holders' = Holders \ {t} /\ Walkers' = Walkers
    BY <1>4 DEF Decrement, HuskTypeOK, Holders, Holds, Walkers, Sweeps
  <2>2. HuskTypeOK'
    BY <1>0, <1>4, <2>1 DEF Decrement, HuskTypeOK
  <2>3. CountInv'
    BY <1>4, <2>1, DropCount DEF Decrement
  <2>4. LifeInv'
    BY <1>0, <1>4, <2>1 DEF Decrement, HuskTypeOK, LifeInv
  <2>5. EntryInv'
    BY <1>4 DEF Decrement, HuskTypeOK, EntryInv
  <2>6. WindowInv'
    BY <1>4 DEF Decrement, HuskTypeOK, WindowInv, WalkExcludesSweep
  <2> QED BY <2>2, <2>3, <2>4, <2>5, <2>6
<1>5. CASE Finish(t)
  <2>1. Holders' = Holders /\ Walkers' = Walkers /\ Holders = {}
    BY <1>5 DEF Finish, HuskTypeOK, Holders, Holds, Walkers, Sweeps, LifeInv
  <2>2. HuskTypeOK'
    BY <1>5 DEF Finish, HuskTypeOK
  <2>3. CountInv'
    BY <1>5, <2>1, SameCounts DEF Finish
  <2>4. LifeInv'
    BY <1>5, <2>1 DEF Finish, HuskTypeOK, LifeInv
  <2>5. EntryInv'
    BY <1>5 DEF Finish, HuskTypeOK, EntryInv, LifeInv
  <2>6. WindowInv'
    BY <1>5 DEF Finish, HuskTypeOK, WindowInv, WalkExcludesSweep
  <2> QED BY <2>2, <2>3, <2>4, <2>5, <2>6
<1> QED BY <1>1, <1>2, <1>3, <1>4, <1>5

\* The steps of cc_sweep_husks and of the window of cc_worker_collect.
LEMMA WindowStep ==
    ASSUME FiniteThreads, HuskInv, NEW t \in Threads,
           \/ SweepBegin(t) \/ SweepCheck(t) \/ SweepFree(t)
           \/ WalkBegin(t) \/ WalkCheck(t) \/ WalkEnd(t)
    PROVE  HuskInv'
<1> USE DEF HuskInv, Goto, object, flags
<1>0. /\ rc = 0 <=> Holders = {}
      /\ walkers = 0 <=> Walkers = {}
  BY CountFacts
<1>1. CASE SweepBegin(t)
  <2>1. Holders' = Holders /\ Walkers' = Walkers
    BY <1>1 DEF SweepBegin, HuskTypeOK, Holders, Holds, Walkers, Sweeps
  <2>2. HuskTypeOK'
    BY <1>1 DEF SweepBegin, HuskTypeOK, Sweeps
  <2>3. CountInv'
    BY <1>1, <2>1, SameCounts DEF SweepBegin
  <2>4. LifeInv'
    BY <1>1, <2>1 DEF SweepBegin, HuskTypeOK, LifeInv
  <2>5. EntryInv'
    BY <1>1 DEF SweepBegin, HuskTypeOK, EntryInv
  <2>6. WindowInv'
    BY <1>1 DEF SweepBegin, HuskTypeOK, WindowInv, WalkExcludesSweep
  <2> QED BY <2>2, <2>3, <2>4, <2>5, <2>6
<1>2. CASE SweepCheck(t)
  <2>1. Holders' = Holders /\ Walkers' = Walkers
    BY <1>2 DEF SweepCheck, HuskTypeOK, Holders, Holds, Walkers, Sweeps
  <2>2. HuskTypeOK'
    BY <1>2 DEF SweepCheck, HuskTypeOK, Sweeps
  <2>3. CountInv'
    BY <1>2, <2>1, SameCounts DEF SweepCheck
  <2>4. LifeInv'
    BY <1>2, <2>1 DEF SweepCheck, HuskTypeOK, LifeInv
  <2>5. EntryInv'
    BY <1>2 DEF SweepCheck, HuskTypeOK, EntryInv
  <2>6. WindowInv'
    BY <1>0, <1>2 DEF SweepCheck, HuskTypeOK, WindowInv, WalkExcludesSweep, Walkers
  <2> QED BY <2>2, <2>3, <2>4, <2>5, <2>6
<1>3. CASE SweepFree(t)
  <2>1. Holders' = Holders /\ Walkers' = Walkers
    BY <1>3 DEF SweepFree, HuskTypeOK, Holders, Holds, Walkers, Sweeps
  <2>2. HuskTypeOK'
    <3>1. listed' \in Nat /\ pc' = [pc EXCEPT ![t] = back[t]]
      BY <1>3 DEF SweepFree, HuskTypeOK
    <3>2. pc' \in [Threads -> {"owner", "park", "append", "dec", "finish", "gone",
                               "walk_check", "walking"} \union Sweeps]
      BY <3>1 DEF HuskTypeOK
    <3>3. mem' \in {"live", "husk", "freed"} /\ buf' \in BOOLEAN /\ sweeping' \in BOOLEAN
      BY <1>3 DEF SweepFree, HuskTypeOK
    <3> QED BY <1>3, <3>1, <3>2, <3>3 DEF SweepFree, HuskTypeOK
  <2>3. CountInv'
    BY <1>3, <2>1, SameCounts DEF SweepFree
  <2>4. LifeInv'
    BY <1>0, <1>3, <2>1 DEF SweepFree, IsHusk, HuskTypeOK, LifeInv, EntryInv
  <2>5. EntryInv'
    BY <1>0, <1>3 DEF SweepFree, IsHusk, HuskTypeOK, EntryInv, LifeInv, Holders, Holds
  <2>6. WindowInv'
    BY <1>3 DEF SweepFree, HuskTypeOK, WindowInv, WalkExcludesSweep
  <2> QED BY <2>2, <2>3, <2>4, <2>5, <2>6
<1>4. CASE WalkBegin(t)
  <2>1. Holders' = Holders /\ t \notin Walkers /\ Walkers' = Walkers \union {t}
    BY <1>4 DEF WalkBegin, HuskTypeOK, Holders, Holds, Walkers, Sweeps
  <2>2. HuskTypeOK'
    BY <1>4 DEF WalkBegin, HuskTypeOK
  <2>3. CountInv'
    BY <1>4, <2>1, EnterCount DEF WalkBegin
  <2>4. LifeInv'
    BY <1>4, <2>1 DEF WalkBegin, HuskTypeOK, LifeInv
  <2>5. EntryInv'
    BY <1>4 DEF WalkBegin, HuskTypeOK, EntryInv
  <2>6. WindowInv'
    BY <1>4 DEF WalkBegin, HuskTypeOK, WindowInv, WalkExcludesSweep
  <2> QED BY <2>2, <2>3, <2>4, <2>5, <2>6
<1>5. CASE WalkCheck(t)
  <2>1. /\ Holders' = Holders /\ t \in Walkers
        /\ Walkers' = IF sweeping THEN Walkers \ {t} ELSE Walkers
    BY <1>5 DEF WalkCheck, SweepSeen, HuskTypeOK, Holders, Holds, Walkers, Sweeps
  <2>2. HuskTypeOK'
    BY <1>0, <1>5, <2>1 DEF WalkCheck, HuskTypeOK
  <2>3. CountInv'
    <3>1. CASE sweeping
      BY <1>5, <2>1, <3>1, LeaveCount DEF WalkCheck, SweepSeen
    <3>2. CASE ~sweeping
      BY <1>5, <2>1, <3>2, SameCounts DEF WalkCheck, SweepSeen
    <3> QED BY <3>1, <3>2
  <2>4. LifeInv'
    BY <1>5, <2>1 DEF WalkCheck, HuskTypeOK, LifeInv
  <2>5. EntryInv'
    BY <1>5 DEF WalkCheck, HuskTypeOK, EntryInv
  <2>6. WindowInv'
    BY <1>5 DEF WalkCheck, SweepSeen, HuskTypeOK, WindowInv, WalkExcludesSweep
  <2> QED BY <2>2, <2>3, <2>4, <2>5, <2>6
<1>6. CASE WalkEnd(t)
  <2>1. Holders' = Holders /\ t \in Walkers /\ Walkers' = Walkers \ {t}
    BY <1>6 DEF WalkEnd, HuskTypeOK, Holders, Holds, Walkers, Sweeps
  <2>2. HuskTypeOK'
    BY <1>0, <1>6, <2>1 DEF WalkEnd, HuskTypeOK, Sweeps
  <2>3. CountInv'
    BY <1>6, <2>1, LeaveCount DEF WalkEnd
  <2>4. LifeInv'
    BY <1>6, <2>1 DEF WalkEnd, HuskTypeOK, LifeInv
  <2>5. EntryInv'
    BY <1>6 DEF WalkEnd, HuskTypeOK, EntryInv
  <2>6. WindowInv'
    BY <1>6 DEF WalkEnd, HuskTypeOK, WindowInv, WalkExcludesSweep
  <2> QED BY <2>2, <2>3, <2>4, <2>5, <2>6
<1> QED BY <1>1, <1>2, <1>3, <1>4, <1>5, <1>6

LEMMA HuskStep == ASSUME FiniteThreads, HuskInv, [Next]_vars PROVE HuskInv'
<1>1. CASE Next
  <2>1. PICK t \in Threads :
            \/ Load(t) \/ Park(t) \/ AppendRoots(t) \/ Decrement(t) \/ Finish(t)
            \/ SweepBegin(t) \/ SweepCheck(t) \/ SweepFree(t)
            \/ WalkBegin(t) \/ WalkCheck(t) \/ WalkEnd(t)
    BY <1>1 DEF Next
  <2>2. CASE Load(t) \/ Park(t) \/ AppendRoots(t) \/ Decrement(t) \/ Finish(t)
    BY <2>2, ReleaseStep
  <2>3. CASE \/ SweepBegin(t) \/ SweepCheck(t) \/ SweepFree(t)
             \/ WalkBegin(t) \/ WalkCheck(t) \/ WalkEnd(t)
    BY <2>3, WindowStep
  <2> QED BY <2>1, <2>2, <2>3
<1>2. CASE UNCHANGED vars
  BY <1>2 DEF vars, HuskInv, HuskTypeOK, CountInv, LifeInv, EntryInv, WindowInv,
              WalkExcludesSweep, Holders, Holds, Walkers
<1> QED BY <1>1, <1>2

\* beans_release, cc_append_roots, cc_sweep_husks and the walk window, for any
\* number of threads: a shell is freed once, after its last touch, and never
\* while a walk may still read it.
THEOREM SweepCorrect == ASSUME FiniteThreads PROVE Spec => []SweepSafe
<1>1. Init => HuskInv
  BY InitHusk
<1>2. HuskInv /\ [Next]_vars => HuskInv'
  BY HuskStep
<1>3. HuskInv => SweepSafe
  <2> SUFFICES ASSUME HuskInv PROVE SweepSafe
    OBVIOUS
  <2>1. NoUseAfterFree
    BY DEF HuskInv, LifeInv, Holders, Holds, Sweeps, NoUseAfterFree
  <2>2. OneEntryPerHusk
    BY DEF HuskInv, HuskTypeOK, LifeInv, EntryInv, Holders, Holds, OneEntryPerHusk
  <2>3. WalkExcludesSweep
    BY DEF HuskInv, WindowInv
  <2> QED BY <2>1, <2>2, <2>3 DEF SweepSafe
<1> QED BY <1>1, <1>2, <1>3, PTL DEF Spec


(***************************************************************************)
(* FileHandles                                                             *)
(***************************************************************************)
\* What is asked of the constants: a word has values, the number of a closed
\* handle (-1 in the code) is no descriptor, files hold numbers and Nobody is
\* no descriptor and no record.
HandleRecs == [kind : {"file", "map", "shm"}, owner : FileThreads, fd : Nums \union {Closed},
               closed : BOOLEAN, len : Nat, writable : BOOLEAN]
FdRecs == [by : Handles, mode : {"r", "rw", "append"}, at : Nat]
FilesHold ==
    /\ Half \in Nat \ {0} /\ Closed \notin Nums
    /\ Contents \subseteq Seq(Nat) /\ Payloads \subseteq Seq(Nat) /\ Positions \subseteq Int
    /\ Nobody \notin Nums \union HandleRecs \union FdRecs

Transfers == [op : {"read", "write"}, h : Handles, start : Nat, n : Nat, done : Nat,
              bytes : Seq(Nat), cursor : BOOLEAN, was : Seq(Nat), quiet : BOOLEAN]

\* The types the proof needs; the size of the file and the number of calls are
\* left open.
FileTypeOK ==
    /\ handle \in [Handles -> HandleRecs \union {Nobody}]
    /\ fds \in [Nums -> FdRecs \union {Nobody}]
    /\ mapped \in [Handles -> Nat] /\ data \in Seq(Nat)
    /\ flocked \in Nums \union {Nobody}
    /\ transfer \in [FileThreads -> Transfers \union {Idle}]

\* A handle that is open has the descriptor it was opened with, and all that it
\* takes to be mapped is.
OpenInv ==
    \A h \in Handles :
        /\ handle[h] = Nobody => mapped[h] = 0
        /\ handle[h] # Nobody /\ ~handle[h].closed =>
              /\ handle[h].kind # "shm" => Fd(h) \in Nums
              /\ handle[h].kind # "file" => mapped[h] = handle[h].len

\* A transfer keeps its handle: only the owner could close or give it away, and
\* the owner is busy.  What a quiet reader reads is what it began with.
Busy(t) ==
    LET c == transfer[t] IN c # Idle =>
        /\ Owns(t, c.h) /\ IsFile(c.h) /\ ~handle[c.h].closed
        /\ c.done <= c.n /\ (c.op = "write" => c.n = Len(c.bytes))
        /\ c.op = "read" /\ c.quiet => data = c.was
BusyInv == \A t \in FileThreads : Busy(t)

FileInv == FileTypeOK /\ OpenInv /\ DescriptorsOwned /\ BusyInv /\ TransfersExact

-----------------------------------------------------------------------------

LEMMA PutIsSeq ==
  ASSUME NEW s \in Seq(Nat), NEW a \in Nat, NEW u \in Seq(Nat)
  PROVE  /\ Put(s, a, u) \in Seq(Nat)
         /\ Len(Put(s, a, u)) = Larger(Len(s), a + Len(u))
         /\ \A i \in 1..Larger(Len(s), a + Len(u)) : Put(s, a, u)[i] =
              IF i > a /\ i <= a + Len(u) THEN u[i - a] ELSE IF i <= Len(s) THEN s[i] ELSE 0
<1> DEFINE n == Larger(Len(s), a + Len(u))
           e(i) == IF i > a /\ i <= a + Len(u) THEN u[i - a] ELSE IF i <= Len(s) THEN s[i] ELSE 0
<1>1. n \in Nat /\ Len(s) \in Nat /\ Len(u) \in Nat
  BY LenProperties DEF Larger
<1>2. \A i \in 1..n : e(i) \in Nat
  <2> SUFFICES ASSUME NEW i \in 1..n PROVE e(i) \in Nat
    OBVIOUS
  <2>1. CASE i > a /\ i <= a + Len(u)
    <3>1. i - a \in 1..Len(u)
      BY <2>1, <1>1
    <3> QED BY <3>1, <2>1, ElementOfSeq
  <2>2. CASE ~(i > a /\ i <= a + Len(u)) /\ i <= Len(s)
    <3>1. i \in 1..Len(s)
      BY <2>2, <1>1
    <3> QED BY <3>1, <2>2, ElementOfSeq
  <2> QED BY <2>1, <2>2
<1>3. Put(s, a, u) = [i \in 1..n |-> e(i)]
  BY DEF Put
<1> HIDE DEF n, e
<1>4. [i \in 1..n |-> e(i)] \in Seq(Nat) /\ Len([i \in 1..n |-> e(i)]) = n
  BY <1>1, <1>2
<1>5. \A i \in 1..n : [j \in 1..n |-> e(j)][i] = e(i)
  OBVIOUS
<1> QED BY <1>3, <1>4, <1>5 DEF n, e

LEMMA ResizedIsSeq ==
  ASSUME NEW s \in Seq(Nat), NEW n \in Nat
  PROVE  Resized(s, n) \in Seq(Nat) /\ Len(Resized(s, n)) = n
<1>1. \A i \in 1..n : (IF i <= Len(s) THEN s[i] ELSE 0) \in Nat
  BY ElementOfSeq, LenProperties
<1> QED BY <1>1 DEF Resized

LEMMA PutOnPut ==
  ASSUME NEW s \in Seq(Nat), NEW a \in Nat, NEW u \in Seq(Nat), NEW v \in Seq(Nat)
  PROVE  Put(Put(s, a, u), a + Len(u), v) = Put(s, a, u \o v)
<1> DEFINE p == Put(s, a, u)
           b == a + Len(u)
           l == Put(p, b, v)
           w == u \o v
           r == Put(s, a, w)
<1>1. Len(s) \in Nat /\ Len(u) \in Nat /\ Len(v) \in Nat
  BY LenProperties
<1>2. w \in Seq(Nat) /\ Len(w) = Len(u) + Len(v)
      /\ \A i \in 1..(Len(u) + Len(v)) : w[i] = IF i <= Len(u) THEN u[i] ELSE v[i - Len(u)]
  BY ConcatProperties
<1>3. /\ p \in Seq(Nat) /\ Len(p) = Larger(Len(s), b)
      /\ \A i \in 1..Len(p) : p[i] =
           IF i > a /\ i <= b THEN u[i - a] ELSE IF i <= Len(s) THEN s[i] ELSE 0
  BY PutIsSeq
<1>4. /\ l \in Seq(Nat) /\ Len(l) = Larger(Len(p), b + Len(v))
      /\ \A i \in 1..Len(l) : l[i] =
           IF i > b /\ i <= b + Len(v) THEN v[i - b] ELSE IF i <= Len(p) THEN p[i] ELSE 0
  <2>1. b \in Nat
    BY <1>1
  <2> HIDE DEF p, b
  <2> QED BY <2>1, <1>3, PutIsSeq
<1>5. /\ r \in Seq(Nat) /\ Len(r) = Larger(Len(s), a + Len(w))
      /\ \A i \in 1..Len(r) : r[i] =
           IF i > a /\ i <= a + Len(w) THEN w[i - a] ELSE IF i <= Len(s) THEN s[i] ELSE 0
  <2>1. w \in Seq(Nat)
    BY <1>2
  <2> HIDE DEF w
  <2> QED BY <2>1, PutIsSeq
<1> HIDE DEF p, l, w, r
<1>6. Len(l) = Len(r)
  BY <1>1, <1>2, <1>3, <1>4, <1>5 DEF Larger
<1>7. ASSUME NEW i \in 1..Len(l) PROVE l[i] = r[i]
  <2>1. l[i] = IF i > b /\ i <= b + Len(v) THEN v[i - b] ELSE IF i <= Len(p) THEN p[i] ELSE 0
    BY <1>4
  <2>2. r[i] = IF i > a /\ i <= a + Len(w) THEN w[i - a] ELSE IF i <= Len(s) THEN s[i] ELSE 0
    BY <1>5, <1>6
  <2>3. i \in Nat /\ i > 0 /\ i <= Len(l)
    BY LenProperties, <1>4
  <2>4. CASE i > b /\ i <= b + Len(v)
    <3>1. w[i - a] = v[i - b]
      <4>1. i - a \in 1..(Len(u) + Len(v)) /\ ~(i - a <= Len(u)) /\ (i - a) - Len(u) = i - b
        BY <2>4, <2>3, <1>1
      <4> QED BY <4>1, <1>2
    <3> QED BY <3>1, <2>1, <2>2, <2>3, <2>4, <1>1, <1>2
  <2>5. CASE i > a /\ i <= b
    <3>1. i \in 1..Len(p)
      BY <2>5, <2>3, <1>1, <1>3 DEF Larger
    <3>2. p[i] = u[i - a]
      BY <3>1, <2>5, <1>3
    <3>3. w[i - a] = u[i - a]
      <4>1. i - a \in 1..(Len(u) + Len(v)) /\ i - a <= Len(u)
        BY <2>5, <2>3, <1>1
      <4> QED BY <4>1, <1>2
    <3>4. i <= Len(p)
      BY <3>1, <1>3, LenProperties
    <3>5. l[i] = p[i]
      BY <2>1, <2>5, <2>3, <1>1, <3>4
    <3> QED BY <3>2, <3>3, <3>5, <2>2, <2>3, <2>5, <1>1, <1>2
  <2>6. CASE i <= a \/ i > b + Len(v)
    <3>1. Len(p) \in Nat
      BY <1>3, LenProperties
    <3>2. l[i] = IF i <= Len(p) THEN p[i] ELSE 0
      BY <2>1, <2>3, <2>6, <1>1
    <3>3. r[i] = IF i <= Len(s) THEN s[i] ELSE 0
      BY <2>2, <2>3, <2>6, <1>1, <1>2
    <3>4. i <= Len(p) => p[i] = IF i <= Len(s) THEN s[i] ELSE 0
      BY <3>1, <2>3, <2>6, <1>1, <1>3
    <3>5. i <= Len(s) => i <= Len(p)
      BY <2>3, <1>1, <1>3 DEF Larger
    <3> QED BY <3>2, <3>3, <3>4, <3>5
  <2> QED BY <2>3, <2>4, <2>5, <2>6, <1>1
<1> QED BY <1>4, <1>5, <1>6, <1>7, SeqEqual DEF l, p, b, r, w

LEMMA WrappedBelow ==
  ASSUME NEW x \in Nat, Half \in Nat \ {0}
  PROVE  Wrapped(x) \in Int /\ Wrapped(x) <= x
<1> DEFINE y == x + Half
           m == 2 * Half
<1>1. y \in Nat /\ m \in Nat /\ m > 0
  OBVIOUS
<1>2. y % m \in Nat /\ y % m <= y
  <2> HIDE DEF y, m
  <2>1. y % m \in 0..(m - 1)
    BY <1>1
  <2>2. y = m * (y \div m) + (y % m)
    BY <1>1
  <2>3. y \div m \in Nat
    BY <1>1
  <2>4. m * (y \div m) \in Nat
    BY <1>1, <2>3
  <2> QED BY <1>1, <2>1, <2>2, <2>4
<1>3. Wrapped(x) = (y % m) - Half
  BY DEF Wrapped
<1> QED BY <1>1, <1>2, <1>3

\* Parts of a sequence: what lies between two positions.
LEMMA PartIsSeq ==
  ASSUME NEW s \in Seq(Nat), NEW a \in Nat, NEW b \in Nat, a <= b, b <= Len(s)
  PROVE  SubSeq(s, a + 1, b) \in Seq(Nat) /\ Len(SubSeq(s, a + 1, b)) = b - a
<1> DEFINE m == a + 1
           p == SubSeq(s, m, b)
<1>1. ASSUME NEW i \in m..b PROVE s[i] \in Nat
  <2>1. i \in 1..Len(s)
    BY LenProperties
  <2> QED BY <2>1, ElementOfSeq
<1>2. m \in Int /\ b \in Int
  OBVIOUS
<1>3. p \in Seq(Nat) /\ Len(p) = IF m <= b THEN b - m + 1 ELSE 0
  <2> HIDE DEF m
  <2> QED BY <1>1, <1>2, SubSeqProperties
<1> HIDE DEF p
<1>4. Len(p) = b - a
  BY <1>3
<1> QED BY <1>3, <1>4 DEF p

LEMMA AdjacentParts ==
  ASSUME NEW s \in Seq(Nat), NEW a \in Nat, NEW b \in Nat, NEW c \in Nat,
         a <= b, b <= c, c <= Len(s)
  PROVE  SubSeq(s, a + 1, b) \o SubSeq(s, b + 1, c) = SubSeq(s, a + 1, c)
<1> DEFINE m == a + 1
<1>1. Len(s) \in Nat
  BY LenProperties
<1>2. m \in 1..(Len(s) + 1) /\ b \in (m - 1)..Len(s) /\ c \in b..Len(s)
  BY <1>1
<1> HIDE DEF m
<1>3. SubSeq(s, m, b) \o SubSeq(s, b + 1, c) = SubSeq(s, m, c)
  BY <1>2, ConcatAdjacentSubSeq
<1> QED BY <1>3 DEF m

LEMMA PartOfRest ==
  ASSUME NEW s \in Seq(Nat), NEW a \in Nat, NEW k \in Nat, k > 0, a + k <= Len(s)
  PROVE  SubSeq(SubSeq(s, a + 1, Len(s)), 1, k) = SubSeq(s, a + 1, a + k)
<1> DEFINE i == a + 1
           j == Len(s)
           u == SubSeq(s, i, j)
           v == SubSeq(u, 1, k)
           w == SubSeq(s, i, a + k)
<1>1. j \in Nat /\ a <= j /\ a + k \in Nat /\ a <= a + k
  BY LenProperties
<1>2. u \in Seq(Nat) /\ Len(u) = j - a /\ w \in Seq(Nat) /\ Len(w) = k
  <2>1. u \in Seq(Nat) /\ Len(u) = j - a
    BY <1>1, PartIsSeq
  <2>2. w \in Seq(Nat) /\ Len(w) = (a + k) - a
    <3> DEFINE b == a + k
    <3>1. b \in Nat /\ a <= b /\ b <= Len(s)
      BY <1>1
    <3> HIDE DEF b
    <3>2. SubSeq(s, a + 1, b) \in Seq(Nat) /\ Len(SubSeq(s, a + 1, b)) = b - a
      BY <3>1, PartIsSeq
    <3> QED BY <3>2 DEF b
  <2> QED BY <2>1, <2>2
<1>3. \A x \in 1..(j - a) : u[x] = s[a + x]
  <2>1. \A x \in i..j : s[x] \in Nat
    BY <1>1, ElementOfSeq
  <2>2. i \in Int /\ j \in Int
    BY <1>1
  <2>3. \A x \in 1..(j - i + 1) : u[x] = s[i + x - 1]
    <3> HIDE DEF i, j
    <3> QED BY <2>1, <2>2, SubSeqProperties
  <2>4. j - i + 1 = j - a /\ \A x \in 1..(j - a) : i + x - 1 = a + x
    BY <1>1
  <2> QED BY <2>3, <2>4
<1>4. \A x \in 1..k : w[x] = s[a + x]
  <2> DEFINE b == a + k
  <2>1. \A x \in i..b : s[x] \in Nat
    BY <1>1, ElementOfSeq
  <2>2. i \in Int /\ b \in Int
    BY <1>1
  <2>3. \A x \in 1..(b - i + 1) : SubSeq(s, i, b)[x] = s[i + x - 1]
    <3> HIDE DEF i, b
    <3> QED BY <2>1, <2>2, SubSeqProperties
  <2>4. b - i + 1 = k /\ \A x \in 1..k : i + x - 1 = a + x
    BY <1>1
  <2> QED BY <2>3, <2>4
<1>5. v \in Seq(Nat) /\ Len(v) = k /\ \A x \in 1..k : v[x] = u[x]
  <2> HIDE DEF u
  <2>1. \A x \in 1..k : u[x] \in Nat
    <3>1. \A x \in 1..k : x \in 1..Len(u)
      BY <1>1, <1>2
    <3> QED BY <3>1, <1>2, ElementOfSeq
  <2> DEFINE one == 1
  <2>2. one \in Int /\ k \in Int /\ \A x \in one..k : u[x] \in Nat
    BY <2>1
  <2> HIDE DEF one
  <2>3. /\ SubSeq(u, one, k) \in Seq(Nat)
        /\ Len(SubSeq(u, one, k)) = IF one <= k THEN k - one + 1 ELSE 0
        /\ \A x \in 1..(k - one + 1) : SubSeq(u, one, k)[x] = u[one + x - 1]
    BY <2>2, SubSeqProperties
  <2>4. one <= k /\ k - one + 1 = k /\ \A x \in 1..k : one + x - 1 = x
    BY DEF one
  <2>5. SubSeq(u, one, k) = v
    BY DEF one
  <2> QED BY <2>3, <2>4, <2>5
<1> HIDE DEF u, v, w
<1>6. \A x \in 1..k : v[x] = w[x]
  <2>1. \A x \in 1..k : x \in 1..(j - a)
    BY <1>1
  <2> QED BY <2>1, <1>3, <1>4, <1>5
<1>7. v = w
  BY <1>2, <1>5, <1>6, SeqEqual
<1> QED BY <1>7 DEF u, v, w

\* Facts that hold in every state of the invariant.
LEMMA HandleFacts ==
  ASSUME FileInv, NEW h \in Handles, handle[h] # Nobody
  PROVE  /\ handle[h] \in HandleRecs
         /\ Fd(h) # Closed => Fd(h) \in Nums /\ fds[Fd(h)] \in FdRecs /\ fds[Fd(h)].by = h
BY DEF FileInv, FileTypeOK, DescriptorsOwned, HandleRecs, Fd, Closed

LEMMA FdFacts ==
  ASSUME FileInv, NEW n \in Nums, fds[n] # Nobody
  PROVE  /\ fds[n] \in FdRecs /\ fds[n].by \in Handles
         /\ handle[fds[n].by] # Nobody /\ Fd(fds[n].by) = n
BY DEF FileInv, FileTypeOK, DescriptorsOwned, FdRecs

\* A busy thread has an open file of its own.
LEMMA BusyFacts ==
  ASSUME FileInv, FilesHold, NEW u \in FileThreads, transfer[u] # Idle
  PROVE  /\ transfer[u] \in Transfers /\ transfer[u].h \in Handles
         /\ handle[transfer[u].h] # Nobody /\ handle[transfer[u].h] \in HandleRecs
         /\ handle[transfer[u].h].owner = u
         /\ handle[transfer[u].h].kind = "file" /\ ~handle[transfer[u].h].closed
         /\ Fd(transfer[u].h) \in Nums /\ fds[Fd(transfer[u].h)] \in FdRecs
         /\ fds[Fd(transfer[u].h)].by = transfer[u].h
<1> DEFINE c == transfer[u]
<1>1. c \in Transfers /\ c.h \in Handles
  BY DEF FileInv, FileTypeOK, Transfers
<1>2. /\ handle[c.h] # Nobody /\ handle[c.h].owner = u
      /\ handle[c.h].kind = "file" /\ ~handle[c.h].closed
  BY <1>1 DEF FileInv, BusyInv, Busy, Owns, IsFile
<1>3. Fd(c.h) \in Nums
  BY <1>1, <1>2 DEF FileInv, OpenInv
<1>4. Fd(c.h) # Closed
  BY <1>3 DEF FilesHold
<1> QED BY <1>1, <1>2, <1>3, <1>4, HandleFacts

\* Whoever is left alone keeps what it has.
LEMMA LeftAlone ==
  ASSUME NEW u \in FileThreads, Busy(u), Exact(u), transfer'[u] = transfer[u], data' = data,
         transfer[u] # Idle => /\ handle'[transfer[u].h] = handle[transfer[u].h]
                               /\ fds'[Fd(transfer[u].h)] = fds[Fd(transfer[u].h)]
  PROVE  Busy(u)' /\ Exact(u)'
<1>1. Busy(u)'
  BY DEF Busy, Owns, IsFile
<1>2. Exact(u)'
  BY DEF Exact, At, Fd
<1> QED BY <1>1, <1>2

LEMMA Disturbs ==
  ASSUME NEW t \in FileThreads, NEW u \in FileThreads, u # t, Busy(u),
         FileTypeOK, transfer'[u] = Disturbed(t)[u],
         transfer[u] # Idle => handle'[transfer[u].h] = handle[transfer[u].h]
  PROVE  Busy(u)' /\ Exact(u)'
<1>1. CASE transfer[u] = Idle
  <2>1. transfer'[u] = Idle
    BY <1>1 DEF Disturbed
  <2> QED BY <2>1 DEF Busy, Exact
<1>2. CASE transfer[u] # Idle
  <2> DEFINE c == transfer[u]
             d == transfer'[u]
  <2>1. c \in Transfers
    BY <1>2 DEF FileTypeOK
  <2>2. d = [c EXCEPT !.quiet = FALSE]
    BY <1>2 DEF Disturbed
  <2>3. d.h = c.h /\ d.op = c.op /\ d.n = c.n /\ d.done = c.done /\ d.bytes = c.bytes
        /\ ~d.quiet
    BY <2>1, <2>2 DEF Transfers
  <2>4. Busy(u)'
    BY <1>2, <2>3 DEF Busy, Owns, IsFile
  <2>5. Exact(u)'
    BY <2>3 DEF Exact
  <2> QED BY <2>4, <2>5
<1> QED BY <1>1, <1>2

\* The types of the transfers after others have been disturbed.
LEMMA DisturbedTyped ==
  ASSUME FileTypeOK, NEW t \in FileThreads
  PROVE  /\ Disturbed(t) \in [FileThreads -> Transfers \union {Idle}]
         /\ Disturbed(t)[t] = transfer[t]
<1>1. ASSUME NEW u \in FileThreads, transfer[u] # Idle
      PROVE  [transfer[u] EXCEPT !.quiet = FALSE] \in Transfers
  BY <1>1 DEF FileTypeOK, Transfers
<1> QED BY <1>1 DEF Disturbed, FileTypeOK

\* The position moves and nothing else of the descriptor does.
LEMMA MovedFacts ==
  ASSUME FileInv, FilesHold, NEW h \in Handles, handle[h] # Nobody, Fd(h) \in Nums,
         NEW pos \in Nat, Moved(h, pos)
  PROVE  /\ fds' \in [Nums -> FdRecs \union {Nobody}]
         /\ \A n \in Nums : /\ n # Fd(h) => fds'[n] = fds[n]
                            /\ fds'[n] # Nobody <=> fds[n] # Nobody
                            /\ fds[n] # Nobody => fds'[n].by = fds[n].by
         /\ fds'[Fd(h)].at = pos /\ fds'[Fd(h)].mode = fds[Fd(h)].mode
<1> DEFINE f == fds[Fd(h)]
<1>1. f \in FdRecs /\ fds \in [Nums -> FdRecs \union {Nobody}]
  BY HandleFacts DEF FilesHold, FileInv, FileTypeOK
<1>2. fds' = [fds EXCEPT ![Fd(h)] = [f EXCEPT !.at = pos]]
  BY DEF Moved
<1>3. [f EXCEPT !.at = pos] = [by |-> f.by, mode |-> f.mode, at |-> pos]
  BY <1>1 DEF FdRecs
<1>4. [by |-> f.by, mode |-> f.mode, at |-> pos] \in FdRecs
  BY <1>1 DEF FdRecs
<1>5. \A r \in FdRecs : r # Nobody
  BY DEF FilesHold
<1> QED BY <1>1, <1>2, <1>3, <1>4, <1>5

\* Handles and descriptors that point to each other still do.
LEMMA StillOwned ==
  ASSUME FileInv,
         \A h \in Handles : /\ handle'[h] # Nobody <=> handle[h] # Nobody
                            /\ handle[h] # Nobody => handle'[h].fd = handle[h].fd,
         \A n \in Nums : /\ fds'[n] # Nobody <=> fds[n] # Nobody
                         /\ fds[n] # Nobody => fds'[n].by = fds[n].by,
         flocked' = flocked
  PROVE  DescriptorsOwned'
<1>1. ASSUME NEW h \in Handles, handle'[h] # Nobody, handle'[h].fd # Closed
      PROVE  fds'[handle'[h].fd] # Nobody /\ fds'[handle'[h].fd].by = h
  <2>1. handle[h] # Nobody /\ handle'[h].fd = Fd(h) /\ Fd(h) # Closed
    BY <1>1 DEF Fd
  <2>2. Fd(h) \in Nums /\ fds[Fd(h)] # Nobody /\ fds[Fd(h)].by = h
    BY <2>1, HandleFacts DEF FileInv, DescriptorsOwned
  <2> QED BY <2>1, <2>2
<1>2. ASSUME NEW n \in Nums, fds'[n] # Nobody
      PROVE  handle'[fds'[n].by] # Nobody /\ handle'[fds'[n].by].fd = n
  <2>1. fds[n] # Nobody /\ fds'[n].by = fds[n].by
    BY <1>2
  <2> QED BY <2>1, FdFacts DEF Fd
<1>3. flocked' # Nobody => fds'[flocked'] # Nobody
  BY DEF FileInv, FileTypeOK, DescriptorsOwned
<1> QED BY <1>1, <1>2, <1>3 DEF DescriptorsOwned, Fd

\* What no transfer is about can change.
LEMMA AllLeftAlone ==
  ASSUME FileInv, transfer' = transfer, data' = data,
         \A u \in FileThreads : transfer[u] # Idle =>
            /\ handle'[transfer[u].h] = handle[transfer[u].h]
            /\ fds'[Fd(transfer[u].h)] = fds[Fd(transfer[u].h)]
  PROVE  BusyInv' /\ TransfersExact'
<1>1. ASSUME NEW u \in FileThreads PROVE Busy(u)' /\ Exact(u)'
  BY LeftAlone DEF FileInv, BusyInv, TransfersExact
<1> QED BY <1>1 DEF BusyInv, TransfersExact

LEMMA OsKeeps ==
  ASSUME FileInv, UNCHANGED <<handle, fds, mapped, data, flocked, transfer>>
  PROVE  FileInv'
<1>1. FileTypeOK'
  BY DEF FileInv, FileTypeOK
<1>2. OpenInv'
  BY DEF FileInv, OpenInv, Fd
<1>3. DescriptorsOwned'
  BY StillOwned
<1>4. BusyInv' /\ TransfersExact'
  BY AllLeftAlone
<1> QED BY <1>1, <1>2, <1>3, <1>4 DEF FileInv

LEMMA MoveKeeps ==
  ASSUME FileInv, FilesHold, NEW h \in Handles, NEW t \in FileThreads, NEW u \in FileThreads,
         Move(h, t, u)
  PROVE  FileInv'
<1>1. /\ handle[h] # Nobody /\ handle[h].owner = t /\ transfer[t] = Idle
      /\ handle' = [handle EXCEPT ![h].owner = u]
      /\ UNCHANGED <<fds, mapped, data, flocked, transfer>>
  BY DEF Move, Owns, os
<1>2. handle[h] \in HandleRecs /\ handle \in [Handles -> HandleRecs \union {Nobody}]
  BY <1>1, HandleFacts DEF FileInv, FileTypeOK
<1>3. handle' = [handle EXCEPT ![h] = [handle[h] EXCEPT !.owner = u]]
  BY <1>1
<1>4. [handle[h] EXCEPT !.owner = u] \in HandleRecs
  BY <1>2 DEF HandleRecs
<1>5. /\ handle'[h] \in HandleRecs /\ handle'[h] # Nobody /\ handle'[h].fd = handle[h].fd
      /\ handle'[h].kind = handle[h].kind /\ handle'[h].closed = handle[h].closed
      /\ handle'[h].len = handle[h].len
      /\ \A g \in Handles : g # h => handle'[g] = handle[g]
  BY <1>2, <1>3, <1>4 DEF HandleRecs, FilesHold
<1>6. FileTypeOK'
  BY <1>1, <1>2, <1>3, <1>4 DEF FileInv, FileTypeOK
<1>7. OpenInv'
  BY <1>1, <1>5 DEF FileInv, OpenInv, Fd
<1>8. DescriptorsOwned'
  BY <1>1, <1>5, StillOwned
<1>9. BusyInv' /\ TransfersExact'
  <2>1. ASSUME NEW v \in FileThreads, transfer[v] # Idle
        PROVE  transfer[v].h # h
    BY <1>1, <2>1, BusyFacts
  <2> QED BY <1>1, <1>5, <2>1, BusyFacts, AllLeftAlone
<1> QED BY <1>6, <1>7, <1>8, <1>9 DEF FileInv

\* The kernel forgets a number.
LEMMA ShutFacts ==
  ASSUME FileInv, FilesHold, NEW h \in Handles, handle[h] # Nobody, Shut(Fd(h))
  PROVE  /\ fds' \in [Nums -> FdRecs \union {Nobody}]
         /\ \A n \in Nums : n # Fd(h) => fds'[n] = fds[n]
         /\ \A n \in Nums : n = Fd(h) => fds'[n] = Nobody
         /\ flocked' \in Nums \union {Nobody}
         /\ flocked' # Nobody => flocked' = flocked /\ flocked # Fd(h)
BY HandleFacts DEF Shut, FileInv, FileTypeOK, FilesHold

LEMMA ShutOwned ==
  ASSUME FileInv, FilesHold, NEW h \in Handles, handle[h] # Nobody, Shut(Fd(h)),
         handle'[h] = Nobody \/ handle'[h].fd = Closed,
         \A g \in Handles : g # h => handle'[g] = handle[g]
  PROVE  DescriptorsOwned'
<1>1. ASSUME NEW g \in Handles, handle'[g] # Nobody, handle'[g].fd # Closed
      PROVE  fds'[handle'[g].fd] # Nobody /\ fds'[handle'[g].fd].by = g
  <2>1. g # h /\ handle[g] # Nobody /\ handle'[g].fd = Fd(g) /\ Fd(g) # Closed
    BY <1>1 DEF Fd
  <2>2. Fd(g) \in Nums /\ fds[Fd(g)] # Nobody /\ fds[Fd(g)].by = g
    BY <2>1, HandleFacts DEF FileInv, DescriptorsOwned
  <2>3. Fd(g) # Fd(h)
    <3>1. Fd(h) \in Nums => fds[Fd(h)].by = h
      BY HandleFacts DEF FilesHold
    <3> QED BY <3>1, <2>1, <2>2
  <2> QED BY <2>1, <2>2, <2>3, ShutFacts
<1>2. ASSUME NEW n \in Nums, fds'[n] # Nobody
      PROVE  handle'[fds'[n].by] # Nobody /\ handle'[fds'[n].by].fd = n
  <2>1. n # Fd(h) /\ fds'[n] = fds[n] /\ fds[n] # Nobody
    BY <1>2, ShutFacts
  <2>2. fds[n].by # h /\ handle[fds[n].by] # Nobody /\ Fd(fds[n].by) = n /\ fds[n].by \in Handles
    BY <2>1, FdFacts
  <2> QED BY <2>1, <2>2 DEF Fd
<1>3. flocked' # Nobody => fds'[flocked'] # Nobody
  BY ShutFacts DEF FileInv, FileTypeOK, DescriptorsOwned
<1> QED BY <1>1, <1>2, <1>3 DEF DescriptorsOwned, Fd

\* A handle whose owner is idle has no transfer, nor has its descriptor.
LEMMA NobodyBusy ==
  ASSUME FileInv, FilesHold, NEW t \in FileThreads, NEW h \in Handles,
         handle[h] # Nobody, handle[h].owner = t, transfer[t] = Idle,
         NEW u \in FileThreads, transfer[u] # Idle
  PROVE  /\ transfer[u].h # h /\ transfer[u].h \in Handles
         /\ Fd(transfer[u].h) \in Nums /\ Fd(transfer[u].h) # Fd(h)
<1>1. transfer[u].h # h /\ Fd(transfer[u].h) \in Nums /\ fds[Fd(transfer[u].h)].by = transfer[u].h
  BY BusyFacts
<1>2. Fd(h) \in Nums => fds[Fd(h)].by = h
  BY HandleFacts DEF FilesHold
<1> QED BY <1>1, <1>2, BusyFacts

LEMMA DropKeeps ==
  ASSUME FileInv, FilesHold, NEW h \in Handles, NEW t \in FileThreads, Drop(t, h)
  PROVE  FileInv'
<1>1. /\ handle[h] # Nobody /\ handle[h].owner = t /\ transfer[t] = Idle
      /\ handle' = [handle EXCEPT ![h] = Nobody] /\ mapped' = [mapped EXCEPT ![h] = 0]
      /\ Shut(Fd(h)) /\ UNCHANGED <<data, transfer>>
  BY DEF Drop, Owns, Fd
<1>2. /\ handle' \in [Handles -> HandleRecs \union {Nobody}] /\ mapped' \in [Handles -> Nat]
      /\ handle'[h] = Nobody /\ mapped'[h] = 0
      /\ \A g \in Handles : g # h => handle'[g] = handle[g] /\ mapped'[g] = mapped[g]
  BY <1>1 DEF FileInv, FileTypeOK
<1>3. FileTypeOK'
  BY <1>1, <1>2, ShutFacts DEF FileInv, FileTypeOK
<1>4. OpenInv'
  BY <1>2 DEF FileInv, OpenInv, Fd
<1>5. DescriptorsOwned'
  BY <1>1, <1>2, ShutOwned
<1>6. BusyInv' /\ TransfersExact'
  <2>1. ASSUME NEW u \in FileThreads, transfer[u] # Idle
        PROVE  /\ handle'[transfer[u].h] = handle[transfer[u].h]
               /\ fds'[Fd(transfer[u].h)] = fds[Fd(transfer[u].h)]
    BY <2>1, <1>1, <1>2, NobodyBusy, ShutFacts
  <2> QED BY <1>1, <2>1, AllLeftAlone
<1> QED BY <1>3, <1>4, <1>5, <1>6 DEF FileInv

LEMMA CloseKeeps ==
  ASSUME FileInv, FilesHold, NEW h \in Handles, NEW t \in FileThreads, beans_close(t, h)
  PROVE  FileInv'
<1>1. /\ handle[h] # Nobody /\ handle[h].owner = t /\ transfer[t] = Idle
      /\ UNCHANGED <<data, transfer>>
  BY DEF beans_close, BeginsOn, Begins, Owns
<1>2. handle[h] \in HandleRecs /\ handle \in [Handles -> HandleRecs \union {Nobody}]
  BY <1>1, HandleFacts DEF FileInv, FileTypeOK
<1>3. CASE workers # {}
  <2>1. /\ handle' = [handle EXCEPT ![h] = [handle[h] EXCEPT !.closed = TRUE]]
        /\ UNCHANGED <<fds, mapped, flocked>>
    BY <1>3 DEF beans_close
  <2>2. [handle[h] EXCEPT !.closed = TRUE] \in HandleRecs
    BY <1>2 DEF HandleRecs
  <2>3. /\ handle'[h] \in HandleRecs /\ handle'[h] # Nobody /\ handle'[h].fd = handle[h].fd
        /\ handle'[h].closed
        /\ \A g \in Handles : g # h => handle'[g] = handle[g]
    BY <1>2, <2>1, <2>2 DEF HandleRecs, FilesHold
  <2>4. FileTypeOK'
    BY <1>1, <1>2, <2>1, <2>2 DEF FileInv, FileTypeOK
  <2>5. OpenInv'
    BY <1>1, <2>1, <2>3 DEF FileInv, OpenInv, Fd
  <2>6. DescriptorsOwned'
    BY <1>1, <2>1, <2>3, StillOwned
  <2>7. BusyInv' /\ TransfersExact'
    BY <1>1, <2>1, <2>3, NobodyBusy, AllLeftAlone
  <2> QED BY <2>4, <2>5, <2>6, <2>7 DEF FileInv
<1>4. CASE workers = {}
  <2>1. /\ handle' = [handle EXCEPT ![h] = [handle[h] EXCEPT !.closed = TRUE, !.fd = Closed]]
        /\ Shut(Fd(h)) /\ mapped' = [mapped EXCEPT ![h] = 0]
    BY <1>4 DEF beans_close
  <2>2. [handle[h] EXCEPT !.closed = TRUE, !.fd = Closed] \in HandleRecs
    BY <1>2 DEF HandleRecs
  <2>3. /\ handle'[h] \in HandleRecs /\ handle'[h] # Nobody /\ handle'[h].fd = Closed
        /\ handle'[h].closed
        /\ \A g \in Handles : g # h => handle'[g] = handle[g]
    BY <1>2, <2>1, <2>2 DEF HandleRecs, FilesHold
  <2>4. /\ mapped' \in [Handles -> Nat] /\ mapped'[h] = 0
        /\ \A g \in Handles : g # h => mapped'[g] = mapped[g]
    BY <2>1 DEF FileInv, FileTypeOK
  <2>5. FileTypeOK'
    BY <1>1, <1>2, <2>1, <2>2, <2>4, ShutFacts DEF FileInv, FileTypeOK
  <2>6. OpenInv'
    BY <1>1, <2>3, <2>4 DEF FileInv, OpenInv, Fd
  <2>7. DescriptorsOwned'
    BY <1>1, <2>1, <2>3, ShutOwned
  <2>8. BusyInv' /\ TransfersExact'
    <3>1. ASSUME NEW u \in FileThreads, transfer[u] # Idle
          PROVE  /\ handle'[transfer[u].h] = handle[transfer[u].h]
                 /\ fds'[Fd(transfer[u].h)] = fds[Fd(transfer[u].h)]
      BY <3>1, <1>1, <2>1, <2>3, NobodyBusy, ShutFacts
    <3> QED BY <1>1, <3>1, AllLeftAlone
  <2> QED BY <2>5, <2>6, <2>7, <2>8 DEF FileInv
<1> QED BY <1>3, <1>4

\* A handle as it is made.
LEMMA HandleIsRec ==
  ASSUME FilesHold, NEW kind \in {"file", "map", "shm"}, NEW t \in FileThreads,
         NEW n \in Nums \union {Closed}, NEW len \in Nat, NEW writable \in BOOLEAN
  PROVE  /\ Handle(kind, t, n, len, writable) \in HandleRecs
         /\ Handle(kind, t, n, len, writable) # Nobody
         /\ Handle(kind, t, n, len, writable).fd = n
         /\ Handle(kind, t, n, len, writable).kind = kind
         /\ Handle(kind, t, n, len, writable).len = len
<1>1. Handle(kind, t, n, len, writable) \in HandleRecs
  BY DEF Handle, HandleRecs
<1>2. \A r \in HandleRecs : r # Nobody
  BY DEF FilesHold
<1> QED BY <1>1, <1>2 DEF Handle

\* A new handle takes a number that nobody has.
LEMMA OpenedOwned ==
  ASSUME FileInv, FilesHold, NEW h \in Handles, NEW n \in Free, NEW mode \in {"r", "rw", "append"},
         handle[h] = Nobody, Opened(h, n, mode), flocked' = flocked,
         handle'[h] # Nobody, handle'[h].fd = n,
         \A g \in Handles : g # h => handle'[g] = handle[g]
  PROVE  /\ fds' \in [Nums -> FdRecs \union {Nobody}]
         /\ DescriptorsOwned'
         /\ \A m \in Nums : fds[m] # Nobody => fds'[m] = fds[m]
<1> DEFINE r == [by |-> h, mode |-> mode, at |-> 0]
<1>1. n \in Nums /\ fds[n] = Nobody /\ fds' = [fds EXCEPT ![n] = r]
  BY DEF Free, Opened
<1>2. r \in FdRecs /\ r # Nobody
  BY DEF FdRecs, FilesHold
<1>3. fds \in [Nums -> FdRecs \union {Nobody}]
  BY DEF FileInv, FileTypeOK
<1>4. fds'[n] = r /\ r.by = h /\ \A m \in Nums : m # n => fds'[m] = fds[m]
  BY <1>1, <1>3
<1> HIDE DEF r
<1>5. fds' \in [Nums -> FdRecs \union {Nobody}]
  BY <1>1, <1>2, <1>3
<1>6. ASSUME NEW g \in Handles, handle'[g] # Nobody, handle'[g].fd # Closed
      PROVE  fds'[handle'[g].fd] # Nobody /\ fds'[handle'[g].fd].by = g
  <2>1. CASE g = h
    BY <2>1, <1>2, <1>4
  <2>2. CASE g # h
    <3>1. handle[g] # Nobody /\ handle'[g].fd = Fd(g) /\ Fd(g) # Closed
      BY <2>2, <1>6 DEF Fd
    <3>2. Fd(g) \in Nums /\ fds[Fd(g)] # Nobody /\ fds[Fd(g)].by = g
      BY <3>1, HandleFacts DEF FileInv, DescriptorsOwned
    <3> QED BY <3>1, <3>2, <1>1, <1>4
  <2> QED BY <2>1, <2>2
<1>7. ASSUME NEW m \in Nums, fds'[m] # Nobody
      PROVE  handle'[fds'[m].by] # Nobody /\ handle'[fds'[m].by].fd = m
  <2>1. CASE m = n
    BY <2>1, <1>4
  <2>2. CASE m # n
    <3>1. fds'[m] = fds[m] /\ fds[m] # Nobody
      BY <2>2, <1>4, <1>7
    <3>2. fds[m].by # h /\ handle[fds[m].by] # Nobody /\ Fd(fds[m].by) = m /\ fds[m].by \in Handles
      BY <3>1, FdFacts
    <3> QED BY <3>1, <3>2 DEF Fd
  <2> QED BY <2>1, <2>2
<1>8. flocked' # Nobody => fds'[flocked'] # Nobody
  BY <1>1, <1>4 DEF FileInv, FileTypeOK, DescriptorsOwned
<1>9. DescriptorsOwned'
  BY <1>6, <1>7, <1>8 DEF DescriptorsOwned, Fd
<1> QED BY <1>1, <1>4, <1>5, <1>9

\* No transfer is on a handle that is new.
LEMMA NewHandle ==
  ASSUME FileInv, FilesHold, NEW h \in Handles, handle[h] = Nobody,
         \A g \in Handles : g # h => handle'[g] = handle[g],
         \A m \in Nums : fds[m] # Nobody => fds'[m] = fds[m],
         UNCHANGED <<data, transfer>>
  PROVE  BusyInv' /\ TransfersExact'
<1>1. ASSUME NEW u \in FileThreads, transfer[u] # Idle
      PROVE  /\ handle'[transfer[u].h] = handle[transfer[u].h]
             /\ fds'[Fd(transfer[u].h)] = fds[Fd(transfer[u].h)]
  <2>1. transfer[u].h \in Handles /\ transfer[u].h # h
        /\ Fd(transfer[u].h) \in Nums /\ fds[Fd(transfer[u].h)] \in FdRecs
    BY <1>1, BusyFacts
  <2>2. fds[Fd(transfer[u].h)] # Nobody
    BY <2>1 DEF FilesHold
  <2> QED BY <2>1, <2>2
<1> QED BY <1>1, AllLeftAlone

LEMMA FileOpenKeeps ==
  ASSUME FileInv, FilesHold, NEW h \in Handles, NEW t \in FileThreads,
         NEW mode \in {"r", "rw", "append"}, beans_file_open(t, h, mode)
  PROVE  FileInv'
<1> DEFINE writable == mode # "r"
<1>1. PICK n \in Free : /\ Opened(h, n, mode)
                        /\ handle' = [handle EXCEPT ![h] = Handle("file", t, n, 0, mode # "r")]
  BY DEF beans_file_open
<1>0. n \in Nums \union {Closed} /\ writable \in BOOLEAN /\ 0 \in Nat
  BY DEF Free
<1>2. handle[h] = Nobody /\ UNCHANGED <<mapped, data, flocked, transfer>>
  BY DEF beans_file_open
<1> HIDE DEF writable
<1> DEFINE r == Handle("file", t, n, 0, writable)
<1>3. /\ n \in Nums /\ r \in HandleRecs /\ r # Nobody /\ r.fd = n /\ r.kind = "file"
  BY <1>0, HandleIsRec DEF Free
<1> HIDE DEF r
<1>4. /\ handle' \in [Handles -> HandleRecs \union {Nobody}] /\ handle'[h] = r
      /\ \A g \in Handles : g # h => handle'[g] = handle[g]
  BY <1>1, <1>3 DEF FileInv, FileTypeOK, r, writable
<1>5. /\ fds' \in [Nums -> FdRecs \union {Nobody}] /\ DescriptorsOwned'
      /\ \A m \in Nums : fds[m] # Nobody => fds'[m] = fds[m]
  BY <1>1, <1>2, <1>3, <1>4, OpenedOwned
<1>6. FileTypeOK'
  BY <1>2, <1>4, <1>5 DEF FileInv, FileTypeOK
<1>7. OpenInv'
  BY <1>2, <1>3, <1>4 DEF FileInv, OpenInv, Fd
<1>8. BusyInv' /\ TransfersExact'
  BY <1>2, <1>4, <1>5, NewHandle
<1> QED BY <1>5, <1>6, <1>7, <1>8 DEF FileInv

LEMMA MapOpenKeeps ==
  ASSUME FileInv, FilesHold, NEW h \in Handles, NEW t \in FileThreads,
         NEW writable \in BOOLEAN, beans_mmap_open(t, h, writable)
  PROVE  FileInv'
<1> DEFINE mode == IF writable THEN "rw" ELSE "r"
<1>1. PICK n \in Free : /\ Opened(h, n, mode)
                        /\ handle' = [handle EXCEPT ![h] = Handle("map", t, n, Len(data), writable)]
  BY DEF beans_mmap_open
<1>2. /\ handle[h] = Nobody /\ mapped' = [mapped EXCEPT ![h] = Len(data)]
      /\ UNCHANGED <<data, flocked, transfer>>
  BY DEF beans_mmap_open
<1> DEFINE r == Handle("map", t, n, Len(data), writable)
<1>3. Len(data) \in Nat
  BY LenProperties DEF FileInv, FileTypeOK
<1>4. /\ n \in Nums /\ r \in HandleRecs /\ r # Nobody /\ r.fd = n /\ r.kind = "map"
      /\ r.len = Len(data)
  BY <1>3, HandleIsRec DEF Free
<1> HIDE DEF r
<1>5. /\ handle' \in [Handles -> HandleRecs \union {Nobody}] /\ handle'[h] = r
      /\ \A g \in Handles : g # h => handle'[g] = handle[g]
  BY <1>1, <1>4 DEF FileInv, FileTypeOK, r
<1>6. /\ mapped' \in [Handles -> Nat] /\ mapped'[h] = Len(data)
      /\ \A g \in Handles : g # h => mapped'[g] = mapped[g]
  BY <1>2, <1>3 DEF FileInv, FileTypeOK
<1>7. /\ fds' \in [Nums -> FdRecs \union {Nobody}] /\ DescriptorsOwned'
      /\ \A m \in Nums : fds[m] # Nobody => fds'[m] = fds[m]
  <2>1. mode \in {"r", "rw", "append"}
    OBVIOUS
  <2> HIDE DEF mode
  <2> QED BY <2>1, <1>1, <1>2, <1>4, <1>5, OpenedOwned
<1>8. FileTypeOK'
  BY <1>2, <1>5, <1>6, <1>7 DEF FileInv, FileTypeOK
<1>9. OpenInv'
  BY <1>2, <1>4, <1>5, <1>6 DEF FileInv, OpenInv, Fd
<1>10. BusyInv' /\ TransfersExact'
  BY <1>2, <1>5, <1>7, NewHandle
<1> QED BY <1>7, <1>8, <1>9, <1>10 DEF FileInv

LEMMA ShmOpenKeeps ==
  ASSUME FileInv, FilesHold, NEW h \in Handles, NEW t \in FileThreads,
         NEW size \in Positions, NEW create \in BOOLEAN, beans_shm_open(t, h, size, create)
  PROVE  FileInv'
<1>1. /\ handle[h] = Nobody /\ size > 0 /\ UNCHANGED <<fds, data, flocked, transfer>>
  BY DEF beans_shm_open
<1>2. CASE UNCHANGED <<handle, mapped>>
  BY <1>1, <1>2, OsKeeps
<1>3. CASE /\ mapped' = [mapped EXCEPT ![h] = size]
           /\ handle' = [handle EXCEPT ![h] = Handle("shm", t, Closed, size, TRUE)]
  <2> DEFINE yes == TRUE
             r == Handle("shm", t, Closed, size, yes)
  <2>1. size \in Nat
    BY <1>1 DEF FilesHold
  <2>2. r \in HandleRecs /\ r # Nobody /\ r.fd = Closed /\ r.kind = "shm" /\ r.len = size
    <3>1. Closed \in Nums \union {Closed} /\ yes \in BOOLEAN /\ "shm" \in {"file", "map", "shm"}
      OBVIOUS
    <3> HIDE DEF yes
    <3> QED BY <3>1, <2>1, HandleIsRec
  <2> HIDE DEF r
  <2>3. /\ handle' \in [Handles -> HandleRecs \union {Nobody}] /\ handle'[h] = r
        /\ \A g \in Handles : g # h => handle'[g] = handle[g]
    BY <1>3, <2>2 DEF FileInv, FileTypeOK, r
  <2>4. /\ mapped' \in [Handles -> Nat] /\ mapped'[h] = size
        /\ \A g \in Handles : g # h => mapped'[g] = mapped[g]
    BY <1>3, <2>1 DEF FileInv, FileTypeOK
  <2>5. FileTypeOK'
    BY <1>1, <2>3, <2>4 DEF FileInv, FileTypeOK
  <2>6. OpenInv'
    BY <1>1, <2>2, <2>3, <2>4 DEF FileInv, OpenInv, Fd
  <2>7. DescriptorsOwned'
    <3>1. ASSUME NEW g \in Handles, handle'[g] # Nobody, handle'[g].fd # Closed
          PROVE  fds'[handle'[g].fd] # Nobody /\ fds'[handle'[g].fd].by = g
      BY <3>1, <1>1, <2>2, <2>3, HandleFacts DEF FileInv, DescriptorsOwned, Fd
    <3>2. ASSUME NEW m \in Nums, fds'[m] # Nobody
          PROVE  handle'[fds'[m].by] # Nobody /\ handle'[fds'[m].by].fd = m
      <4>1. /\ fds[m] # Nobody /\ fds[m].by # h /\ fds[m].by \in Handles
            /\ handle[fds[m].by] # Nobody /\ Fd(fds[m].by) = m
        BY <3>2, <1>1, FdFacts
      <4> QED BY <4>1, <1>1, <2>3 DEF Fd
    <3>3. flocked' # Nobody => fds'[flocked'] # Nobody
      BY <1>1 DEF FileInv, DescriptorsOwned
    <3> QED BY <3>1, <3>2, <3>3 DEF DescriptorsOwned, Fd
  <2>8. BusyInv' /\ TransfersExact'
    BY <1>1, <2>3, NewHandle
  <2> QED BY <2>5, <2>6, <2>7, <2>8 DEF FileInv
<1> QED BY <1>2, <1>3 DEF beans_shm_open

\* What a thread that begins is on.
LEMMA BegunFacts ==
  ASSUME FileInv, FilesHold, NEW h \in Handles, NEW t \in FileThreads, BeginsOn(t, h)
  PROVE  /\ transfer[t] = Idle /\ handle[h] # Nobody /\ handle[h] \in HandleRecs
         /\ handle[h].owner = t /\ ~handle[h].closed
         /\ IsFile(h) => Fd(h) \in Nums /\ fds[Fd(h)] \in FdRecs /\ fds[Fd(h)].by = h
<1>1. /\ transfer[t] = Idle /\ handle[h] # Nobody /\ handle[h].owner = t /\ ~handle[h].closed
  BY DEF BeginsOn, Begins, Owns
<1>2. IsFile(h) => Fd(h) \in Nums
  BY <1>1 DEF FileInv, OpenInv, IsFile
<1> QED BY <1>1, <1>2, HandleFacts DEF FilesHold

\* A transfer that begins has moved nothing.
LEMMA StartKeeps ==
  ASSUME FileInv, FilesHold, NEW h \in Handles, NEW t \in FileThreads, BeginsOn(t, h), IsFile(h),
         NEW op \in {"read", "write"}, NEW pos \in Nat, NEW n \in Nat, NEW bytes \in Seq(Nat),
         NEW cursor \in BOOLEAN,
         op = "read" => bytes = <<>>, op = "write" => n = Len(bytes),
         Start(t, Transfer(op, h, pos, n, bytes, cursor))
  PROVE  FileInv'
<1> DEFINE c == Transfer(op, h, pos, n, bytes, cursor)
<1>1. /\ transfer' = [transfer EXCEPT ![t] = c]
      /\ UNCHANGED <<handle, fds, mapped, data, flocked>>
  BY DEF Start, os
<1>2. /\ c.op = op /\ c.h = h /\ c.start = pos /\ c.n = n /\ c.done = 0 /\ c.bytes = bytes
      /\ c.cursor = cursor /\ c.was = data /\ c.quiet
  BY DEF Transfer
<1>3. c \in Transfers
  BY DEF Transfer, Transfers, FileInv, FileTypeOK
<1> HIDE DEF c
<1>4. /\ transfer' \in [FileThreads -> Transfers \union {Idle}] /\ transfer'[t] = c
      /\ \A u \in FileThreads : u # t => transfer'[u] = transfer[u]
  BY <1>1, <1>3 DEF FileInv, FileTypeOK
<1>5. FileTypeOK'
  BY <1>1, <1>4 DEF FileInv, FileTypeOK
<1>6. OpenInv'
  BY <1>1 DEF FileInv, OpenInv, Fd
<1>7. DescriptorsOwned'
  BY <1>1, StillOwned
<1>8. ASSUME NEW u \in FileThreads
      PROVE  Busy(u)' /\ Exact(u)'
  <2>1. CASE u # t
    BY <2>1, <1>1, <1>4, LeftAlone DEF FileInv, BusyInv, TransfersExact
  <2>2. CASE u = t
    <3>1. Busy(t)'
      BY <1>1, <1>2, <1>4, BegunFacts DEF Busy, Owns, IsFile
    <3>2. ASSUME op = "read"
          PROVE  c.bytes = SubSeq(c.was, c.start + 1, c.start + c.done) /\ Len(c.bytes) = c.done
      <4>1. SubSeq(data, pos + 1, pos + 0) = <<>>
        BY SubSeqEmpty
      <4> QED BY <4>1, <1>2, <3>2
    <3>3. Exact(t)'
      BY <1>1, <1>2, <1>4, <3>2 DEF Exact
    <3> QED BY <2>2, <3>1, <3>3
  <2> QED BY <2>1, <2>2
<1>9. BusyInv' /\ TransfersExact'
  BY <1>8 DEF BusyInv, TransfersExact
<1> QED BY <1>5, <1>6, <1>7, <1>9 DEF FileInv

LEMMA ReadKeeps ==
  ASSUME FileInv, FilesHold, NEW h \in Handles, NEW t \in FileThreads,
         NEW pos \in Positions, NEW n \in Positions, NEW cursor \in BOOLEAN,
         beans_file_read(t, h, pos, n, cursor)
  PROVE  FileInv'
<1> DEFINE from == IF cursor THEN At(h) ELSE pos
           k == Smaller(n, Larger(0, Len(data) - from))
<1>1. /\ BeginsOn(t, h) /\ IsFile(h) /\ n >= 0 /\ from >= 0
      /\ Start(t, Transfer("read", h, from, k, <<>>, cursor))
  BY DEF beans_file_read, BeginsOnFile
<1>2. At(h) \in Nat
  BY <1>1, BegunFacts DEF At, FdRecs
<1>3. from \in Nat
  BY <1>1, <1>2 DEF FilesHold
<1>4. n \in Nat /\ Len(data) \in Nat
  BY <1>1, LenProperties DEF FilesHold, FileInv, FileTypeOK
<1> HIDE DEF from
<1>5. k \in Nat
  BY <1>3, <1>4 DEF Smaller, Larger
<1>6. <<>> \in Seq(Nat) /\ "read" \in {"read", "write"} /\ "read" # "write"
  OBVIOUS
<1> HIDE DEF k
<1> QED BY <1>1, <1>3, <1>5, <1>6, StartKeeps

LEMMA WriteKeeps ==
  ASSUME FileInv, FilesHold, NEW h \in Handles, NEW t \in FileThreads,
         NEW pos \in Positions, NEW bytes \in Payloads, NEW cursor \in BOOLEAN,
         beans_file_write(t, h, pos, bytes, cursor)
  PROVE  FileInv'
<1> DEFINE from == IF cursor THEN At(h) ELSE pos
<1>1. /\ BeginsOn(t, h) /\ IsFile(h) /\ (cursor \/ pos >= 0)
      /\ Start(t, Transfer("write", h, from, Len(bytes), bytes, cursor))
  BY DEF beans_file_write, BeginsOnFile
<1>2. At(h) \in Nat
  BY <1>1, BegunFacts DEF At, FdRecs
<1>3. from \in Nat
  BY <1>1, <1>2 DEF FilesHold
<1>4. bytes \in Seq(Nat)
  BY DEF FilesHold
<1>5. Len(bytes) \in Nat
  BY <1>4, LenProperties
<1>6. "write" \in {"read", "write"} /\ "read" # "write"
  OBVIOUS
<1> HIDE DEF from
<1> QED BY <1>1, <1>3, <1>4, <1>5, <1>6, StartKeeps

LEMMA ReturnsKeeps ==
  ASSUME FileInv, FilesHold, NEW t \in FileThreads, Returns(t)
  PROVE  FileInv'
<1>1. /\ transfer' = [transfer EXCEPT ![t] = Idle]
      /\ UNCHANGED <<handle, fds, mapped, data, flocked>>
  BY DEF Returns, os
<1>2. /\ transfer' \in [FileThreads -> Transfers \union {Idle}] /\ transfer'[t] = Idle
      /\ \A u \in FileThreads : u # t => transfer'[u] = transfer[u]
  BY <1>1 DEF FileInv, FileTypeOK
<1>3. FileTypeOK'
  BY <1>1, <1>2 DEF FileInv, FileTypeOK
<1>4. OpenInv'
  BY <1>1 DEF FileInv, OpenInv, Fd
<1>5. DescriptorsOwned'
  BY <1>1, StillOwned
<1>6. ASSUME NEW u \in FileThreads
      PROVE  Busy(u)' /\ Exact(u)'
  <2>1. CASE u # t
    BY <2>1, <1>1, <1>2, LeftAlone DEF FileInv, BusyInv, TransfersExact
  <2>2. CASE u = t
    BY <2>2, <1>2 DEF Busy, Exact
  <2> QED BY <2>1, <2>2
<1>7. BusyInv' /\ TransfersExact'
  BY <1>6 DEF BusyInv, TransfersExact
<1> QED BY <1>3, <1>4, <1>5, <1>7 DEF FileInv

LEMMA SeekKeeps ==
  ASSUME FileInv, FilesHold, NEW h \in Handles, NEW t \in FileThreads,
         NEW pos \in Positions, NEW fromEnd \in BOOLEAN, beans_file_seek(t, h, pos, fromEnd)
  PROVE  FileInv'
<1> DEFINE to == pos + IF fromEnd THEN Len(data) ELSE 0
<1>1. /\ BeginsOn(t, h) /\ IsFile(h) /\ to >= 0 /\ Moved(h, to)
      /\ UNCHANGED <<handle, mapped, data, flocked, transfer>>
  BY DEF beans_file_seek, BeginsOnFile
<1>2. pos \in Int /\ Len(data) \in Nat
  BY LenProperties DEF FilesHold, FileInv, FileTypeOK
<1>3. to \in Nat
  BY <1>1, <1>2
<1> HIDE DEF to
<1>4. /\ handle[h] # Nobody /\ Fd(h) \in Nums /\ transfer[t] = Idle /\ handle[h].owner = t
  BY <1>1, BegunFacts
<1>5. /\ fds' \in [Nums -> FdRecs \union {Nobody}]
      /\ \A n \in Nums : /\ n # Fd(h) => fds'[n] = fds[n]
                         /\ fds'[n] # Nobody <=> fds[n] # Nobody
                         /\ fds[n] # Nobody => fds'[n].by = fds[n].by
  BY <1>1, <1>3, <1>4, MovedFacts
<1>6. FileTypeOK'
  BY <1>1, <1>5 DEF FileInv, FileTypeOK
<1>7. OpenInv'
  BY <1>1 DEF FileInv, OpenInv, Fd
<1>8. DescriptorsOwned'
  BY <1>1, <1>5, StillOwned
<1>9. BusyInv' /\ TransfersExact'
  <2>1. ASSUME NEW u \in FileThreads, transfer[u] # Idle
        PROVE  /\ handle'[transfer[u].h] = handle[transfer[u].h]
               /\ fds'[Fd(transfer[u].h)] = fds[Fd(transfer[u].h)]
    BY <2>1, <1>1, <1>4, <1>5, NobodyBusy
  <2> QED BY <1>1, <2>1, AllLeftAlone
<1> QED BY <1>6, <1>7, <1>8, <1>9 DEF FileInv

\* A call that moves the cursor, or leaves every descriptor as it was.
LEMMA CursorFacts ==
  ASSUME FileInv, FilesHold, NEW h \in Handles, handle[h] # Nobody, Fd(h) \in Nums,
         NEW pos \in Nat, NEW cursor \in BOOLEAN,
         IF cursor THEN Moved(h, pos) ELSE UNCHANGED fds
  PROVE  /\ fds' \in [Nums -> FdRecs \union {Nobody}]
         /\ \A n \in Nums : /\ n # Fd(h) => fds'[n] = fds[n]
                            /\ fds'[n] # Nobody <=> fds[n] # Nobody
                            /\ fds[n] # Nobody => fds'[n].by = fds[n].by
         /\ cursor => fds'[Fd(h)].at = pos
         /\ fds'[Fd(h)].mode = fds[Fd(h)].mode
<1>1. CASE cursor
  BY <1>1, MovedFacts
<1>2. CASE ~cursor
  BY <1>2 DEF FileInv, FileTypeOK
<1> QED BY <1>1, <1>2

LEMMA ReadsKeeps ==
  ASSUME FileInv, FilesHold, NEW t \in FileThreads, Reads(t)
  PROVE  FileInv'
<1> DEFINE c == transfer[t]
           from == c.start + c.done
           rest == Larger(0, Len(data) - from)
<1>1. c.op = "read" /\ c.done < c.n /\ UNCHANGED <<handle, mapped, data, flocked>>
  BY DEF Reads
<1>2. PICK k \in 0..Smaller(c.n - c.done, rest) :
        /\ transfer' = [transfer EXCEPT ![t].done = @ + k, ![t].n = IF k = 0 THEN c.done ELSE @,
                                ![t].bytes = @ \o SubSeq(data, from + 1, from + k)]
        /\ IF c.cursor THEN Moved(c.h, from + k) ELSE UNCHANGED fds
  BY DEF Reads
<1>3. c # Idle
  BY <1>1 DEF Idle
<1>4. /\ c \in Transfers /\ c.h \in Handles /\ handle[c.h] # Nobody /\ handle[c.h].owner = t
      /\ Fd(c.h) \in Nums /\ fds[Fd(c.h)].by = c.h
  BY <1>3, BusyFacts
<1>5. /\ c.start \in Nat /\ c.done \in Nat /\ c.n \in Nat /\ c.bytes \in Seq(Nat)
      /\ c.cursor \in BOOLEAN /\ c.was \in Seq(Nat) /\ c.quiet \in BOOLEAN
  BY <1>4 DEF Transfers
<1>6. data \in Seq(Nat) /\ Len(data) \in Nat
  BY LenProperties DEF FileInv, FileTypeOK
<1>7. /\ from \in Nat /\ k \in Nat /\ from + k \in Nat /\ c.done + k <= c.n
      /\ k > 0 => from + k <= Len(data)
  <2>1. from \in Nat /\ c.n - c.done \in Nat
    BY <1>1, <1>5
  <2> HIDE DEF from
  <2>2. rest \in Nat /\ rest <= Larger(0, Len(data) - from)
    BY <2>1, <1>6 DEF Larger
  <2>3. k \in Nat /\ k <= c.n - c.done /\ k <= rest
    <3> DEFINE left == c.n - c.done
    <3>1. left \in Nat
      BY <2>1
    <3> HIDE DEF left, rest
    <3>2. k \in 0..Smaller(left, rest)
      BY <1>2 DEF left
    <3> QED BY <3>1, <3>2, <2>2 DEF Smaller, left
  <2>4. k > 0 => from + k <= Len(data)
    BY <2>1, <2>3, <1>6 DEF Larger
  <2> QED BY <2>1, <2>3, <2>4, <1>5
<1> DEFINE took == SubSeq(data, from + 1, from + k)
           n == IF k = 0 THEN c.done ELSE c.n
           d == [c EXCEPT !.done = c.done + k, !.n = n, !.bytes = c.bytes \o took]
<1>8. took \in Seq(Nat) /\ Len(took) = k
  <2>1. CASE k = 0
    <3>1. from + 1 \in Int /\ from + k \in Int /\ from + k < from + 1
      BY <2>1, <1>7
    <3>2. took = <<>>
      BY <3>1, SubSeqEmpty
    <3> QED BY <3>2, <2>1, EmptySeq
  <2>2. CASE k > 0
    <3>1. ASSUME NEW b \in Nat, b = from + k
          PROVE  SubSeq(data, from + 1, b) \in Seq(Nat) /\ Len(SubSeq(data, from + 1, b)) = b - from
      <4>1. from <= b /\ b <= Len(data)
        BY <2>2, <3>1, <1>7
      <4> QED BY <4>1, <1>6, <1>7, PartIsSeq
    <3>2. took \in Seq(Nat) /\ Len(took) = (from + k) - from
      BY <3>1, <1>7
    <3> HIDE DEF took, from
    <3> QED BY <3>2, <1>7
  <2> QED BY <2>1, <2>2, <1>7
<1>9. transfer' = [transfer EXCEPT ![t] = d]
  BY <1>2, <1>4 DEF FileInv, FileTypeOK, Transfers
<1> HIDE DEF took, from, n
<1>10. n \in Nat /\ c.done + k \in Nat /\ c.done + k <= n
  BY <1>5, <1>7 DEF n
<1>11. c.bytes \o took \in Seq(Nat)
  BY <1>5, <1>8, ConcatProperties
<1>12. /\ d \in Transfers /\ d.op = "read" /\ d.h = c.h /\ d.start = c.start /\ d.n = n
       /\ d.done = c.done + k /\ d.bytes = c.bytes \o took /\ d.cursor = c.cursor
       /\ d.was = c.was /\ d.quiet = c.quiet
  BY <1>1, <1>4, <1>10, <1>11 DEF Transfers
<1> HIDE DEF d
<1>13. /\ transfer' \in [FileThreads -> Transfers \union {Idle}] /\ transfer'[t] = d
       /\ \A u \in FileThreads : u # t => transfer'[u] = transfer[u]
  BY <1>9, <1>12 DEF FileInv, FileTypeOK
<1>14. /\ fds' \in [Nums -> FdRecs \union {Nobody}]
       /\ \A m \in Nums : /\ m # Fd(c.h) => fds'[m] = fds[m]
                          /\ fds'[m] # Nobody <=> fds[m] # Nobody
                          /\ fds[m] # Nobody => fds'[m].by = fds[m].by
       /\ c.cursor => fds'[Fd(c.h)].at = from + k
       /\ fds'[Fd(c.h)].mode = fds[Fd(c.h)].mode
  <2> DEFINE pos == from + k
  <2>1. pos \in Nat /\ IF c.cursor THEN Moved(c.h, pos) ELSE UNCHANGED fds
    BY <1>2, <1>7 DEF from
  <2> HIDE DEF pos
  <2>2. /\ fds' \in [Nums -> FdRecs \union {Nobody}]
        /\ \A m \in Nums : /\ m # Fd(c.h) => fds'[m] = fds[m]
                           /\ fds'[m] # Nobody <=> fds[m] # Nobody
                           /\ fds[m] # Nobody => fds'[m].by = fds[m].by
        /\ c.cursor => fds'[Fd(c.h)].at = pos
        /\ fds'[Fd(c.h)].mode = fds[Fd(c.h)].mode
    BY <2>1, <1>4, <1>5, CursorFacts
  <2> QED BY <2>2 DEF pos
<1>15. FileTypeOK'
  BY <1>1, <1>13, <1>14 DEF FileInv, FileTypeOK
<1>16. OpenInv'
  BY <1>1 DEF FileInv, OpenInv, Fd
<1>17. DescriptorsOwned'
  BY <1>1, <1>14, StillOwned
<1>18. Busy(t) /\ Exact(t)
  BY DEF FileInv, BusyInv, TransfersExact
<1>19. Busy(t)'
  BY <1>1, <1>3, <1>10, <1>12, <1>13, <1>18 DEF Busy, Owns, IsFile
<1>20. ASSUME c.quiet
       PROVE  /\ d.bytes = SubSeq(d.was, d.start + 1, d.start + d.done)
              /\ Len(d.bytes) = d.done
              /\ d.cursor /\ d.done > 0 => fds'[Fd(d.h)].at = d.done + d.start
  <2>1. /\ data = c.was /\ c.bytes = SubSeq(data, c.start + 1, from) /\ Len(c.bytes) = c.done
        /\ c.cursor /\ c.done > 0 => fds[Fd(c.h)].at = c.done + c.start
    BY <1>1, <1>3, <1>18, <1>20 DEF Busy, Exact, At, from
  <2>2. Len(d.bytes) = d.done
    BY <2>1, <1>5, <1>8, <1>12, ConcatProperties
  <2>3. d.start + d.done = from + k
    BY <1>5, <1>7, <1>12 DEF from
  <2>4. d.bytes = SubSeq(data, c.start + 1, from + k)
    <3>1. CASE k = 0
      <4>1. took = <<>>
        BY <3>1, <1>8, EmptySeq
      <4>2. c.bytes \o took = c.bytes
        BY <4>1, <1>5, ConcatEmptySeq
      <4>3. from + k = from
        BY <3>1, <1>7
      <4> QED BY <4>2, <4>3, <2>1, <1>12
    <3>2. CASE k > 0
      <4>1. from + k <= Len(data) /\ from <= from + k
        BY <3>2, <1>7
      <4>4. c.start <= from
        BY <1>5 DEF from
      <4>2. ASSUME NEW b \in Nat, b = from + k
            PROVE  SubSeq(data, c.start + 1, from) \o SubSeq(data, from + 1, b)
                     = SubSeq(data, c.start + 1, b)
        <5> DEFINE o == c.start
        <5>1. /\ data \in Seq(Nat) /\ o \in Nat /\ from \in Nat /\ o <= from /\ from <= b
              /\ b <= Len(data)
          BY <4>1, <4>2, <4>4, <1>5, <1>6, <1>7
        <5> HIDE DEF o
        <5>2. SubSeq(data, o + 1, from) \o SubSeq(data, from + 1, b) = SubSeq(data, o + 1, b)
          BY <5>1, AdjacentParts
        <5> QED BY <5>2 DEF o
      <4>3. SubSeq(data, c.start + 1, from) \o SubSeq(data, from + 1, from + k)
              = SubSeq(data, c.start + 1, from + k)
        BY <4>2, <1>7
      <4> QED BY <4>3, <2>1, <1>12 DEF took
    <3> QED BY <3>1, <3>2, <1>7
  <2>5. d.cursor => fds'[Fd(d.h)].at = d.done + d.start
    BY <1>5, <1>7, <1>12, <1>14 DEF from
  <2> QED BY <2>1, <2>2, <2>3, <2>4, <2>5, <1>12
<1>21. Exact(t)'
  BY <1>1, <1>12, <1>13, <1>20 DEF Exact, At, Fd
<1>22. ASSUME NEW u \in FileThreads, u # t
       PROVE  Busy(u)' /\ Exact(u)'
  <2>1. ASSUME transfer[u] # Idle
        PROVE  /\ handle'[transfer[u].h] = handle[transfer[u].h]
               /\ fds'[Fd(transfer[u].h)] = fds[Fd(transfer[u].h)]
    <3>1. Fd(transfer[u].h) # Fd(c.h) /\ Fd(transfer[u].h) \in Nums
      BY <2>1, <1>4, <1>22, BusyFacts
    <3> QED BY <3>1, <1>1, <1>14
  <2> QED BY <2>1, <1>1, <1>13, <1>22, LeftAlone DEF FileInv, BusyInv, TransfersExact
<1>23. BusyInv' /\ TransfersExact'
  BY <1>19, <1>21, <1>22 DEF BusyInv, TransfersExact
<1> QED BY <1>15, <1>16, <1>17, <1>23 DEF FileInv

LEMMA WritesKeeps ==
  ASSUME FileInv, FilesHold, NEW t \in FileThreads, Writes(t)
  PROVE  FileInv'
<1> DEFINE c == transfer[t]
           append == fds[Fd(c.h)].mode = "append"
           to == IF append THEN Len(data) ELSE c.start + c.done
<1>1. c.op = "write" /\ c.done < c.n /\ UNCHANGED <<handle, mapped, flocked>>
  BY DEF Writes
<1>2. PICK k \in 1..(c.n - c.done) :
        /\ data' = Put(data, to, SubSeq(Rest(c), 1, k))
        /\ transfer' = [Disturbed(t) EXCEPT ![t].done = @ + k]
        /\ IF c.cursor THEN Moved(c.h, to + k) ELSE UNCHANGED fds
  BY DEF Writes
<1>3. c # Idle
  BY <1>1 DEF Idle
<1>4. /\ c \in Transfers /\ c.h \in Handles /\ handle[c.h] # Nobody /\ handle[c.h].owner = t
      /\ Fd(c.h) \in Nums /\ fds[Fd(c.h)].by = c.h
  BY <1>3, BusyFacts
<1>5. /\ c.start \in Nat /\ c.done \in Nat /\ c.n \in Nat /\ c.bytes \in Seq(Nat)
      /\ c.cursor \in BOOLEAN /\ c.was \in Seq(Nat) /\ c.quiet \in BOOLEAN
  BY <1>4 DEF Transfers
<1>6. data \in Seq(Nat) /\ Len(data) \in Nat /\ Len(c.bytes) \in Nat /\ Len(c.was) \in Nat
  BY <1>5, LenProperties DEF FileInv, FileTypeOK
<1>7. Busy(t) /\ Exact(t)
  BY DEF FileInv, BusyInv, TransfersExact
<1>8. c.n = Len(c.bytes)
  BY <1>1, <1>3, <1>7 DEF Busy
<1>9. k \in Nat /\ k > 0 /\ c.done + k <= c.n /\ c.done + k \in Nat
  BY <1>1, <1>2, <1>5
<1>10. to \in Nat /\ to + k \in Nat
  <2>1. Len(data) \in Nat /\ c.start + c.done \in Nat
    BY <1>5, <1>6
  <2> HIDE DEF append
  <2>2. to \in Nat
    BY <2>1
  <2> HIDE DEF to
  <2> QED BY <2>2, <1>9
<1> DEFINE put == SubSeq(c.bytes, c.done + 1, c.done + k)
<1>11. SubSeq(Rest(c), 1, k) = put
  <2> DEFINE s == c.bytes
             o == c.done
  <2>1. /\ s \in Seq(Nat) /\ o \in Nat /\ o + k <= Len(s)
        /\ Rest(c) = SubSeq(s, o + 1, Len(s)) /\ put = SubSeq(s, o + 1, o + k)
    BY <1>5, <1>8, <1>9 DEF Rest
  <2> HIDE DEF s, o
  <2>2. SubSeq(SubSeq(s, o + 1, Len(s)), 1, k) = SubSeq(s, o + 1, o + k)
    BY <2>1, <1>9, PartOfRest
  <2> QED BY <2>1, <2>2
<1>12. put \in Seq(Nat) /\ Len(put) = k
  <2> DEFINE s == c.bytes
             o == c.done
  <2>1. ASSUME NEW b \in Nat, b = o + k
        PROVE  SubSeq(s, o + 1, b) \in Seq(Nat) /\ Len(SubSeq(s, o + 1, b)) = b - o
    <3>1. s \in Seq(Nat) /\ o \in Nat /\ o <= b /\ b <= Len(s)
      BY <2>1, <1>5, <1>8, <1>9
    <3> HIDE DEF s, o
    <3> QED BY <3>1, PartIsSeq
  <2>2. put \in Seq(Nat) /\ Len(put) = (o + k) - o
    BY <2>1, <1>9
  <2> HIDE DEF put
  <2> QED BY <2>2, <1>5, <1>9
<1>13. data' = Put(data, to, put)
  BY <1>2, <1>11
<1> HIDE DEF to, put, append
<1>14. data' \in Seq(Nat)
  BY <1>6, <1>10, <1>12, <1>13, PutIsSeq
<1> DEFINE d == [c EXCEPT !.done = c.done + k]
<1>15. /\ d \in Transfers /\ d.op = "write" /\ d.h = c.h /\ d.start = c.start /\ d.n = c.n
       /\ d.done = c.done + k /\ d.bytes = c.bytes /\ d.cursor = c.cursor
       /\ d.was = c.was /\ d.quiet = c.quiet
  BY <1>1, <1>4, <1>9 DEF Transfers
<1>16. /\ transfer' = [Disturbed(t) EXCEPT ![t] = d]
       /\ Disturbed(t) \in [FileThreads -> Transfers \union {Idle}] /\ Disturbed(t)[t] = c
  BY <1>2, DisturbedTyped DEF FileInv
<1> HIDE DEF d
<1>17. /\ transfer' \in [FileThreads -> Transfers \union {Idle}] /\ transfer'[t] = d
       /\ \A u \in FileThreads : u # t => transfer'[u] = Disturbed(t)[u]
  BY <1>15, <1>16
<1>18. /\ fds' \in [Nums -> FdRecs \union {Nobody}]
       /\ \A m \in Nums : /\ m # Fd(c.h) => fds'[m] = fds[m]
                          /\ fds'[m] # Nobody <=> fds[m] # Nobody
                          /\ fds[m] # Nobody => fds'[m].by = fds[m].by
       /\ c.cursor => fds'[Fd(c.h)].at = to + k
       /\ fds'[Fd(c.h)].mode = fds[Fd(c.h)].mode
  <2> DEFINE pos == to + k
  <2>1. pos \in Nat /\ IF c.cursor THEN Moved(c.h, pos) ELSE UNCHANGED fds
    BY <1>2, <1>10 DEF to, append
  <2> HIDE DEF pos
  <2>2. /\ fds' \in [Nums -> FdRecs \union {Nobody}]
        /\ \A m \in Nums : /\ m # Fd(c.h) => fds'[m] = fds[m]
                           /\ fds'[m] # Nobody <=> fds[m] # Nobody
                           /\ fds[m] # Nobody => fds'[m].by = fds[m].by
        /\ c.cursor => fds'[Fd(c.h)].at = pos
        /\ fds'[Fd(c.h)].mode = fds[Fd(c.h)].mode
    BY <2>1, <1>4, <1>5, CursorFacts
  <2> QED BY <2>2 DEF pos
<1>19. FileTypeOK'
  BY <1>1, <1>14, <1>17, <1>18 DEF FileInv, FileTypeOK
<1>20. OpenInv'
  BY <1>1 DEF FileInv, OpenInv, Fd
<1>21. DescriptorsOwned'
  BY <1>1, <1>18, StillOwned
<1>22. Busy(t)'
  BY <1>1, <1>3, <1>7, <1>9, <1>15, <1>17 DEF Busy, Owns, IsFile
<1> DEFINE base == IF append THEN Len(c.was) ELSE c.start
<1>23. base \in Nat
  BY <1>5, <1>6
<1>24. ASSUME c.quiet
       PROVE  to = base + c.done
              /\ data' = Put(c.was, base, SubSeq(c.bytes, 1, c.done + k))
  <2>1. data = IF c.done = 0 THEN c.was ELSE Put(c.was, base, SubSeq(c.bytes, 1, c.done))
    BY <1>1, <1>3, <1>7, <1>24 DEF Exact, append
  <2> HIDE DEF base
  <2>2. CASE c.done = 0
    <3>1. to = base + c.done
      BY <2>1, <2>2, <1>5, <1>6 DEF to, base
    <3>2. to = base /\ c.done + 1 = 1
      BY <3>1, <2>2, <1>23
    <3> QED BY <3>1, <3>2, <2>1, <2>2, <1>13 DEF put
  <2>3. CASE c.done # 0
    <3> DEFINE u == SubSeq(c.bytes, 1, c.done)
    <3>1. u \in Seq(Nat) /\ Len(u) = c.done
      <4> DEFINE s == c.bytes
                 o == c.done
      <4>1. s \in Seq(Nat) /\ 0 \in Nat /\ o \in Nat /\ 0 <= o /\ o <= Len(s) /\ o - 0 = o
        BY <1>1, <1>5, <1>8
      <4> HIDE DEF s, o
      <4>2. SubSeq(s, 0 + 1, o) \in Seq(Nat) /\ Len(SubSeq(s, 0 + 1, o)) = o - 0
        BY <4>1, PartIsSeq
      <4>3. SubSeq(s, 1, o) \in Seq(Nat) /\ Len(SubSeq(s, 1, o)) = o
        BY <4>1, <4>2
      <4> QED BY <4>3 DEF s, o
    <3> HIDE DEF u
    <3>2. data = Put(c.was, base, u)
      BY <2>1, <2>3 DEF u
    <3>3. to = base + c.done
      <4>1. CASE append
        <5>1. Len(data) = Larger(Len(c.was), base + Len(u)) /\ base = Len(c.was)
          BY <4>1, <3>1, <3>2, <1>5, <1>23, PutIsSeq DEF base
        <5> QED BY <4>1, <5>1, <3>1, <2>3, <1>5, <1>6 DEF to, Larger
      <4>2. CASE ~append
        BY <4>2 DEF to, base
      <4> QED BY <4>1, <4>2
    <3>4. u \o put = SubSeq(c.bytes, 1, c.done + k)
      <4> DEFINE s == c.bytes
                 l == c.done + k
                 o == c.done
      <4>1. s \in Seq(Nat) /\ o \in Nat /\ l \in Nat /\ 0 <= o /\ o <= l /\ l <= Len(s)
        BY <1>5, <1>8, <1>9
      <4> HIDE DEF s, l, o
      <4>3. 0 \in Nat /\ SubSeq(s, 0 + 1, o) \o SubSeq(s, o + 1, l) = SubSeq(s, 0 + 1, l)
        BY <4>1, AdjacentParts
      <4>4. 0 + 1 = 1
        OBVIOUS
      <4>2. SubSeq(s, 1, o) \o SubSeq(s, o + 1, l) = SubSeq(s, 1, l)
        BY <4>3, <4>4, Zenon
      <4> QED BY <4>2 DEF s, l, o, u, put
    <3>5. Put(Put(c.was, base, u), base + Len(u), put) = Put(c.was, base, u \o put)
      <4> DEFINE s == c.was
      <4>1. s \in Seq(Nat) /\ u \in Seq(Nat) /\ put \in Seq(Nat) /\ base \in Nat
        BY <3>1, <1>5, <1>12, <1>23
      <4> HIDE DEF s
      <4>2. Put(Put(s, base, u), base + Len(u), put) = Put(s, base, u \o put)
        BY <4>1, PutOnPut
      <4> QED BY <4>2 DEF s
    <3> QED BY <3>1, <3>2, <3>3, <3>4, <3>5, <1>13
  <2> QED BY <2>2, <2>3
<1>25. ASSUME c.quiet
       PROVE  /\ data' = IF d.done = 0 THEN d.was
                         ELSE Put(d.was, base, SubSeq(d.bytes, 1, d.done))
              /\ d.cursor => fds'[Fd(d.h)].at = d.done + base
  <2> HIDE DEF base
  <2>1. d.done # 0
    BY <1>5, <1>9, <1>15
  <2>2. to + k = (c.done + k) + base
    BY <1>5, <1>9, <1>23, <1>24, <1>25
  <2>3. data' = Put(c.was, base, SubSeq(c.bytes, 1, c.done + k))
    BY <1>24, <1>25
  <2> QED BY <2>1, <2>2, <2>3, <1>15, <1>18
<1>26. Exact(t)'
  <2>1. fds'[Fd(d.h)].mode = fds[Fd(c.h)].mode
    BY <1>15, <1>18
  <2>2. base = IF fds'[Fd(d.h)].mode = "append" THEN Len(d.was) ELSE d.start
    BY <2>1, <1>15 DEF append
  <2> HIDE DEF base
  <2>3. d.op = "write" /\ d.op # "read"
    BY <1>15
  <2> QED BY <2>1, <2>2, <2>3, <1>1, <1>15, <1>17, <1>25 DEF Exact, At, Fd
<1>27. ASSUME NEW u \in FileThreads, u # t
       PROVE  Busy(u)' /\ Exact(u)'
  BY <1>1, <1>17, <1>27, Disturbs DEF FileInv, BusyInv
<1>28. BusyInv' /\ TransfersExact'
  BY <1>22, <1>26, <1>27 DEF BusyInv, TransfersExact
<1> QED BY <1>19, <1>20, <1>21, <1>28 DEF FileInv

\* A call that changes the file disturbs everybody who is busy with it.
LEMMA DataKeeps ==
  ASSUME FileInv, NEW t \in FileThreads, transfer[t] = Idle, transfer' = Disturbed(t),
         \A u \in FileThreads : transfer[u] # Idle => handle'[transfer[u].h] = handle[transfer[u].h]
  PROVE  /\ transfer' \in [FileThreads -> Transfers \union {Idle}]
         /\ BusyInv' /\ TransfersExact'
<1>1. transfer' \in [FileThreads -> Transfers \union {Idle}] /\ transfer'[t] = Idle
  BY DisturbedTyped DEF FileInv
<1>2. ASSUME NEW u \in FileThreads
      PROVE  Busy(u)' /\ Exact(u)'
  <2>1. CASE u = t
    BY <2>1, <1>1 DEF Busy, Exact
  <2>2. CASE u # t
    BY <2>2, Disturbs DEF FileInv, BusyInv
  <2> QED BY <2>1, <2>2
<1> QED BY <1>1, <1>2 DEF BusyInv, TransfersExact

LEMMA TruncateKeeps ==
  ASSUME FileInv, FilesHold, NEW h \in Handles, NEW t \in FileThreads, NEW n \in Positions,
         beans_file_truncate(t, h, n)
  PROVE  FileInv'
<1>1. /\ transfer[t] = Idle /\ n >= 0 /\ data' = Resized(data, n) /\ transfer' = Disturbed(t)
      /\ UNCHANGED <<handle, fds, mapped, flocked>>
  BY DEF beans_file_truncate, BeginsOnFile, BeginsOn, Begins
<1>2. n \in Nat /\ data \in Seq(Nat)
  BY <1>1 DEF FilesHold, FileInv, FileTypeOK
<1>3. data' \in Seq(Nat)
  BY <1>1, <1>2, ResizedIsSeq
<1>4. /\ transfer' \in [FileThreads -> Transfers \union {Idle}]
      /\ BusyInv' /\ TransfersExact'
  BY <1>1, DataKeeps
<1>5. FileTypeOK'
  BY <1>1, <1>3, <1>4 DEF FileInv, FileTypeOK
<1>6. OpenInv'
  BY <1>1 DEF FileInv, OpenInv, Fd
<1>7. DescriptorsOwned'
  BY <1>1, StillOwned
<1> QED BY <1>4, <1>5, <1>6, <1>7 DEF FileInv

LEMMA LockKeeps ==
  ASSUME FileInv, FilesHold, NEW h \in Handles, NEW t \in FileThreads,
         beans_file_lock(t, h) \/ beans_file_unlock(t, h)
  PROVE  FileInv'
<1>1. /\ BeginsOn(t, h) /\ IsFile(h) /\ UNCHANGED <<handle, fds, mapped, data, transfer>>
      /\ flocked' = Fd(h) \/ flocked' = Nobody
  BY DEF beans_file_lock, beans_file_unlock, Flock, BeginsOnFile
<1>2. Fd(h) \in Nums /\ fds[Fd(h)] # Nobody
  BY <1>1, BegunFacts DEF FilesHold
<1>3. FileTypeOK'
  BY <1>1, <1>2 DEF FileInv, FileTypeOK
<1>4. OpenInv'
  BY <1>1 DEF FileInv, OpenInv, Fd
<1>5. DescriptorsOwned'
  BY <1>1, <1>2 DEF FileInv, DescriptorsOwned, Fd
<1>6. BusyInv' /\ TransfersExact'
  BY <1>1, AllLeftAlone
<1> QED BY <1>3, <1>4, <1>5, <1>6 DEF FileInv

LEMMA MapWriteKeeps ==
  ASSUME FileInv, FilesHold, NEW h \in Handles, NEW t \in FileThreads, NEW pos \in Positions,
         NEW bytes \in Payloads, beans_mmap_write(t, h, pos, bytes)
  PROVE  FileInv'
<1>1. /\ transfer[t] = Idle /\ pos >= 0 /\ data' = Put(data, pos, bytes)
      /\ transfer' = Disturbed(t) /\ UNCHANGED <<handle, fds, mapped, flocked>>
  BY DEF beans_mmap_write, Within, BeginsOn, Begins
<1>2. pos \in Nat /\ data \in Seq(Nat) /\ bytes \in Seq(Nat)
  BY <1>1 DEF FilesHold, FileInv, FileTypeOK
<1>3. data' \in Seq(Nat)
  BY <1>1, <1>2, PutIsSeq
<1>4. /\ transfer' \in [FileThreads -> Transfers \union {Idle}]
      /\ BusyInv' /\ TransfersExact'
  BY <1>1, DataKeeps
<1>5. FileTypeOK'
  BY <1>1, <1>3, <1>4 DEF FileInv, FileTypeOK
<1>6. OpenInv'
  BY <1>1 DEF FileInv, OpenInv, Fd
<1>7. DescriptorsOwned'
  BY <1>1, StillOwned
<1> QED BY <1>4, <1>5, <1>6, <1>7 DEF FileInv

LEMMA ResizeKeeps ==
  ASSUME FileInv, FilesHold, NEW h \in Handles, NEW t \in FileThreads, NEW n \in Positions,
         beans_mmap_resize(t, h, n)
  PROVE  FileInv'
<1>1. /\ BeginsOn(t, h) /\ handle[h].kind = "map" /\ n >= 0 /\ data' = Resized(data, n)
      /\ transfer' = Disturbed(t) /\ UNCHANGED <<fds, flocked>>
  BY DEF beans_mmap_resize
<1>2. PICK len \in {0, n} : /\ mapped' = [mapped EXCEPT ![h] = len]
                            /\ handle' = [handle EXCEPT ![h].len = len]
  BY DEF beans_mmap_resize
<1>3. n \in Nat /\ len \in Nat /\ data \in Seq(Nat)
  BY <1>1 DEF FilesHold, FileInv, FileTypeOK
<1>4. /\ transfer[t] = Idle /\ handle[h] # Nobody /\ handle[h] \in HandleRecs
      /\ handle \in [Handles -> HandleRecs \union {Nobody}]
  BY <1>1, BegunFacts DEF FileInv, FileTypeOK
<1>5. handle' = [handle EXCEPT ![h] = [handle[h] EXCEPT !.len = len]]
  BY <1>2
<1>6. [handle[h] EXCEPT !.len = len] \in HandleRecs
  BY <1>3, <1>4 DEF HandleRecs
<1>7. /\ handle'[h] \in HandleRecs /\ handle'[h] # Nobody /\ handle'[h].fd = handle[h].fd
      /\ handle'[h].kind = "map" /\ handle'[h].closed = handle[h].closed
      /\ handle'[h].len = len
      /\ \A g \in Handles : g # h => handle'[g] = handle[g]
  BY <1>1, <1>4, <1>5, <1>6 DEF HandleRecs, FilesHold
<1>8. /\ mapped' \in [Handles -> Nat] /\ mapped'[h] = len
      /\ \A g \in Handles : g # h => mapped'[g] = mapped[g]
  BY <1>2, <1>3 DEF FileInv, FileTypeOK
<1>9. data' \in Seq(Nat)
  BY <1>1, <1>3, ResizedIsSeq
<1>10. ASSUME NEW u \in FileThreads, transfer[u] # Idle
       PROVE  handle'[transfer[u].h] = handle[transfer[u].h]
  <2>1. transfer[u].h \in Handles /\ handle[transfer[u].h].kind = "file"
    BY <1>10, BusyFacts
  <2> QED BY <2>1, <1>1, <1>7
<1>11. /\ transfer' \in [FileThreads -> Transfers \union {Idle}]
       /\ BusyInv' /\ TransfersExact'
  BY <1>1, <1>4, <1>10, DataKeeps
<1>12. FileTypeOK'
  BY <1>1, <1>4, <1>5, <1>6, <1>8, <1>9, <1>11 DEF FileInv, FileTypeOK
<1>13. OpenInv'
  BY <1>1, <1>4, <1>7, <1>8 DEF FileInv, OpenInv, Fd
<1>14. DescriptorsOwned'
  BY <1>1, <1>4, <1>7, StillOwned
<1> QED BY <1>11, <1>12, <1>13, <1>14 DEF FileInv

\* One conjunct of the next-state relation after the other.
LEMMA FileStep ==
  ASSUME FilesHold, FileInv, [FileNext]_fileVars
  PROVE  FileInv'
<1>1. CASE UNCHANGED fileVars
  BY <1>1, OsKeeps DEF fileVars
<1>2. CASE FileNext
  <2>1. PICK t \in FileThreads :
          \/ Spawn(t) \/ Exit(t) \/ Reads(t) \/ Writes(t) \/ Returns(t) \/ beans_shm_unlink(t)
          \/ \E h \in Handles :
               \/ \E u \in FileThreads : Move(h, t, u)
               \/ Drop(t, h) \/ beans_close(t, h) \/ beans_file_lock(t, h) \/ beans_file_unlock(t, h)
               \/ \E mode \in {"r", "rw", "append"} : beans_file_open(t, h, mode)
               \/ \E writable \in BOOLEAN : beans_mmap_open(t, h, writable)
               \/ \E n \in Positions :
                    \/ \E create \in BOOLEAN : beans_shm_open(t, h, n, create)
                    \/ \E cursor \in BOOLEAN, pos \in Positions : beans_file_read(t, h, pos, n, cursor)
                    \/ \E fromEnd \in BOOLEAN : beans_file_seek(t, h, n, fromEnd)
                    \/ beans_file_truncate(t, h, n) \/ beans_mmap_resize(t, h, n)
                    \/ \E cursor \in BOOLEAN, bytes \in Payloads : beans_file_write(t, h, n, bytes, cursor)
                    \/ \E bytes \in Payloads : beans_mmap_write(t, h, n, bytes)
    BY <1>2 DEF FileNext
  <2>2. CASE Spawn(t) \/ Exit(t) \/ beans_shm_unlink(t)
    BY <2>2, OsKeeps DEF Spawn, Exit, beans_shm_unlink, os
  <2>3. CASE Reads(t)
    BY <2>3, ReadsKeeps
  <2>4. CASE Writes(t)
    BY <2>4, WritesKeeps
  <2>5. CASE Returns(t)
    BY <2>5, ReturnsKeeps
  <2>6. ASSUME NEW h \in Handles, NEW u \in FileThreads, Move(h, t, u) PROVE FileInv'
    BY <2>6, MoveKeeps
  <2>7. ASSUME NEW h \in Handles, Drop(t, h) PROVE FileInv'
    BY <2>7, DropKeeps
  <2>8. ASSUME NEW h \in Handles, beans_close(t, h) PROVE FileInv'
    BY <2>8, CloseKeeps
  <2>9. ASSUME NEW h \in Handles, beans_file_lock(t, h) \/ beans_file_unlock(t, h) PROVE FileInv'
    BY <2>9, LockKeeps
  <2>10. ASSUME NEW h \in Handles, NEW mode \in {"r", "rw", "append"}, beans_file_open(t, h, mode)
         PROVE  FileInv'
    BY <2>10, FileOpenKeeps
  <2>11. ASSUME NEW h \in Handles, NEW writable \in BOOLEAN, beans_mmap_open(t, h, writable)
         PROVE  FileInv'
    BY <2>11, MapOpenKeeps
  <2>12. ASSUME NEW h \in Handles, NEW n \in Positions, NEW create \in BOOLEAN,
                beans_shm_open(t, h, n, create)
         PROVE  FileInv'
    BY <2>12, ShmOpenKeeps
  <2>13. ASSUME NEW h \in Handles, NEW n \in Positions, NEW cursor \in BOOLEAN,
                NEW pos \in Positions, beans_file_read(t, h, pos, n, cursor)
         PROVE  FileInv'
    BY <2>13, ReadKeeps
  <2>14. ASSUME NEW h \in Handles, NEW n \in Positions, NEW fromEnd \in BOOLEAN,
                beans_file_seek(t, h, n, fromEnd)
         PROVE  FileInv'
    BY <2>14, SeekKeeps
  <2>15. ASSUME NEW h \in Handles, NEW n \in Positions, beans_file_truncate(t, h, n)
         PROVE  FileInv'
    BY <2>15, TruncateKeeps
  <2>16. ASSUME NEW h \in Handles, NEW n \in Positions, beans_mmap_resize(t, h, n)
         PROVE  FileInv'
    BY <2>16, ResizeKeeps
  <2>17. ASSUME NEW h \in Handles, NEW n \in Positions, NEW cursor \in BOOLEAN,
                NEW bytes \in Payloads, beans_file_write(t, h, n, bytes, cursor)
         PROVE  FileInv'
    BY <2>17, WriteKeeps
  <2>18. ASSUME NEW h \in Handles, NEW n \in Positions, NEW bytes \in Payloads,
                beans_mmap_write(t, h, n, bytes)
         PROVE  FileInv'
    BY <2>18, MapWriteKeeps
  <2> QED BY ONLY <2>1, <2>2, <2>3, <2>4, <2>5, <2>6, <2>7, <2>8, <2>9, <2>10, <2>11, <2>12,
                  <2>13, <2>14, <2>15, <2>16, <2>17, <2>18
<1> QED BY <1>1, <1>2

LEMMA FileStart == ASSUME FilesHold PROVE FileInit => FileInv
<1> SUFFICES ASSUME FileInit PROVE FileInv
  OBVIOUS
<1>1. FileTypeOK
  BY DEF FileInit, FileTypeOK, FilesHold
<1>2. OpenInv
  BY DEF FileInit, OpenInv
<1>3. DescriptorsOwned
  BY DEF FileInit, DescriptorsOwned
<1>4. BusyInv /\ TransfersExact
  BY DEF FileInit, BusyInv, Busy, TransfersExact, Exact
<1> QED BY <1>1, <1>2, <1>3, <1>4 DEF FileInv

\* An access that the check lets through lies inside the mapping: the
\* difference is of two naturals, and a word holds no more of it than there is.
LEMMA WithinMapped ==
  ASSUME FileInv, FilesHold PROVE MappingsOwned
<1>1. ASSUME NEW h \in Handles PROVE handle[h] = Nobody => mapped[h] = 0
  BY DEF FileInv, OpenInv
<1>2. ASSUME NEW h \in Handles, handle[h] # Nobody, ~handle[h].closed, ~IsFile(h),
             NEW pos \in -Half..(Half - 1), NEW n \in -Half..(Half - 1), Within(h, pos, n)
      PROVE  pos + n <= mapped[h]
  <2> DEFINE len == handle[h].len
  <2>1. len \in Nat /\ mapped[h] = len
    BY <1>2, HandleFacts DEF FileInv, OpenInv, HandleRecs, IsFile
  <2>2. pos \in Int /\ n \in Int /\ n >= 0 /\ n <= len /\ pos <= Wrapped(len - n)
    BY <1>2 DEF Within, FilesHold
  <2> HIDE DEF len
  <2> DEFINE left == len - n
  <2>3. left \in Nat
    BY <2>1, <2>2
  <2>4. Wrapped(left) \in Int /\ Wrapped(left) <= left
    <3> HIDE DEF left
    <3> QED BY <2>3, WrappedBelow DEF FilesHold
  <2>5. pos <= left
    <3>1. pos \in Int /\ left \in Int /\ pos <= Wrapped(left)
      BY <2>2, <2>3
    <3> HIDE DEF left
    <3> QED BY <3>1, <2>4
  <2> QED BY <2>1, <2>2, <2>5
<1> QED BY <1>1, <1>2 DEF MappingsOwned

\* No descriptor or mapping is shared, kept or closed twice, no access leaves
\* its mapping, and a transfer nobody disturbs moves exactly its bytes, whatever
\* the threads, the handles, the files and the word (beans_file_open to
\* beans_mmap_resize, cc_free_shell).
THEOREM FilesRightCorrect ==
  ASSUME FilesHold PROVE FileSpec => []FilesRight
<1>1. FileInit => FileInv
  BY FileStart
<1>2. FileInv /\ [FileNext]_fileVars => FileInv'
  BY FileStep
<1>3. FileInv => FilesRight
  BY WithinMapped DEF FilesRight, FileInv
<1> QED BY <1>1, <1>2, <1>3, PTL DEF FileSpec

(***************************************************************************)
(* WeakRefs.                                                               *)
(***************************************************************************)
\* The slot k places after h in a table of c slots, around its end.
Around(h, k, c) == IF h + k < c THEN h + k ELSE h + k - c
\* Slot x is passed on the way from h to s.
Passes(h, x, s) == IF h <= s THEN h <= x /\ x < s ELSE h <= x \/ x < s

IsTable(t, c) == c \in Nat \ {0} /\ t \in [0..c-1 -> Referents \union {None}]
\* No object has two slots.
Apart(t) == \A r, s \in DOMAIN t : t[r] = t[s] /\ t[r] # None => r = s
\* There is no empty slot between an object's home and its slot.
OnPath(t, c) == \A s, x \in DOMAIN t : t[s] # None /\ Passes(Home(t[s], c), x, s) => t[x] # None
Sound(t, c) == IsTable(t, c) /\ Apart(t) /\ OnPath(t, c)
HasRoom(t) == \E s \in DOMAIN t : t[s] = None

LEMMA ModIs ==
  ASSUME NEW c \in Nat, NEW a \in Nat, c > 0, a < 2 * c
  PROVE  a % c = IF a < c THEN a ELSE a - c
<1> DEFINE q == a \div c
           m == a % c
<1>1. q \in Int /\ m \in 0..c-1 /\ a = (q * c) + m
  OBVIOUS
<1> HIDE DEF q, m
<1>2. CASE q < 0
  <2>1. q * c <= (-1) * c
    BY <1>1, <1>2
  <2> QED BY <1>1, <2>1
<1>3. CASE q >= 2
  <2>1. q * c >= 2 * c
    BY <1>1, <1>3
  <2> QED BY <1>1, <2>1
<1>4. CASE q = 0
  BY <1>1, <1>4 DEF m
<1>5. CASE q = 1
  BY <1>1, <1>5 DEF m
<1> QED BY <1>1, <1>2, <1>3, <1>4, <1>5

LEMMA HomeIs ==
  ASSUME NEW c \in Nat \ {0}, NEW o \in Referents
  PROVE  /\ Home(o, c) \in 0..c-1
         /\ \A k \in 0..c-1 : (Home(o, c) + k) % c = Around(Home(o, c), k, c)
<1>1. Home(o, c) \in 0..c-1
  <2>1. Hash[o] \in Nat
    BY WeakConstants
  <2> QED BY <2>1 DEF Home
<1>2. ASSUME NEW k \in 0..c-1 PROVE (Home(o, c) + k) % c = Around(Home(o, c), k, c)
  <2> DEFINE h == Home(o, c)
  <2> HIDE DEF h
  <2>1. h \in 0..c-1
    BY <1>1 DEF h
  <2>2. (h + k) % c = IF h + k < c THEN h + k ELSE h + k - c
    BY <2>1, ModIs
  <2> QED BY <2>2 DEF h, Around
<1> QED BY <1>1, <1>2

\* Every slot is some number of places away, and those passed on the way to it
\* are fewer places away.
LEMMA AroundIs ==
  ASSUME NEW c \in Nat \ {0}, NEW h \in 0..c-1
  PROVE  /\ \A k \in 0..c-1 : Around(h, k, c) \in 0..c-1
         /\ \A s \in 0..c-1 : \E k \in 0..c-1 : s = Around(h, k, c)
         /\ \A k \in 0..c-1, x \in 0..c-1 :
              Passes(h, x, Around(h, k, c)) <=> \E j \in 0..k-1 : x = Around(h, j, c)
         /\ \A j, k \in 0..c-1 : Around(h, j, c) = Around(h, k, c) => j = k
<1>1. \A k \in 0..c-1 : Around(h, k, c) \in 0..c-1
  BY DEF Around
<1>2. ASSUME NEW s \in 0..c-1 PROVE \E k \in 0..c-1 : s = Around(h, k, c)
  <2>1. CASE h <= s
    <3>1. s - h \in 0..c-1 /\ s = Around(h, s - h, c)
      BY <2>1 DEF Around
    <3> QED BY <3>1
  <2>2. CASE h > s
    <3>1. s - h + c \in 0..c-1 /\ s = Around(h, s - h + c, c)
      BY <2>2 DEF Around
    <3> QED BY <3>1
  <2> QED BY <2>1, <2>2
<1>3. ASSUME NEW k \in 0..c-1, NEW x \in 0..c-1
      PROVE  Passes(h, x, Around(h, k, c)) <=> \E j \in 0..k-1 : x = Around(h, j, c)
  <2>1. ASSUME NEW j \in 0..k-1 PROVE Passes(h, Around(h, j, c), Around(h, k, c))
    BY DEF Around, Passes
  <2>2. ASSUME Passes(h, x, Around(h, k, c)) PROVE \E j \in 0..k-1 : x = Around(h, j, c)
    <3>1. CASE h <= x
      <4>1. x - h \in 0..k-1 /\ x = Around(h, x - h, c)
        BY <2>2, <3>1 DEF Around, Passes
      <4> QED BY <4>1
    <3>2. CASE h > x
      <4>1. x - h + c \in 0..k-1 /\ x = Around(h, x - h + c, c)
        BY <2>2, <3>2 DEF Around, Passes
      <4> QED BY <4>1
    <3> QED BY <3>1, <3>2
  <2> QED BY <2>1, <2>2
<1>4. \A j, k \in 0..c-1 : Around(h, j, c) = Around(h, k, c) => j = k
  BY DEF Around
<1> QED BY <1>1, <1>2, <1>3, <1>4

\* A probe stops at the only slot that is empty or holds the object and before
\* which no such slot is passed.
LEMMA ProbeStops ==
  ASSUME NEW c, NEW t, IsTable(t, c), NEW o \in Referents, NEW s \in 0..c-1,
         t[s] \in {None, o}, \A x \in 0..c-1 : Passes(Home(o, c), x, s) => t[x] \notin {None, o}
  PROVE  Probe(t, c, o) = s
<1> DEFINE h == Home(o, c)
           at(k) == (h + k) % c
           Stops(k) == t[at(k)] \in {None, o} /\ \A j \in 0..k-1 : t[at(j)] \notin {None, o}
           k0 == CHOOSE k \in 0..c-1 : Stops(k)
<1>1. Probe(t, c, o) = at(k0)
  BY DEF Probe
<1>2. c \in Nat \ {0} /\ h \in 0..c-1 /\ \A k \in 0..c-1 : at(k) = Around(h, k, c)
  BY HomeIs DEF IsTable
<1> HIDE DEF h, at
<1>3. PICK k \in 0..c-1 : s = Around(h, k, c)
  BY <1>2, AroundIs
<1>4. \A j \in 0..k-1 : at(j) \in 0..c-1 /\ Passes(h, at(j), s)
  <2> TAKE j \in 0..k-1
  <2>1. j \in 0..c-1 /\ at(j) = Around(h, j, c)
    BY <1>2
  <2>2. Around(h, j, c) \in 0..c-1
    BY <1>2, <2>1, AroundIs
  <2>3. Passes(h, Around(h, j, c), Around(h, k, c))
    BY <1>2, <2>2, AroundIs
  <2> QED BY <1>3, <2>1, <2>2, <2>3
<1>5. Stops(k)
  BY <1>2, <1>3, <1>4 DEF h
<1>6. \A l \in 0..c-1 : Stops(l) => l = k
  <2> TAKE l \in 0..c-1
  <2> HAVE Stops(l)
  <2>1. ~(l \in 0..k-1) /\ ~(k \in 0..l-1)
    BY <1>5
  <2> QED BY <1>2, <2>1
<1>7. k0 = k
  <2> HIDE DEF Stops
  <2> QED BY <1>5, <1>6
<1> QED BY <1>1, <1>2, <1>3, <1>7

LEMMA ProbeEntry ==
  ASSUME NEW c, NEW t, Sound(t, c), NEW s \in 0..c-1, t[s] # None
  PROVE  Probe(t, c, t[s]) = s
<1>1. IsTable(t, c) /\ c \in Nat \ {0} /\ t[s] \in Referents /\ DOMAIN t = 0..c-1 /\ Home(t[s], c) \in 0..c-1
  BY HomeIs DEF Sound, IsTable
<1>2. ASSUME NEW x \in 0..c-1, Passes(Home(t[s], c), x, s) PROVE t[x] \notin {None, t[s]}
  <2>1. t[x] # None
    BY <1>1, <1>2 DEF Sound, OnPath
  <2>2. x # s
    BY <1>1, <1>2 DEF Passes
  <2> QED BY <1>1, <2>1, <2>2 DEF Sound, Apart
<1> QED BY <1>1, <1>2, ProbeStops

\* With an empty slot somewhere the probe for an absent object ends at one.
LEMMA ProbeFree ==
  ASSUME NEW c, NEW t, IsTable(t, c), HasRoom(t), NEW o \in Referents, o \notin Entered(t)
  PROVE  /\ Probe(t, c, o) \in 0..c-1 /\ t[Probe(t, c, o)] = None
         /\ \A x \in 0..c-1 : Passes(Home(o, c), x, Probe(t, c, o)) => t[x] # None
<1>1. c \in Nat \ {0} /\ DOMAIN t = 0..c-1 /\ Home(o, c) \in 0..c-1
  BY HomeIs DEF IsTable
<1> DEFINE h == Home(o, c)
           K == {k \in 0..c-1 : t[Around(h, k, c)] = None}
<1>2. K \in SUBSET Nat /\ K # {}
  <2>1. PICK s \in 0..c-1 : t[s] = None
    BY <1>1 DEF HasRoom
  <2>2. PICK k \in 0..c-1 : s = Around(h, k, c)
    BY <1>1, AroundIs
  <2> QED BY <1>1, <2>1, <2>2
<1>3. PICK k \in K : \A j \in K : k <= j
  <2> HIDE DEF K
  <2> QED BY <1>2, LeastLemma
<1> DEFINE s == Around(h, k, c)
<1>4. s \in 0..c-1 /\ t[s] = None
  BY <1>1, <1>3, AroundIs
<1>5. ASSUME NEW x \in 0..c-1, Passes(h, x, s) PROVE t[x] # None
  <2>1. PICK j \in 0..k-1 : x = Around(h, j, c)
    BY <1>1, <1>3, <1>5, AroundIs
  <2> QED BY <1>1, <1>3, <2>1
<1>6. \A x \in 0..c-1 : t[x] # o
  BY <1>1, WeakConstants DEF Entered
<1> HIDE DEF h, s, K
<1>7. Probe(t, c, o) = s
  BY <1>4, <1>5, <1>6, ProbeStops DEF h
<1> QED BY <1>4, <1>5, <1>7 DEF h

\* An absent object that is put where its probe ends.
LEMMA InsertSound ==
  ASSUME NEW c, NEW t, Sound(t, c), HasRoom(t), NEW o \in Referents, o \notin Entered(t)
  PROVE  Sound(Insert(t, c, o), c) /\ Entered(Insert(t, c, o)) = Entered(t) \union {o}
<1> DEFINE p == Probe(t, c, o)
           u == [t EXCEPT ![p] = o]
<1>1. /\ IsTable(t, c) /\ c \in Nat \ {0} /\ DOMAIN t = 0..c-1
      /\ p \in 0..c-1 /\ t[p] = None /\ \A x \in 0..c-1 : Passes(Home(o, c), x, p) => t[x] # None
  BY ProbeFree DEF Sound, IsTable
<1> HIDE DEF p
<1>2. /\ IsTable(u, c) /\ DOMAIN u = 0..c-1 /\ u[p] = o
      /\ \A x \in 0..c-1 : x # p => u[x] = t[x]
  BY <1>1 DEF IsTable
<1> HIDE DEF u
<1>3. o # None /\ \A x \in 0..c-1 : t[x] # o
  BY <1>1, WeakConstants DEF Entered
<1>4. Apart(u)
  BY <1>1, <1>2, <1>3 DEF Sound, Apart
<1>5. OnPath(u, c)
  BY <1>1, <1>2, <1>3 DEF Sound, OnPath
<1>6. Entered(u) = Entered(t) \union {o}
  <2>1. \A x \in 0..c-1 : u[x] \in Entered(t) \union {o, None}
    BY <1>1, <1>2 DEF Entered
  <2>2. \A x \in 0..c-1 : t[x] # None => t[x] \in Entered(u)
    BY <1>1, <1>2 DEF Entered
  <2>3. o \in Entered(u)
    BY <1>1, <1>2, <1>3 DEF Entered
  <2>4. \A e \in Entered(u) : \E x \in 0..c-1 : e = u[x] /\ e # None
    BY <1>2 DEF Entered
  <2>5. \A e \in Entered(t) : \E x \in 0..c-1 : e = t[x] /\ e # None
    BY <1>1 DEF Entered
  <2> QED BY <2>1, <2>2, <2>3, <2>4, <2>5
<1>7. Insert(t, c, o) = u
  BY DEF Insert, u, p
<1> QED BY <1>2, <1>4, <1>5, <1>6, <1>7 DEF Sound

\* A table with fewer objects than slots has an empty slot.
LEMMA Room ==
  ASSUME NEW c, NEW t, IsTable(t, c), Apart(t)
  PROVE  /\ IsFiniteSet(Entered(t)) /\ Cardinality(Entered(t)) \in Nat
         /\ Cardinality(Entered(t)) <= c
         /\ Cardinality(Entered(t)) < c => HasRoom(t)
<1> DEFINE S == {s \in 0..c-1 : t[s] # None}
           f == [s \in S |-> t[s]]
<1>1. c \in Nat \ {0} /\ DOMAIN t = 0..c-1
  BY DEF IsTable
<1>2. IsFiniteSet(0..c-1) /\ Cardinality(0..c-1) = c
  <2>1. 0 \in Int /\ c - 1 \in Int
    BY <1>1
  <2> QED BY <1>1, <2>1, FS_Interval
<1>3. IsFiniteSet(S) /\ Cardinality(S) <= c /\ (Cardinality(S) = c => S = 0..c-1)
  <2>1. S \in SUBSET (0..c-1)
    OBVIOUS
  <2> HIDE DEF S
  <2> QED BY <1>2, <2>1, FS_Subset
<1>4. f \in Bijection(S, Entered(t))
  <2>1. f \in [S -> Entered(t)]
    BY <1>1 DEF Entered
  <2>2. \A a, b \in S : f[a] = f[b] => a = b
    BY <1>1 DEF Apart
  <2>3. \A e \in Entered(t) : \E s \in S : f[s] = e
    BY <1>1 DEF Entered
  <2> HIDE DEF f, S
  <2> QED BY <2>1, <2>2, <2>3 DEF Bijection, Injection, Surjection, IsInjective
<1> HIDE DEF f
<1>5. IsFiniteSet(Entered(t)) /\ Cardinality(Entered(t)) = Cardinality(S)
  <2> HIDE DEF S
  <2>1. ExistsBijection(S, Entered(t))
    BY <1>4 DEF ExistsBijection
  <2> QED BY <1>3, <2>1, FS_Bijection
<1>6. ASSUME ~HasRoom(t) PROVE S = 0..c-1
  BY <1>1, <1>6 DEF HasRoom
<1>7. Cardinality(Entered(t)) \in Nat
  BY <1>5, FS_CardinalityType
<1> HIDE DEF S
<1> QED BY <1>1, <1>2, <1>3, <1>5, <1>6, <1>7

\* A walk over n + 1 places exists whatever it does at each of them.
IsWalk(f, V, a, n, G) ==
    f \in [0..n -> V] /\ f[0] = a /\ \A i \in 1..n : f[i] = G[i][f[i - 1]]

LEMMA WalkExists ==
  ASSUME NEW V, NEW a \in V, NEW n \in Nat, NEW G \in [1..n -> [V -> V]]
  PROVE  \E f : IsWalk(f, V, a, n, G)
<1> DEFINE Walk(f, m) == f[0] = a /\ \A i \in 1..m : f[i] = G[i][f[i - 1]]
           Bad == {m \in 0..n : ~ \E f \in [0..m -> V] : Walk(f, m)}
<1>1. Bad = {}
  <2>1. SUFFICES ASSUME Bad # {} PROVE FALSE
    OBVIOUS
  <2>2. PICK m \in Bad : \A k \in Bad : m <= k
    <3>1. Bad \in SUBSET Nat
      OBVIOUS
    <3> HIDE DEF Bad
    <3> QED BY <2>1, <3>1, LeastLemma
  <2>3. m # 0
    <3>1. [i \in 0..0 |-> a] \in [0..0 -> V] /\ Walk([i \in 0..0 |-> a], 0)
      OBVIOUS
    <3> QED BY <3>1
  <2>4. PICK f \in [0..m-1 -> V] : Walk(f, m - 1)
    <3>1. m - 1 \in 0..n /\ ~(m <= m - 1)
      BY <2>3
    <3>2. m - 1 \notin Bad
      BY <2>2, <3>1
    <3> QED BY <3>1, <3>2
  <2> DEFINE g == [i \in 0..m |-> IF i = m THEN G[m][f[m - 1]] ELSE f[i]]
  <2>5. m \in 1..n /\ G[m][f[m - 1]] \in V
    BY <2>3
  <2>6. g \in [0..m -> V]
    BY <2>5
  <2>7. Walk(g, m)
    <3>1. g[0] = a
      BY <2>4, <2>5
    <3>2. ASSUME NEW i \in 1..m PROVE g[i] = G[i][g[i - 1]]
      <4>1. CASE i = m
        <5>1. m - 1 \in 0..m /\ m \in 0..m /\ m - 1 # m
          BY <2>5
        <5>2. g[m - 1] = f[m - 1] /\ g[m] = G[m][f[m - 1]]
          BY <5>1
        <5> QED BY <4>1, <5>2
      <4>2. CASE i # m
        <5>1. i \in 1..m-1 /\ g[i] = f[i] /\ g[i - 1] = f[i - 1]
          BY <2>5, <4>2
        <5> QED BY <2>4, <5>1
      <4> QED BY <4>1, <4>2
    <3> QED BY <3>1, <3>2
  <2> QED BY <2>5, <2>6, <2>7
<1>2. n \in 0..n /\ n \notin Bad
  <2> HIDE DEF Bad
  <2> QED BY <1>1
<1>3. \E f \in [0..n -> V] : Walk(f, n)
  <2> HIDE DEF Walk
  <2> QED BY <1>2
<1> QED BY <1>3 DEF IsWalk

LEMMA SlotsSound ==
  ASSUME NEW c \in Nat \ {0}
  PROVE  Sound(Slots(c), c) /\ Entered(Slots(c)) = {} /\ HasRoom(Slots(c))
<1>1. IsTable(Slots(c), c) /\ DOMAIN Slots(c) = 0..c-1 /\ \A s \in 0..c-1 : Slots(c)[s] = None
  BY DEF Slots, IsTable
<1>2. Apart(Slots(c)) /\ OnPath(Slots(c), c) /\ HasRoom(Slots(c))
  BY <1>1 DEF Apart, OnPath, HasRoom
<1>3. Entered(Slots(c)) = {}
  BY <1>1 DEF Entered
<1> QED BY <1>1, <1>2, <1>3 DEF Sound

\* The old table is read slot by slot into a larger one.
Upto(t, s) == {t[r] : r \in 0..s-1} \ {None}

LEMMA GrowSound ==
  ASSUME NEW c \in Nat, NEW d \in Nat, c < d, NEW t \in [0..c-1 -> Referents \union {None}], Apart(t)
  PROVE  Sound(Grow(t, c, d), d) /\ Entered(Grow(t, c, d)) = Entered(t)
<1> DEFINE V == [0..d-1 -> Referents \union {None}]
           StepTo(v, n) == IF t[n-1] = None THEN v ELSE Insert(v, d, t[n-1])
           G == [n \in 1..c |-> [v \in V |-> StepTo(v, n)]]
           Is(f) == f = [n \in 0..c |-> IF n = 0 THEN Slots(d)
                                        ELSE IF t[n-1] = None THEN f[n-1]
                                        ELSE Insert(f[n-1], d, t[n-1])]
           upto == CHOOSE f : Is(f)
<1>1. Grow(t, c, d) = upto[c]
  BY DEF Grow
<1>2. Is(upto)
  <2>1. Slots(d) \in V
    BY DEF Slots
  <2>2. G \in [1..c -> [V -> V]]
    <3>1. ASSUME NEW v \in V, NEW n \in 1..c PROVE StepTo(v, n) \in V
      <4>1. n - 1 \in 0..c-1
        OBVIOUS
      <4>2. t[n - 1] \in Referents \union {None}
        BY <4>1
      <4> QED BY <4>2 DEF Insert
    <3> HIDE DEF V, StepTo
    <3> QED BY <3>1
  <2>3. PICK f : IsWalk(f, V, Slots(d), c, G)
    <3> HIDE DEF V, G
    <3> QED BY <2>1, <2>2, WalkExists
  <2>4. \A i \in 1..c : f[i] = StepTo(f[i-1], i)
    <3> TAKE i \in 1..c
    <3>1. f[i - 1] \in V
      <4>1. i - 1 \in 0..c
        OBVIOUS
      <4> HIDE DEF V
      <4> QED BY <2>3, <4>1 DEF IsWalk
    <3> HIDE DEF V, StepTo
    <3> QED BY <2>3, <3>1 DEF IsWalk
  <2>5. Is(f)
    <3>1. DOMAIN f = 0..c
      BY <2>3 DEF IsWalk
    <3> HIDE DEF V
    <3> QED BY <2>3, <2>4, <3>1 DEF IsWalk
  <2> HIDE DEF Is
  <2> QED BY <2>5
<1> HIDE DEF Is, upto
<1>3. /\ upto[0] = Slots(d)
      /\ \A n \in 1..c : upto[n] = IF t[n-1] = None THEN upto[n-1] ELSE Insert(upto[n-1], d, t[n-1])
  BY <1>2 DEF Is
<1>4. IsFiniteSet(Entered(t)) /\ Cardinality(Entered(t)) < d
  <2>1. CASE c = 0
    <3>1. Entered(t) = {}
      BY <2>1 DEF Entered
    <3> QED BY <3>1, FS_EmptySet
  <2>2. CASE c # 0
    <3>1. IsTable(t, c)
      BY <2>2 DEF IsTable
    <3> QED BY <3>1, Room
  <2> QED BY <2>1, <2>2
<1> DEFINE Right(n) == Sound(upto[n], d) /\ Entered(upto[n]) = Upto(t, n)
           Bad == {n \in 0..c : ~Right(n)}
<1>5. Right(0)
  BY <1>3, SlotsSound DEF Upto
<1>6. ASSUME NEW n \in 1..c, Right(n - 1) PROVE Right(n)
  <2> DEFINE u == upto[n - 1]
  <2>1. /\ upto[n] = IF t[n-1] = None THEN u ELSE Insert(u, d, t[n-1])
        /\ Sound(u, d) /\ Entered(u) = Upto(t, n - 1)
    BY <1>3, <1>6
  <2> HIDE DEF u
  <2>2. n - 1 \in 0..c-1 /\ 0..n-1 = (0..n-1-1) \union {n - 1}
    OBVIOUS
  <2>3. Upto(t, n) = (Upto(t, n - 1) \union {t[n - 1]}) \ {None}
    BY <2>2 DEF Upto
  <2>4. CASE t[n-1] = None
    <3>1. Upto(t, n) = Upto(t, n - 1)
      BY <2>3, <2>4 DEF Upto
    <3> QED BY <2>1, <2>4, <3>1
  <2>5. CASE t[n-1] # None
    <3>1. t[n-1] \in Referents
      BY <2>2, <2>5
    <3>2. t[n-1] \notin Entered(u)
      <4>1. \A r \in 0..n-1-1 : t[r] # t[n-1]
        <5>1. \A r \in 0..n-1-1 : r \in DOMAIN t /\ n - 1 \in DOMAIN t /\ r # n - 1
          BY <2>2
        <5> QED BY <2>5, <5>1 DEF Apart
      <4> QED BY <2>1, <4>1 DEF Upto
    <3>3. HasRoom(u)
      <4>1. Entered(u) \in SUBSET Entered(t)
        <5>1. \A r \in 0..n-1-1 : r \in DOMAIN t
          BY <2>2
        <5> QED BY <2>1, <5>1 DEF Upto, Entered
      <4>2. Cardinality(Entered(u)) <= Cardinality(Entered(t)) /\ Cardinality(Entered(t)) \in Nat
        BY <1>4, <4>1, FS_Subset, FS_CardinalityType
      <4>3. IsTable(u, d) /\ Apart(u)
        BY <2>1 DEF Sound
      <4> QED BY <1>4, <4>2, <4>3, Room
    <3>4. Sound(Insert(u, d, t[n-1]), d) /\ Entered(Insert(u, d, t[n-1])) = Entered(u) \union {t[n-1]}
      BY <2>1, <3>1, <3>2, <3>3, InsertSound
    <3>5. Upto(t, n) = Upto(t, n - 1) \union {t[n-1]}
      BY <2>3, <2>5 DEF Upto
    <3> QED BY <2>1, <2>5, <3>4, <3>5
  <2> QED BY <2>4, <2>5
<1> HIDE DEF Right
<1>7. Bad = {}
  <2> SUFFICES ASSUME Bad # {} PROVE FALSE
    OBVIOUS
  <2>1. PICK n \in Bad : \A k \in Bad : n <= k
    <3>1. Bad \in SUBSET Nat
      OBVIOUS
    <3> HIDE DEF Bad
    <3> QED BY <3>1, LeastLemma
  <2>2. n \in 1..c /\ n - 1 \in 0..c
    BY <1>5, <2>1
  <2>3. n - 1 \notin Bad
    BY <2>1, <2>2
  <2> QED BY <1>6, <2>1, <2>2, <2>3
<1>8. Right(c)
  BY <1>7
<1>9. Upto(t, c) = Entered(t)
  BY DEF Upto, Entered
<1> QED BY <1>1, <1>8, <1>9 DEF Right

\* Of two slots one is passed on the way to the other; and a way that goes
\* on from a cluster passes the slot behind it.
LEMMA PassesFirst ==
  ASSUME NEW c \in Nat \ {0}, NEW h \in 0..c-1
  PROVE  /\ \A a, b \in 0..c-1 : a = b \/ Passes(h, a, b) \/ Passes(h, b, a)
         /\ \A a, b \in 0..c-1 : Passes(h, a, b) => a # b /\ ~Passes(h, b, a)
  BY DEF Passes

LEMMA PassesOn ==
  ASSUME NEW c \in Nat \ {0}, NEW h \in 0..c-1, NEW at \in 0..c-1, NEW m \in 0..c-1, NEW k \in 0..m-1,
         NEW s \in 0..c-1, Passes(h, Around(at, k, c), s), \A i \in k+1..m : s # Around(at, i, c)
  PROVE  Passes(h, Around(at, m, c), s)
<1>1. PICK i \in 0..c-1 : s = Around(at, i, c)
  BY AroundIs
<1>2. ~(i \in k+1..m)
  BY <1>1
<1>3. i < k \/ i > m
  BY <1>1, <1>2, PassesFirst
<1> QED BY <1>1, <1>3 DEF Around, Passes

\* The table while the slots up to n places behind `at' have been worked on: m
\* is the first empty slot behind it.  Only an entry of the rest of the
\* cluster may have an empty slot on its path, one of those worked on.
Partly(t, T, c, at, m, n) ==
    /\ IsTable(T, c) /\ Apart(T) /\ Entered(T) = Entered(t) \ {t[at]}
    /\ \A i \in n+1..m : T[Around(at, i, c)] = t[Around(at, i, c)]
    /\ \A s, x \in 0..c-1 :
         T[s] # None /\ T[x] = None /\ Passes(Home(T[s], c), x, s) =>
           /\ \E i \in n+1..m-1 : s = Around(at, i, c)
           /\ \E j \in 0..n : x = Around(at, j, c)

LEMMA ClearedIs ==
  ASSUME NEW c, NEW t, IsTable(t, c), Apart(t), NEW s \in 0..c-1, t[s] # None
  PROVE  /\ IsTable(Cleared(t, s), c) /\ Apart(Cleared(t, s)) /\ HasRoom(Cleared(t, s))
         /\ Cleared(t, s)[s] = None /\ \A x \in 0..c-1 : x # s => Cleared(t, s)[x] = t[x]
         /\ t[s] \in Referents /\ Entered(Cleared(t, s)) = Entered(t) \ {t[s]}
         /\ DOMAIN Cleared(t, s) = 0..c-1
<1> DEFINE u == Cleared(t, s)
<1>1. c \in Nat \ {0} /\ DOMAIN t = 0..c-1 /\ t[s] \in Referents
  BY DEF IsTable
<1>2. /\ u \in [0..c-1 -> Referents \union {None}] /\ DOMAIN u = 0..c-1
      /\ u[s] = None /\ \A x \in 0..c-1 : x # s => u[x] = t[x]
  BY <1>1 DEF Cleared, IsTable
<1> HIDE DEF u
<1>3. Apart(u)
  BY <1>1, <1>2 DEF Apart
<1>4. Entered(u) = Entered(t) \ {t[s]}
  <2>1. \A e : e \in Entered(u) <=> \E x \in 0..c-1 : e = u[x] /\ e # None
    BY <1>2 DEF Entered
  <2>2. \A e : e \in Entered(t) <=> \E x \in 0..c-1 : e = t[x] /\ e # None
    BY <1>1 DEF Entered
  <2>3. \A x \in 0..c-1 : t[x] = t[s] => x = s
    BY <1>1 DEF Apart
  <2> QED BY <1>2, <2>1, <2>2, <2>3
<1> QED BY <1>1, <1>2, <1>3, <1>4 DEF u, IsTable, HasRoom

LEMMA PartlyBegins ==
  ASSUME NEW c, NEW t, Sound(t, c), NEW at \in 0..c-1, t[at] # None, NEW m \in 1..c-1, t[Around(at, m, c)] = None
  PROVE  Partly(t, Cleared(t, at), c, at, m, 0)
<1> DEFINE T == Cleared(t, at)
<1>1. c \in Nat \ {0} /\ IsTable(t, c) /\ Apart(t) /\ DOMAIN t = 0..c-1 /\ OnPath(t, c)
  BY DEF Sound, IsTable
<1>2. /\ IsTable(T, c) /\ Apart(T) /\ T[at] = None /\ \A x \in 0..c-1 : x # at => T[x] = t[x]
      /\ Entered(T) = Entered(t) \ {t[at]}
  BY <1>1, ClearedIs
<1> HIDE DEF T
<1>3. Around(at, 0, c) = at /\ \A i \in 1..m : Around(at, i, c) \in 0..c-1 /\ Around(at, i, c) # at
  BY <1>1 DEF Around
<1>4. ASSUME NEW s \in 0..c-1, NEW x \in 0..c-1, T[s] # None, T[x] = None, Passes(Home(T[s], c), x, s)
      PROVE  x = at /\ \E i \in 1..m-1 : s = Around(at, i, c)
  <2>1. s # at /\ T[s] = t[s] /\ t[s] \in Referents
    BY <1>2, <1>4 DEF IsTable
  <2>2. x = at
    <3>1. ASSUME x # at PROVE FALSE
      <4>1. t[x] = None
        BY <1>2, <1>4, <3>1
      <4> QED BY <1>1, <1>4, <2>1, <4>1 DEF OnPath
    <3> QED BY <3>1
  <2>3. ASSUME \A i \in 1..m-1 : s # Around(at, i, c) PROVE FALSE
    <3> DEFINE h == Home(t[s], c)
    <3>1. h \in 0..c-1
      BY <1>1, <2>1, HomeIs
    <3>2. \A y \in 0..c-1 : Passes(h, y, s) => t[y] # None
      BY <1>1, <1>4, <2>1 DEF OnPath
    <3> HIDE DEF h
    <3>3. Passes(h, Around(at, 0, c), s)
      BY <1>3, <1>4, <2>1, <2>2 DEF h
    <3>4. \A i \in 0+1..m : s # Around(at, i, c)
      <4>1. s # Around(at, m, c)
        BY <1>2, <1>3, <1>4, <2>1
      <4> QED BY <2>3, <4>1
    <3>5. Passes(h, Around(at, m, c), s)
      BY <1>1, <3>1, <3>3, <3>4, PassesOn
    <3> QED BY <1>3, <3>2, <3>5
  <2> QED BY <2>2, <2>3
<1> QED BY <1>2, <1>3, <1>4 DEF Partly, T

LEMMA PartlyGoesOn ==
  ASSUME NEW c, NEW t, Sound(t, c), NEW at \in 0..c-1, NEW m \in 1..c-1, NEW n \in 0..m-2, NEW T,
         \A i \in 1..m-1 : t[Around(at, i, c)] # None, t[Around(at, m, c)] = None,
         Partly(t, T, c, at, m, n), NEW r, r = Around(at, n + 1, c)
  PROVE  T[r] # None /\ Partly(t, Insert(Cleared(T, r), c, T[r]), c, at, m, n + 1)
<1>1. /\ c \in Nat \ {0} /\ IsTable(T, c) /\ Apart(T) /\ DOMAIN T = 0..c-1
      /\ Entered(T) = Entered(t) \ {t[at]}
      /\ \A i \in n+1..m : T[Around(at, i, c)] = t[Around(at, i, c)]
  BY DEF Sound, IsTable, Partly
<1> DEFINE e == Around(at, m, c)
           o == T[r]
           u == Cleared(T, r)
           p == Probe(u, c, o)
           v == Insert(u, c, o)
           h == Home(o, c)
<1>2. r \in 0..c-1 /\ e \in 0..c-1 /\ r # e /\ T[e] = None /\ o # None
      /\ \A i \in n+2..m-1 : Around(at, i, c) # r /\ T[Around(at, i, c)] # None
  <2>1. n + 1 \in 0..c-1 /\ m \in 0..c-1 /\ n + 1 # m /\ n + 1 \in 1..m-1 /\ m \in n+1..m /\ n + 1 \in n+1..m
    BY <1>1
  <2>2. r \in 0..c-1 /\ e \in 0..c-1 /\ r # e
    BY <1>1, <2>1, AroundIs
  <2>3. T[e] = None /\ o # None
    BY <1>1, <2>1
  <2>4. \A i \in n+2..m-1 : i \in 0..c-1 /\ i # n + 1 /\ i \in 1..m-1 /\ i \in n+1..m
    BY <1>1
  <2>5. \A i \in n+2..m-1 : Around(at, i, c) # r /\ T[Around(at, i, c)] # None
    BY <1>1, <2>1, <2>4, AroundIs
  <2> QED BY <2>2, <2>3, <2>5
<1>3. /\ IsTable(u, c) /\ Apart(u) /\ HasRoom(u) /\ u[r] = None /\ \A x \in 0..c-1 : x # r => u[x] = T[x]
      /\ o \in Referents /\ Entered(u) = Entered(T) \ {o} /\ DOMAIN u = 0..c-1
  <2>1. IsTable(T, c) /\ Apart(T) /\ r \in 0..c-1 /\ T[r] # None
    BY <1>1, <1>2
  <2> QED BY ONLY <2>1, ClearedIs
<1>4. h \in 0..c-1
  BY <1>1, <1>3, HomeIs
<1> HIDE DEF e, u
<1>5. /\ p \in 0..c-1 /\ u[p] = None
      /\ \A x \in 0..c-1 : Passes(h, x, p) => u[x] # None
  <2>1. o \notin Entered(u) /\ IsTable(u, c) /\ HasRoom(u) /\ o \in Referents
    BY <1>3
  <2> QED BY ONLY <2>1, ProbeFree
<1>6. v = [u EXCEPT ![p] = o]
  BY DEF Insert
<1> HIDE DEF p, v
<1>7. IsTable(v, c) /\ DOMAIN v = 0..c-1 /\ v[p] = o /\ \A x \in 0..c-1 : x # p => v[x] = u[x]
  BY <1>1, <1>3, <1>5, <1>6 DEF IsTable
<1>8. Apart(v)
  <2>1. \A x \in 0..c-1 : u[x] # o
    BY <1>2, <1>3 DEF Entered
  <2> QED BY <1>3, <1>5, <1>7, <2>1 DEF Apart
<1>9. Entered(v) = Entered(T)
  <2>1. \A a : a \in Entered(v) <=> \E x \in 0..c-1 : a = v[x] /\ a # None
    BY <1>7 DEF Entered
  <2>2. \A a : a \in Entered(u) <=> \E x \in 0..c-1 : a = u[x] /\ a # None
    BY <1>3 DEF Entered
  <2>3. o \in Entered(T)
    BY <1>1, <1>2 DEF Entered
  <2>4. \A a : a \in Entered(v) <=> a \in Entered(u) \/ a = o
    BY <1>2, <1>5, <1>7, <2>1, <2>2
  <2> QED BY <1>3, <2>3, <2>4
\* The empty slot behind the cluster is not on o's path, so p is before it.
<1>10. p # e
  <2>1. ~Passes(h, e, r)
    <3>1. ASSUME Passes(h, e, r) PROVE FALSE
      <4>1. PICK j \in 0..n : e = Around(at, j, c)
        BY <1>2, <3>1 DEF Partly
      <4>2. j \in 0..c-1 /\ m \in 0..c-1 /\ j # m
        BY <1>1, <4>1
      <4> QED BY <1>1, <4>1, <4>2, AroundIs DEF e
    <3> QED BY <3>1
  <2>2. Passes(h, r, e)
    BY <1>1, <1>2, <1>4, <2>1, PassesFirst
  <2> QED BY <1>2, <1>3, <1>5, <2>2
<1>11. \A i \in n+2..m : Around(at, i, c) \in 0..c-1 /\ Around(at, i, c) # p /\ Around(at, i, c) # r
  <2> TAKE i \in n+2..m
  <2>1. i \in 0..c-1 /\ (i = m \/ i \in n+2..m-1)
    BY <1>1
  <2>2. Around(at, i, c) \in 0..c-1
    BY <1>1, <2>1, AroundIs
  <2> QED BY <1>2, <1>3, <1>5, <1>10, <2>1, <2>2 DEF e
<1>12. \A i \in (n+1)+1..m : v[Around(at, i, c)] = t[Around(at, i, c)]
  <2> TAKE i \in (n+1)+1..m
  <2>1. i \in n+2..m /\ i \in n+1..m
    OBVIOUS
  <2> QED BY <1>1, <1>3, <1>7, <1>11, <2>1
<1>13. ASSUME NEW s \in 0..c-1, NEW x \in 0..c-1, v[s] # None, v[x] = None, Passes(Home(v[s], c), x, s)
       PROVE  /\ \E i \in (n+1)+1..m-1 : s = Around(at, i, c)
              /\ \E j \in 0..n+1 : x = Around(at, j, c)
  <2>1. s # p
    <3>1. ASSUME s = p PROVE FALSE
      <4>1. x # p
        BY <1>4, <1>7, <1>13, <3>1, <1>1, PassesFirst
      <4> QED BY <1>5, <1>7, <1>13, <3>1, <4>1
    <3> QED BY <3>1
  <2>2. v[s] = T[s] /\ s # r /\ T[s] # None /\ T[s] \in Referents
    BY <1>1, <1>3, <1>7, <1>13, <2>1 DEF IsTable
  <2>3. x # p /\ u[x] = None
    BY <1>2, <1>7, <1>13
  <2>4. CASE x # r
    <3>1. T[x] = None
      BY <1>3, <2>3, <2>4
    <3>2. (\E i \in n+1..m-1 : s = Around(at, i, c)) /\ \E j \in 0..n : x = Around(at, j, c)
      BY <1>13, <2>2, <3>1 DEF Partly
    <3>3. PICK i \in n+1..m-1 : s = Around(at, i, c)
      BY <3>2
    <3>4. i # n + 1
      BY <2>2, <3>3
    <3>5. i \in (n+1)+1..m-1
      BY <3>4
    <3> QED BY <3>2, <3>3, <3>5
  <2>5. CASE x = r
    <3>1. \E j \in 0..n+1 : x = Around(at, j, c)
      BY <2>5
    <3>2. ASSUME \A i \in (n+1)+1..m-1 : s # Around(at, i, c) PROVE FALSE
      <4> DEFINE g == Home(T[s], c)
      <4>1. g \in 0..c-1
        BY <1>1, <2>2, HomeIs
      <4>2. Passes(g, Around(at, n + 1, c), s)
        BY <1>13, <2>2, <2>5
      <4>3. s # e
        BY <1>2, <2>2
      <4>4. \A i \in (n+1)+1..m : s # Around(at, i, c)
        BY <3>2, <4>3 DEF e
      <4> HIDE DEF g
      <4>5. n + 1 \in 0..m-1 /\ m \in 0..c-1
        BY <1>1
      <4>6. Passes(g, Around(at, m, c), s)
        BY <1>1, <4>1, <4>2, <4>4, <4>5, PassesOn
      <4>7. PICK j \in 0..n : e = Around(at, j, c)
        BY <1>2, <2>2, <4>6 DEF Partly, e, g
      <4>8. j \in 0..c-1 /\ m \in 0..c-1 /\ j # m
        BY <1>1, <4>7
      <4> QED BY <1>1, <4>7, <4>8, AroundIs DEF e
    <3> QED BY <3>1, <3>2
  <2> QED BY <2>4, <2>5
<1>14. n + 1 \in Nat /\ Partly(t, v, c, at, m, n + 1)
  BY <1>1, <1>7, <1>8, <1>9, <1>12, <1>13 DEF Partly
<1> QED BY <1>2, <1>14 DEF u, v, p

LEMMA PartlyEnds ==
  ASSUME NEW c, NEW t, Sound(t, c), NEW at \in 0..c-1, NEW m \in 1..c-1, NEW T,
         Partly(t, T, c, at, m, m - 1)
  PROVE  Sound(T, c) /\ Entered(T) = Entered(t) \ {t[at]}
<1>1. IsTable(T, c) /\ Apart(T) /\ DOMAIN T = 0..c-1 /\ Entered(T) = Entered(t) \ {t[at]}
  BY DEF Partly, IsTable
<1>2. \A i : ~(i \in (m-1)+1..m-1)
  BY DEF Sound, IsTable
<1>3. OnPath(T, c)
  BY <1>1, <1>2 DEF Partly, OnPath
<1> QED BY <1>1, <1>3 DEF Sound

LEMMA RemoveSound ==
  ASSUME NEW c, NEW t, Sound(t, c), HasRoom(t), NEW at \in 0..c-1, t[at] # None
  PROVE  Sound(WeakRemove(t, c, at), c) /\ Entered(WeakRemove(t, c, at)) = Entered(t) \ {t[at]}
<1>1. c \in Nat \ {0} /\ IsTable(t, c) /\ DOMAIN t = 0..c-1 /\ Apart(t) /\ c - 1 \in Nat
  BY DEF Sound, IsTable
<1> DEFINE V == [t : [0..c-1 -> Referents \union {None}], going : BOOLEAN]
           a == [t |-> Cleared(t, at), going |-> TRUE]
           StepTo(v, n) == Replaced(v, c, (at + n) % c)
           G == [n \in 1..c-1 |-> [v \in V |-> StepTo(v, n)]]
           Is(f) == f = [n \in 0..c-1 |-> IF n = 0 THEN a ELSE StepTo(f[n-1], n)]
           after == CHOOSE f : Is(f)
<1>2. WeakRemove(t, c, at) = after[c-1].t
  BY DEF WeakRemove
<1>3. \A n \in 0..c-1 : (at + n) % c = Around(at, n, c) /\ Around(at, n, c) \in 0..c-1
  <2>1. \A n \in 0..c-1 : at + n \in Nat /\ at + n < 2 * c
    BY <1>1
  <2>2. \A n \in 0..c-1 : (at + n) % c = IF at + n < c THEN at + n ELSE at + n - c
    BY <1>1, <2>1, ModIs
  <2> QED BY <1>1, <2>2 DEF Around
<1>4. Is(after)
  <2>1. a \in V
    BY <1>1 DEF Cleared, IsTable
  <2>2. G \in [1..c-1 -> [V -> V]]
    <3>1. ASSUME NEW v \in V, NEW n \in 1..c-1 PROVE StepTo(v, n) \in V
      <4> DEFINE s == (at + n) % c
      <4>1. s \in 0..c-1
        <5>1. n \in 0..c-1
          BY <1>1
        <5> QED BY <1>3, <5>1
      <4> HIDE DEF s
      <4>2. v.t[s] \in Referents \union {None} /\ v.t \in [0..c-1 -> Referents \union {None}] /\ v.going \in BOOLEAN
        BY <4>1
      <4>3. Cleared(v.t, s) \in [0..c-1 -> Referents \union {None}]
        BY <4>2 DEF Cleared
      <4>4. ASSUME v.t[s] # None
            PROVE  Insert(Cleared(v.t, s), c, v.t[s]) \in [0..c-1 -> Referents \union {None}]
        BY <4>2, <4>3 DEF Insert
      <4>5. Replaced(v, c, s) \in V
        BY <4>2, <4>4 DEF Replaced
      <4> QED BY <4>5 DEF s
    <3> HIDE DEF V, StepTo
    <3> QED BY <3>1
  <2>3. PICK f : IsWalk(f, V, a, c - 1, G)
    <3> HIDE DEF V, G, a
    <3> QED BY <1>1, <2>1, <2>2, WalkExists
  <2>4. \A i \in 1..c-1 : f[i] = StepTo(f[i-1], i)
    <3> TAKE i \in 1..c-1
    <3>1. f[i - 1] \in V
      <4>1. i - 1 \in 0..c-1
        BY <1>1
      <4> HIDE DEF V
      <4> QED BY <2>3, <4>1 DEF IsWalk
    <3> HIDE DEF V, StepTo
    <3> QED BY <2>3, <3>1 DEF IsWalk
  <2>5. Is(f)
    <3>1. DOMAIN f = 0..c-1
      BY <2>3 DEF IsWalk
    <3> HIDE DEF V, StepTo
    <3> QED BY <2>3, <2>4, <3>1 DEF IsWalk
  <2> HIDE DEF Is
  <2> QED BY <2>5
<1> HIDE DEF Is, after
<1>5. after[0] = a /\ \A n \in 1..c-1 : after[n] = Replaced(after[n-1], c, Around(at, n, c))
  <2>1. after[0] = a /\ \A n \in 1..c-1 : after[n] = StepTo(after[n-1], n)
    <3>1. 0 \in 0..c-1 /\ \A n \in 1..c-1 : n \in 0..c-1 /\ n # 0
      BY <1>1
    <3> HIDE DEF a, StepTo
    <3> QED BY <1>4, <3>1 DEF Is
  <2>2. \A n \in 1..c-1 : n \in 0..c-1
    BY <1>1
  <2>3. \A n \in 1..c-1 : StepTo(after[n-1], n) = Replaced(after[n-1], c, Around(at, n, c))
    BY <1>3, <2>2
  <2> HIDE DEF a, StepTo
  <2> QED BY <2>1, <2>3
<1>6. PICK m \in 1..c-1 : t[Around(at, m, c)] = None /\ \A i \in 1..m-1 : t[Around(at, i, c)] # None
  <2> DEFINE K == {i \in 1..c-1 : t[Around(at, i, c)] = None}
  <2>1. K \in SUBSET Nat /\ K # {}
    <3>1. PICK e \in 0..c-1 : t[e] = None
      BY <1>1 DEF HasRoom
    <3>2. PICK i \in 0..c-1 : e = Around(at, i, c)
      BY <1>1, AroundIs
    <3>3. i # 0
      BY <1>1, <3>1, <3>2 DEF Around
    <3> QED BY <1>1, <3>1, <3>2, <3>3
  <2>2. PICK m \in K : \A k \in K : m <= k
    <3> HIDE DEF K
    <3> QED BY <2>1, LeastLemma
  <2>3. \A i \in 1..m-1 : i \in 1..c-1 /\ ~(m <= i)
    BY <1>1
  <2> QED BY <2>2, <2>3
<1> DEFINE Done(T) == Sound(T, c) /\ Entered(T) = Entered(t) \ {t[at]}
           Right(n) == /\ after[n].going \in BOOLEAN
                       /\ after[n].going => n < m /\ Partly(t, after[n].t, c, at, m, n)
                       /\ ~after[n].going => Done(after[n].t)
<1>7. Right(0)
  <2>1. Partly(t, Cleared(t, at), c, at, m, 0) /\ 0 < m
    BY <1>1, <1>6, PartlyBegins
  <2> QED BY <1>5, <2>1
<1>8. ASSUME NEW n \in 1..c-1, Right(n - 1) PROVE Right(n)
  <2> DEFINE w == after[n - 1]
             s == Around(at, n, c)
  <2>1. after[n] = Replaced(w, c, s) /\ w.going \in BOOLEAN
    BY <1>5, <1>8
  <2>2. CASE ~w.going
    <3>1. after[n] = [t |-> w.t, going |-> FALSE]
      BY <2>1, <2>2 DEF Replaced
    <3> QED BY <1>8, <2>2, <3>1
  <2>3. CASE w.going /\ n = m
    <3>1. Partly(t, w.t, c, at, m, m - 1)
      BY <1>8, <2>3
    <3>2. w.t[s] = None
      <4>1. m \in (m-1)+1..m
        BY <1>1
      <4> QED BY <1>6, <2>3, <3>1, <4>1 DEF Partly
    <3>3. after[n] = [t |-> w.t, going |-> FALSE]
      BY <2>1, <3>2 DEF Replaced
    <3>4. Done(w.t)
      BY <3>1, PartlyEnds
    <3> QED BY <3>3, <3>4
  <2>4. CASE w.going /\ n # m
    <3>1. n - 1 \in 0..m-2 /\ Partly(t, w.t, c, at, m, n - 1) /\ n < m /\ (n - 1) + 1 = n
      BY <1>1, <1>8, <2>4
    <3> DEFINE T == w.t
    <3> HIDE DEF T, w
    <3>2. T[s] # None /\ Partly(t, Insert(Cleared(T, s), c, T[s]), c, at, m, (n - 1) + 1)
      BY <1>6, <3>1, PartlyGoesOn DEF T
    <3>3. after[n] = [t |-> Insert(Cleared(T, s), c, T[s]), going |-> TRUE]
      BY <2>1, <2>4, <3>2 DEF Replaced, T
    <3> QED BY <3>1, <3>2, <3>3
  <2> QED BY <2>1, <2>2, <2>3, <2>4
<1> DEFINE Bad == {n \in 0..c-1 : ~Right(n)}
<1> HIDE DEF Right
<1>9. Bad = {}
  <2> SUFFICES ASSUME Bad # {} PROVE FALSE
    OBVIOUS
  <2>1. PICK n \in Bad : \A k \in Bad : n <= k
    <3>1. Bad \in SUBSET Nat
      OBVIOUS
    <3> HIDE DEF Bad
    <3> QED BY <3>1, LeastLemma
  <2>2. n \in 1..c-1 /\ n - 1 \in 0..c-1
    BY <1>1, <1>7, <2>1
  <2>3. n - 1 \notin Bad
    BY <2>1, <2>2
  <2> QED BY <1>8, <2>1, <2>2, <2>3
<1>10. Right(c - 1) /\ ~(c - 1 < m)
  <2>1. c - 1 \in 0..c-1
    BY <1>1
  <2> QED BY <1>1, <1>9, <2>1
<1> QED BY <1>2, <1>10 DEF Right

(***************************************************************************)
(* The inductive invariant: the table is sound and has room, and who is in *)
(* it, alive and held.                                                     *)
(***************************************************************************)
WeakTypeOK ==
    /\ strong \in [Referents -> Nat] /\ life \in [Referents -> {"live", "dying", "gone"}]
    /\ handles \in [Referents -> Nat] /\ value \in [Referents -> BOOLEAN] /\ weak \in [Referents -> Int]
    /\ weak_cap \in Nat /\ weak_entries \in [0..weak_cap-1 -> Referents \union {None}]

TableInv ==
    weak_cap # 0 => /\ Sound(weak_entries, weak_cap)
                    /\ weak_cap >= 4 /\ Cardinality(Entered(weak_entries)) < weak_cap

HoldInv ==
    \A o \in Referents :
        /\ life[o] = "live" <=> strong[o] > 0
        /\ value[o] => o \in Entered(weak_entries)
        /\ life[o] = "gone" => o \notin Entered(weak_entries)
        /\ life[o] = "live" /\ o \notin Entered(weak_entries) => handles[o] = 0
        /\ weak[o] = handles[o] + (IF o \in Entered(weak_entries) THEN 1 ELSE 0)

WeakInv == WeakTypeOK /\ TableInv /\ HoldInv

LEMMA WeakBegins ==
  ASSUME WeakInit
  PROVE  WeakInv
<1>1. WeakTypeOK
  BY DEF WeakInit, WeakTypeOK
<1>2. TableInv
  BY DEF WeakInit, TableInv
<1>3. Entered(weak_entries) = {}
  BY DEF WeakInit, Entered
<1>4. HoldInv
  BY <1>3 DEF WeakInit, HoldInv
<1> QED BY <1>1, <1>2, <1>4 DEF WeakInv

\* The table a new weak reference is entered in: the present one, or a larger
\* one with the same objects.
LEMMA RoomForOne ==
  ASSUME WeakTypeOK, TableInv, NEW full, NEW c, NEW t,
         full = (weak_cap = 0 \/ Cardinality(Entered(weak_entries)) * 4 >= weak_cap * 3),
         c = IF ~full THEN weak_cap ELSE IF weak_cap = 0 THEN FirstCap ELSE weak_cap * 2,
         t = IF full THEN Grow(weak_entries, weak_cap, c) ELSE weak_entries
  PROVE  /\ c \in Nat /\ c >= 4 /\ Sound(t, c) /\ Entered(t) = Entered(weak_entries)
         /\ IsFiniteSet(Entered(t)) /\ Cardinality(Entered(t)) \in Nat /\ Cardinality(Entered(t)) + 1 < c
<1> DEFINE n == Cardinality(Entered(weak_entries))
<1>1. weak_cap \in Nat /\ weak_entries \in [0..weak_cap-1 -> Referents \union {None}]
  BY DEF WeakTypeOK
<1>2. CASE weak_cap = 0
  <2>1. full /\ c = FirstCap /\ c \in Nat /\ c >= 4
    BY <1>2, WeakConstants
  <2>2. Apart(weak_entries) /\ Entered(weak_entries) = {}
    BY <1>1, <1>2 DEF Apart, Entered
  <2>3. t = Grow(weak_entries, weak_cap, c) /\ weak_cap < c
    BY <1>2, <2>1
  <2>4. Sound(t, c) /\ Entered(t) = {}
    BY <1>1, <2>1, <2>2, <2>3, GrowSound
  <2>5. IsFiniteSet(Entered(t)) /\ Cardinality(Entered(t)) = 0
    BY ONLY <2>4, FS_EmptySet
  <2>6. Cardinality(Entered(t)) + 1 < c /\ Cardinality(Entered(t)) \in Nat
    BY ONLY <2>1, <2>5
  <2> QED BY ONLY <2>1, <2>2, <2>4, <2>5, <2>6
<1>3. CASE weak_cap # 0
  <2>1. Sound(weak_entries, weak_cap) /\ weak_cap >= 4 /\ n < weak_cap
    BY <1>3 DEF TableInv
  <2>2. IsFiniteSet(Entered(weak_entries)) /\ n \in Nat
    BY <2>1, Room DEF Sound
  <2> HIDE DEF n
  <2>3. CASE full
    <3>1. c = weak_cap * 2 /\ t = Grow(weak_entries, weak_cap, c)
      BY <1>3, <2>3
    <3>2. c \in Nat /\ weak_cap < c /\ n + 1 < c /\ c >= 4
      BY ONLY <1>1, <2>1, <2>2, <3>1
    <3>3. Apart(weak_entries)
      BY <2>1 DEF Sound
    <3>4. Sound(t, c) /\ Entered(t) = Entered(weak_entries)
      BY <1>1, <3>1, <3>2, <3>3, GrowSound
    <3> QED BY <2>2, <3>2, <3>4 DEF n
  <2>4. CASE ~full
    <3>1. c = weak_cap /\ t = weak_entries /\ ~(n * 4 >= weak_cap * 3)
      BY <1>3, <2>4 DEF n
    <3>2. n + 1 < c
      BY ONLY <1>1, <2>1, <2>2, <3>1
    <3> QED BY <1>1, <2>1, <2>2, <3>1, <3>2 DEF n
  <2>5. full \in BOOLEAN
    OBVIOUS
  <2> QED BY <2>3, <2>4, <2>5
<1> QED BY <1>2, <1>3

LEMMA WeakNewKeeps ==
  ASSUME WeakInv, NEW o \in Referents, WeakNew(o)
  PROVE  WeakInv'
<1>1. WeakTypeOK /\ TableInv /\ HoldInv
  BY DEF WeakInv
<1> DEFINE full == weak_cap = 0 \/ Cardinality(Entered(weak_entries)) * 4 >= weak_cap * 3
           c == IF ~full THEN weak_cap ELSE IF weak_cap = 0 THEN FirstCap ELSE weak_cap * 2
           t == IF full THEN Grow(weak_entries, weak_cap, c) ELSE weak_entries
           at == Probe(t, c, o)
           E == Entered(weak_entries)
<1>2. /\ life[o] = "live" /\ strong[o] > 0
      /\ weak_cap' = c /\ weak_entries' = [t EXCEPT ![at] = o]
      /\ weak' = [weak EXCEPT ![o] = IF t[at] = o THEN @ + 1 ELSE 2]
      /\ value' = [value EXCEPT ![o] = TRUE] /\ handles' = [handles EXCEPT ![o] = @ + 1]
      /\ UNCHANGED <<strong, life>>
  BY DEF WeakNew
<1>3. /\ c \in Nat /\ c >= 4 /\ Sound(t, c) /\ Entered(t) = E
      /\ IsFiniteSet(E) /\ Cardinality(E) \in Nat /\ Cardinality(E) + 1 < c
  <2> HIDE DEF full, c, t
  <2>1. full = (weak_cap = 0 \/ Cardinality(Entered(weak_entries)) * 4 >= weak_cap * 3)
    BY DEF full
  <2>2. c = IF ~full THEN weak_cap ELSE IF weak_cap = 0 THEN FirstCap ELSE weak_cap * 2
    BY DEF c
  <2>3. t = IF full THEN Grow(weak_entries, weak_cap, c) ELSE weak_entries
    BY DEF t
  <2> QED BY <1>1, <2>1, <2>2, <2>3, RoomForOne
<1> HIDE DEF full, c, t
<1>4. IsTable(t, c) /\ DOMAIN t = 0..c-1 /\ Apart(t)
  BY <1>3 DEF Sound, IsTable
<1>5. /\ Sound(weak_entries', c) /\ Entered(weak_entries') = E \union {o}
      /\ t[at] = o <=> o \in E
  <2>1. CASE o \in E
    <3>1. PICK s \in 0..c-1 : t[s] = o
      BY <1>3, <1>4, <2>1 DEF Entered
    <3>2. o # None
      BY WeakConstants
    <3>3. at = s
      BY <1>3, <3>1, <3>2, ProbeEntry
    <3>4. weak_entries' = t
      BY <1>2, <1>4, <3>1, <3>3 DEF IsTable
    <3> QED BY <1>3, <2>1, <3>1, <3>3, <3>4
  <2>2. CASE o \notin E
    <3>1. HasRoom(t)
      BY <1>3, <1>4, Room
    <3>2. weak_entries' = Insert(t, c, o)
      BY <1>2 DEF Insert
    <3>3. Sound(weak_entries', c) /\ Entered(weak_entries') = E \union {o}
      BY <1>3, <2>2, <3>1, <3>2, InsertSound
    <3>4. t[at] = None /\ o # None
      BY <1>3, <1>4, <2>2, <3>1, ProbeFree, WeakConstants
    <3> QED BY <2>2, <3>3, <3>4
  <2> QED BY <2>1, <2>2
<1> HIDE DEF at, E
<1>6. Cardinality(E \union {o}) <= Cardinality(E) + 1
  <2>1. IsFiniteSet(E) /\ Cardinality(E) \in Nat
    BY <1>3
  <2>2. Cardinality(E \union {o}) = IF o \in E THEN Cardinality(E) ELSE Cardinality(E) + 1
    BY ONLY <2>1, FS_AddElement
  <2> QED BY ONLY <2>1, <2>2
<1>7. WeakTypeOK'
  <2>1. weak_entries' \in [0..c-1 -> Referents \union {None}]
    BY <1>5 DEF Sound, IsTable
  <2> QED BY <1>1, <1>2, <1>3, <2>1 DEF WeakTypeOK
<1>8. TableInv'
  <2>1. Cardinality(Entered(weak_entries')) < c
    <3>1. Cardinality(E \union {o}) \in Nat
      BY <1>3, FS_AddElement, FS_CardinalityType
    <3> QED BY <1>3, <1>5, <1>6, <3>1
  <2> QED BY <1>2, <1>3, <1>5, <2>1 DEF TableInv
<1>9. HoldInv'
  <2>1. weak' = [weak EXCEPT ![o] = IF o \in E THEN weak[o] + 1 ELSE 2]
    BY <1>2, <1>5
  <2>2. \A p \in Referents : p # o =>
          /\ life'[p] = life[p] /\ strong'[p] = strong[p] /\ value'[p] = value[p]
          /\ handles'[p] = handles[p] /\ weak'[p] = weak[p]
          /\ p \in Entered(weak_entries)' <=> p \in E
    BY <1>1, <1>2, <1>5, <2>1 DEF WeakTypeOK
  <2>3. /\ life'[o] = "live" /\ strong'[o] > 0 /\ o \in Entered(weak_entries)'
        /\ handles'[o] = handles[o] + 1 /\ weak'[o] = IF o \in E THEN weak[o] + 1 ELSE 2
    BY <1>1, <1>2, <1>5, <2>1 DEF WeakTypeOK
  <2>4. /\ weak[o] = handles[o] + (IF o \in E THEN 1 ELSE 0)
        /\ o \notin E => handles[o] = 0
        /\ handles[o] \in Nat
    BY <1>1, <1>2 DEF HoldInv, WeakTypeOK, E
  <2>5. weak'[o] = handles'[o] + 1
    BY <2>3, <2>4
  <2> QED BY <1>1, <2>2, <2>3, <2>5 DEF HoldInv, E
<1> QED BY <1>7, <1>8, <1>9 DEF WeakInv

LEMMA InvalidateKeeps ==
  ASSUME WeakInv, NEW o \in Referents, Invalidate(o)
  PROVE  WeakInv'
<1>1. WeakTypeOK /\ TableInv /\ HoldInv
  BY DEF WeakInv
<1> DEFINE at == Probe(weak_entries, weak_cap, o)
           E == Entered(weak_entries)
<1>2. life[o] = "dying" /\ life' = [life EXCEPT ![o] = "gone"] /\ UNCHANGED <<strong, handles, weak_cap>>
  BY DEF Invalidate
<1>3. CASE weak_cap # 0 /\ weak_entries[at] = o
  <2>1. /\ weak_entries' = WeakRemove(weak_entries, weak_cap, at)
        /\ value' = [value EXCEPT ![o] = FALSE] /\ weak' = [weak EXCEPT ![o] = @ - 1]
    BY <1>3 DEF Invalidate, Zeroed
  <2>2. /\ Sound(weak_entries, weak_cap) /\ weak_cap >= 4 /\ Cardinality(E) < weak_cap
        /\ IsTable(weak_entries, weak_cap) /\ Apart(weak_entries) /\ DOMAIN weak_entries = 0..weak_cap-1
    BY <1>1, <1>3 DEF TableInv, Sound, IsTable
  <2>3. IsFiniteSet(E) /\ Cardinality(E) \in Nat /\ HasRoom(weak_entries)
    BY <2>2, Room
  <2>4. at \in 0..weak_cap-1
    <3>1. CASE o \in E
      <4>1. PICK s \in 0..weak_cap-1 : weak_entries[s] = o
        BY <2>2, <3>1 DEF Entered
      <4>2. o # None
        BY WeakConstants
      <4> QED BY <2>2, <4>1, <4>2, ProbeEntry
    <3>2. CASE o \notin E
      BY <2>2, <2>3, <3>2, ProbeFree
    <3> QED BY <3>1, <3>2
  <2> HIDE DEF at
  <2>5. o # None
    BY WeakConstants
  <2>6. Sound(weak_entries', weak_cap) /\ Entered(weak_entries') = E \ {o}
    BY <1>3, <2>1, <2>2, <2>3, <2>4, <2>5, RemoveSound
  <2>7. o \in E
    BY <1>3, <2>2, <2>4, <2>5 DEF Entered
  <2> HIDE DEF E
  <2>8. WeakTypeOK'
    <3>1. weak_entries' \in [0..weak_cap-1 -> Referents \union {None}]
      BY <2>6 DEF Sound, IsTable
    <3> QED BY <1>1, <1>2, <2>1, <3>1 DEF WeakTypeOK
  <2>9. TableInv'
    <3>1. Cardinality(E \ {o}) = Cardinality(E) - 1
      BY <2>3, <2>7, FS_RemoveElement
    <3> QED BY <1>1, <1>2, <2>2, <2>3, <2>6, <3>1 DEF TableInv, WeakTypeOK
  <2>10. HoldInv'
    BY <1>1, <1>2, <2>1, <2>6, <2>7 DEF HoldInv, WeakTypeOK, E
  <2> QED BY <2>8, <2>9, <2>10 DEF WeakInv
<1>4. CASE ~(weak_cap # 0 /\ weak_entries[at] = o)
  <2>1. UNCHANGED <<weak_entries, value, weak>>
    BY <1>4 DEF Invalidate
  <2>2. o \notin E
    <3>1. ASSUME o \in E PROVE FALSE
      <4>1. weak_cap # 0
        BY <1>1, <3>1 DEF WeakTypeOK, Entered
      <4>2. Sound(weak_entries, weak_cap) /\ DOMAIN weak_entries = 0..weak_cap-1
        BY <1>1, <4>1 DEF TableInv, Sound, IsTable
      <4>3. PICK s \in 0..weak_cap-1 : weak_entries[s] = o
        BY <3>1, <4>2 DEF Entered
      <4>4. o # None
        BY WeakConstants
      <4>5. at = s
        BY <4>2, <4>3, <4>4, ProbeEntry
      <4> QED BY <1>4, <4>1, <4>3, <4>5
    <3> QED BY <3>1
  <2>3. WeakTypeOK' /\ TableInv'
    BY <1>1, <1>2, <2>1 DEF WeakTypeOK, TableInv
  <2>4. HoldInv'
    BY <1>1, <1>2, <2>1, <2>2 DEF HoldInv, WeakTypeOK
  <2> QED BY <2>3, <2>4 DEF WeakInv
<1> QED BY <1>3, <1>4

LEMMA WeakKeeps ==
  ASSUME WeakInv, [WeakNext]_weakVars
  PROVE  WeakInv' /\ (StaysGone \/ UNCHANGED weakVars)
<1>1. WeakTypeOK /\ TableInv /\ HoldInv
  BY DEF WeakInv
<1>2. CASE UNCHANGED weakVars
  BY <1>1, <1>2 DEF weakVars, WeakInv, WeakTypeOK, TableInv, HoldInv
<1>3. ASSUME NEW o \in Referents, WeakNew(o) PROVE WeakInv' /\ StaysGone
  <2>1. strong' = strong
    BY <1>3 DEF WeakNew
  <2>2. StaysGone
    BY <1>1, <2>1 DEF StaysGone, HoldInv, WeakTypeOK
  <2> QED BY <1>3, <2>2, WeakNewKeeps
<1>4. ASSUME NEW o \in Referents, Invalidate(o) PROVE WeakInv' /\ StaysGone
  <2>1. strong' = strong
    BY <1>4 DEF Invalidate
  <2>2. StaysGone
    BY <1>1, <2>1 DEF StaysGone, HoldInv, WeakTypeOK
  <2> QED BY <1>4, <2>2, InvalidateKeeps
<1>5. ASSUME NEW o \in Referents, WeakGet(o) PROVE WeakInv' /\ StaysGone
  <2>1. /\ strong[o] > 0 /\ strong' = [strong EXCEPT ![o] = @ + 1]
        /\ UNCHANGED <<life, handles, value, weak, weak_entries, weak_cap>>
    BY <1>5 DEF WeakGet, TryRetain
  <2>2. WeakTypeOK' /\ TableInv'
    BY <1>1, <2>1 DEF WeakTypeOK, TableInv
  <2>3. HoldInv'
    BY <1>1, <2>1 DEF HoldInv, WeakTypeOK
  <2>4. StaysGone
    BY <1>1, <2>1 DEF StaysGone, HoldInv, WeakTypeOK
  <2> QED BY <2>2, <2>3, <2>4 DEF WeakInv
<1>6. ASSUME NEW o \in Referents, Release(o) PROVE WeakInv' /\ StaysGone
  <2>1. /\ strong[o] > 0 /\ strong' = [strong EXCEPT ![o] = @ - 1]
        /\ life' = [life EXCEPT ![o] = IF strong[o] = 1 THEN "dying" ELSE @]
        /\ UNCHANGED <<handles, value, weak, weak_entries, weak_cap>>
    BY <1>6 DEF Release
  <2>2. WeakTypeOK' /\ TableInv'
    BY <1>1, <2>1 DEF WeakTypeOK, TableInv
  <2>3. HoldInv'
    BY <1>1, <2>1 DEF HoldInv, WeakTypeOK
  <2>4. StaysGone
    BY <1>1, <2>1 DEF StaysGone, HoldInv, WeakTypeOK
  <2> QED BY <2>2, <2>3, <2>4 DEF WeakInv
<1>7. ASSUME NEW o \in Referents, DropHandle(o) PROVE WeakInv' /\ StaysGone
  <2>1. /\ handles[o] > 0 /\ handles' = [handles EXCEPT ![o] = @ - 1] /\ weak' = [weak EXCEPT ![o] = @ - 1]
        /\ UNCHANGED <<strong, life, value, weak_entries, weak_cap>>
    BY <1>7 DEF DropHandle
  <2>2. WeakTypeOK' /\ TableInv'
    BY <1>1, <2>1 DEF WeakTypeOK, TableInv
  <2>3. HoldInv'
    BY <1>1, <2>1 DEF HoldInv, WeakTypeOK
  <2>4. StaysGone
    BY <1>1, <2>1 DEF StaysGone, HoldInv, WeakTypeOK
  <2> QED BY <2>2, <2>3, <2>4 DEF WeakInv
<1> QED BY <1>2, <1>3, <1>4, <1>5, <1>6, <1>7 DEF WeakNext

LEMMA InvIsExact ==
  ASSUME WeakInv
  PROVE  WeakTableExact
<1>1. WeakTypeOK /\ TableInv /\ HoldInv
  BY DEF WeakInv
<1>2. ASSUME NEW o \in Entered(weak_entries)
      PROVE  /\ weak_entries[Probe(weak_entries, weak_cap, o)] = o
             /\ Cardinality({s \in DOMAIN weak_entries : weak_entries[s] = o}) = 1
  <2>1. weak_cap # 0 /\ o # None
    BY <1>1, <1>2 DEF WeakTypeOK, Entered
  <2>2. Sound(weak_entries, weak_cap) /\ DOMAIN weak_entries = 0..weak_cap-1 /\ Apart(weak_entries)
    BY <1>1, <2>1 DEF TableInv, Sound, IsTable
  <2>3. PICK s \in 0..weak_cap-1 : weak_entries[s] = o
    BY <1>2, <2>2 DEF Entered
  <2>4. Probe(weak_entries, weak_cap, o) = s
    BY <2>1, <2>2, <2>3, ProbeEntry
  <2>5. {r \in DOMAIN weak_entries : weak_entries[r] = o} = {s}
    BY <2>1, <2>2, <2>3 DEF Apart
  <2> QED BY <2>3, <2>4, <2>5, FS_Singleton
<1>3. EveryEntryFound
  BY <1>2 DEF EveryEntryFound
<1>4. DeadReadsGone /\ BlockHoldsExact
  BY <1>1 DEF HoldInv, DeadReadsGone, BlockHoldsExact
<1> QED BY <1>3, <1>4 DEF WeakTableExact

\* For any objects, any hash function and any number of references, handles,
\* growths and removals: a probe finds every entered object and finds it
\* once, a handle to a dead object reads as gone, a control block lives as
\* long as its handles and its entry, and no read revives an object whose last
\* reference went (weak_slot_for, weak_table_grow, weak_table_remove,
\* rt_try_retain).
THEOREM WeakExactCorrect == WeakSpec => WeakExact
<1>1. WeakInit => WeakInv
  BY WeakBegins
<1>2. WeakInv /\ [WeakNext]_weakVars => WeakInv'
  BY WeakKeeps
<1>3. WeakInv => WeakTableExact
  BY InvIsExact
<1>4. WeakInv /\ [WeakNext]_weakVars => [StaysGone]_weakVars
  BY WeakKeeps
<1> QED BY <1>1, <1>2, <1>3, <1>4, PTL DEF WeakSpec, WeakExact, NoResurrection
=============================================================================
